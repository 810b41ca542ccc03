---------------------------- MODULE EngineProofs ----------------------------
(***************************************************************************)
(* What holds of the choice of engine for any number of configurations:    *)
(* the types, and, when the whitelist always fits, that the engine in use  *)
(* is in step with the published configuration.                            *)
(***************************************************************************)
EXTENDS Engine, TLAPS

USE ConfigsAssumption, BigAssumption, FaultsAssumption

-----------------------------------------------------------------------------
(* The types.                                                              *)

LEMMA EngineInitType == Init => TypeOK
<1>1. Init => NumbersOK
  BY DEF Init, NumbersOK, Configs
<1>2. Init => FlagsOK
  BY DEF Init, FlagsOK
<1> QED
  BY <1>1, <1>2 DEF TypeOK

LEMMA EngineNumbers == TypeOK /\ [Next]_vars => NumbersOK'
<1> SUFFICES ASSUME TypeOK, [Next]_vars PROVE NumbersOK'
  OBVIOUS
<1> USE DEF shared, locals, es, proc, TypeOK, NumbersOK, Configs
<1>1. ASSUME NEW n \in 0..2, SetMode(n) PROVE NumbersOK'
  BY <1>1 DEF SetMode
<1>2. CASE PublishConfig \/ RaiseFlag
  BY <1>2 DEF PublishConfig, RaiseFlag
<1>3. CASE ClearGaveUp \/ KernelChanges \/ RetryTimer \/ ReaderDies
  BY <1>3 DEF ClearGaveUp, KernelChanges, RetryTimer, ReaderDies
<1>4. CASE BootMode \/ BootLoad \/ BootGiveUp
  BY <1>4 DEF BootMode, BootLoad, BootGiveUp, Load, NewCapacity
<1>5. CASE MainSwap \/ MainFetch
  BY <1>5 DEF MainSwap, MainFetch
<1>6. CASE MainMode
  BY <1>6 DEF MainMode, Unload, TakeOver
<1>7. CASE MainRetry
  BY <1>7 DEF MainRetry
<1>8. CASE MainInit \/ MainReinit
  BY <1>8 DEF MainInit, MainReinit, Load, NewCapacity
<1>9. CASE MainMap
  BY <1>9 DEF MainMap, Unload
<1>10. CASE WorkEbpf
  <2>1. CASE UNCHANGED <<es, proc>>
    BY <1>10, <2>1 DEF WorkEbpf
  <2>2. CASE Unload /\ TakeOver
    BY <1>10, <2>2 DEF WorkEbpf, Unload, TakeOver
  <2> QED
    BY <1>10, <2>1, <2>2 DEF WorkEbpf
<1>11. CASE WorkProc
  <2>1. walked' \in 0..MaxConfigs
    BY <1>11 DEF WorkProc
  <2> QED
    BY <1>11, <2>1 DEF WorkProc
<1>12. CASE UNCHANGED vars
  BY <1>12 DEF vars
<1> QED
  BY <1>1, <1>2, <1>3, <1>4, <1>5, <1>6, <1>7, <1>8, <1>9, <1>10, <1>11, <1>12
     DEF Next, MainLoop

(* The flags, in two parts: the solvers try every value of every flag.     *)
SharedFlags ==
  /\ updated \in BOOLEAN /\ publishing \in BOOLEAN /\ gaveUp \in BOOLEAN
  /\ clearing \in BOOLEAN /\ asked \in BOOLEAN /\ kernel \in BOOLEAN /\ due \in BOOLEAN
LoopFlags ==
  /\ changed \in BOOLEAN /\ loaded \in BOOLEAN /\ large \in BOOLEAN
  /\ scanAll \in BOOLEAN /\ alive \in BOOLEAN /\ (alive => loaded)

LEMMA FlagsInParts == FlagsOK <=> SharedFlags /\ LoopFlags
BY DEF FlagsOK, SharedFlags, LoopFlags

LEMMA EngineSharedFlags == SharedFlags /\ [Next]_vars => SharedFlags'
<1> SUFFICES ASSUME SharedFlags, [Next]_vars PROVE SharedFlags'
  OBVIOUS
<1> USE DEF shared, SharedFlags
<1>1. ASSUME NEW n \in 0..2, SetMode(n) PROVE SharedFlags'
  BY <1>1 DEF SetMode
<1>2. CASE PublishConfig
  BY <1>2, Zenon DEF PublishConfig
<1>3. CASE RaiseFlag
  BY <1>3, Zenon DEF RaiseFlag
<1>4. CASE ClearGaveUp
  <2>1. asked' \in BOOLEAN
    BY <1>4 DEF ClearGaveUp
  <2> QED
    BY <1>4, <2>1, Zenon DEF ClearGaveUp
<1>5. CASE KernelChanges
  BY <1>5, Zenon DEF KernelChanges
<1>6. CASE RetryTimer
  BY <1>6, Zenon DEF RetryTimer
<1>7. CASE ReaderDies
  BY <1>7, Zenon DEF ReaderDies
<1>8. CASE BootMode
  <2>1. asked' \in BOOLEAN
    BY <1>8 DEF BootMode
  <2> QED
    BY <1>8, <2>1, Zenon DEF BootMode
<1>9. CASE BootLoad
  BY <1>9, Zenon DEF BootLoad
<1>10. CASE BootGiveUp
  <2>1. gaveUp' \in BOOLEAN
    BY <1>10 DEF BootGiveUp
  <2> QED
    BY <1>10, <2>1, Zenon DEF BootGiveUp
<1>11. CASE MainSwap
  BY <1>11, Zenon DEF MainSwap
<1>12. CASE MainFetch
  BY <1>12, Zenon DEF MainFetch
<1>13. CASE MainMode
  BY <1>13, Zenon DEF MainMode
<1>14. CASE MainRetry
  <2>1. due' \in BOOLEAN /\ asked' \in BOOLEAN
    BY <1>14 DEF MainRetry
  <2> QED
    BY <1>14, <2>1, Zenon DEF MainRetry
<1>15. CASE MainInit
  <2>1. gaveUp' \in BOOLEAN
    BY <1>15 DEF MainInit
  <2> QED
    BY <1>15, <2>1, Zenon DEF MainInit
<1>16. CASE MainMap
  BY <1>16, Zenon DEF MainMap
<1>17. CASE MainReinit
  BY <1>17, Zenon DEF MainReinit
<1>18. CASE WorkEbpf
  BY <1>18, Zenon DEF WorkEbpf
<1>19. CASE WorkProc
  BY <1>19, Zenon DEF WorkProc
<1>20. CASE UNCHANGED vars
  BY <1>20, Zenon DEF vars
<1> QED
  BY <1>1, <1>2, <1>3, <1>4, <1>5, <1>6, <1>7, <1>8, <1>9, <1>10, <1>11,
     <1>12, <1>13, <1>14, <1>15, <1>16, <1>17, <1>18, <1>19, <1>20
     DEF Next, MainLoop

LEMMA EngineLoopFlags == LoopFlags /\ updated \in BOOLEAN /\ [Next]_vars => LoopFlags'
<1> SUFFICES ASSUME LoopFlags, updated \in BOOLEAN, [Next]_vars PROVE LoopFlags'
  OBVIOUS
<1> USE DEF locals, es, proc, LoopFlags
<1>0. NewCapacity \in BOOLEAN
  BY DEF NewCapacity
<1>1. ASSUME UNCHANGED <<changed, es, scanAll>> PROVE LoopFlags'
  BY <1>1, Zenon
<1>2. ASSUME UNCHANGED <<changed, scanAll>>, \E c : Load(c) PROVE LoopFlags'
  BY <1>0, <1>2, Zenon DEF Load
<1>3. ASSUME UNCHANGED changed, scanAll' \in BOOLEAN, Unload PROVE LoopFlags'
  BY <1>3, Zenon DEF Unload
<1>4. CASE \E n \in 0..2 : SetMode(n)
  BY <1>1, <1>4, Zenon DEF SetMode
<1>5. CASE PublishConfig \/ RaiseFlag \/ ClearGaveUp \/ KernelChanges \/ RetryTimer
  BY <1>1, <1>5, Zenon DEF PublishConfig, RaiseFlag, ClearGaveUp, KernelChanges, RetryTimer
<1>6. CASE ReaderDies
  BY <1>6, Zenon DEF ReaderDies
<1>7. CASE BootMode \/ BootGiveUp \/ MainFetch \/ MainRetry
  BY <1>1, <1>7, Zenon DEF BootMode, BootGiveUp, MainFetch, MainRetry
<1>8. CASE BootLoad
  BY <1>1, <1>2, <1>8, Zenon DEF BootLoad
<1>9. CASE MainSwap
  BY <1>9, Zenon DEF MainSwap
<1>10. CASE MainMode
  BY <1>1, <1>3, <1>10, Zenon DEF MainMode, TakeOver
<1>11. CASE MainInit \/ MainReinit
  BY <1>1, <1>2, <1>11, Zenon DEF MainInit, MainReinit
<1>12. CASE MainMap
  <2>1. CASE UNCHANGED <<loaded, large, alive>>
    BY <1>12, <2>1, Zenon DEF MainMap
  <2>2. CASE Unload \/ UNCHANGED es
    BY <1>1, <1>3, <1>12, <2>2, Zenon DEF MainMap
  <2> QED
    BY <1>12, <2>1, <2>2, Zenon DEF MainMap
<1>13. CASE WorkEbpf
  BY <1>1, <1>3, <1>13, Zenon DEF WorkEbpf, TakeOver
<1>14. CASE WorkProc
  BY <1>14, Zenon DEF WorkProc
<1>15. CASE UNCHANGED vars
  BY <1>1, <1>15, Zenon DEF vars
<1> QED
  BY <1>4, <1>5, <1>6, <1>7, <1>8, <1>9, <1>10, <1>11, <1>12, <1>13, <1>14, <1>15
     DEF Next, MainLoop

LEMMA EngineFlags == TypeOK /\ [Next]_vars => FlagsOK'
<1>1. FlagsOK' <=> SharedFlags' /\ LoopFlags'
  BY DEF FlagsOK, SharedFlags, LoopFlags
<1>2. TypeOK => SharedFlags /\ LoopFlags
  BY FlagsInParts DEF TypeOK
<1> QED
  BY <1>1, <1>2, EngineSharedFlags, EngineLoopFlags DEF SharedFlags

LEMMA EngineNextType == TypeOK /\ [Next]_vars => TypeOK'
BY EngineNumbers, EngineFlags DEF TypeOK

(* Every variable keeps its type, whatever the threads do.                 *)
THEOREM EngineTypes == Spec => []TypeOK
BY EngineInitType, EngineNextType, PTL DEF Spec

-----------------------------------------------------------------------------
(* In step with the published configuration.                               *)

(* A configuration the engine does not know is announced: by the flag or   *)
(* its publisher, or by the loop's own config_changed while the step that  *)
(* will act on it is ahead.  Only a configuration that outgrows the        *)
(* whitelist can be dropped on the way.                                    *)
StepInv ==
  /\ pc = "reinit" => cfg \in Big
  /\ pc \in {"boot", "load", "give"} => Pending
  /\ pc \in {"mode", "retry", "init", "map", "reinit", "work"} => cfg = current \/ Pending
  /\ \/ Pending \/ current \in Big
     \/ Matches
     \/ changed /\ pc \in {"fetch", "mode", "retry", "init", "map"}
     \/ changed /\ pc = "work" /\ ~loaded

LEMMA InitStep == Init => StepInv
BY DEF Init, StepInv, Pending

LEMMA NextStep ==
  ASSUME MapFaults = FALSE
  PROVE  TypeOK /\ StepInv /\ [Next]_vars => StepInv'
<1> SUFFICES ASSUME TypeOK, StepInv, [Next]_vars PROVE StepInv'
  OBVIOUS
<1> USE DEF shared, locals, es, proc, Pending
<1>1. \A capacity : MayOverflow(capacity) => cfg \in Big
  BY DEF MayOverflow, MayFill
<1>2. CASE PublishConfig \/ RaiseFlag
  BY <1>2 DEF PublishConfig, RaiseFlag, StepInv
<1>3. ASSUME NEW n \in 0..2, SetMode(n) PROVE StepInv'
  BY <1>3 DEF SetMode, StepInv, Matches
<1>4. CASE ClearGaveUp \/ KernelChanges \/ RetryTimer \/ ReaderDies
  BY <1>4 DEF ClearGaveUp, KernelChanges, RetryTimer, ReaderDies, StepInv, Matches
<1>5. CASE BootMode \/ BootLoad \/ BootGiveUp
  BY <1>5 DEF BootMode, BootLoad, BootGiveUp, StepInv
<1>6. CASE MainSwap
  BY <1>6 DEF MainSwap, StepInv, Matches
<1>7. CASE MainFetch
  BY <1>7 DEF MainFetch, StepInv, Matches
<1>8. CASE MainMode
  BY <1>8 DEF MainMode, Unload, TakeOver, StepInv, Matches
<1>9. CASE MainRetry
  BY <1>9 DEF MainRetry, StepInv, Matches
<1>10. CASE MainInit
  <2>1. CASE Load(cfg)
    BY <1>10, <2>1 DEF MainInit, Load, StepInv, Matches
  <2>2. CASE UNCHANGED es
    BY <1>10, <2>2 DEF MainInit, StepInv, Matches
  <2> QED
    BY <1>10, <2>1, <2>2 DEF MainInit
<1>11. CASE MainMap
  <2>1. CASE loaded /\ changed
    BY <1>1, <1>11, <2>1 DEF MainMap, StepInv, Matches
  <2>2. CASE ~(loaded /\ changed)
    BY <1>11, <2>2 DEF MainMap, StepInv, Matches
  <2> QED
    BY <2>1, <2>2
<1>12. CASE MainReinit
  BY <1>12 DEF MainReinit, Load, StepInv, Matches
<1>13. CASE WorkEbpf
  BY <1>13 DEF WorkEbpf, Unload, TakeOver, StepInv, Matches
<1>14. CASE WorkProc
  BY <1>14 DEF WorkProc, StepInv, Matches
<1>15. CASE UNCHANGED vars
  BY <1>15 DEF vars, StepInv, Matches
<1> QED
  BY <1>2, <1>3, <1>4, <1>5, <1>6, <1>7, <1>8, <1>9, <1>10, <1>11, <1>12,
     <1>13, <1>14, <1>15 DEF Next, MainLoop

(* Whatever configurations outgrow the whitelist, switching engines,       *)
(* failing to load eBPF, reloading it and losing its reader never leave an *)
(* engine on an older configuration when the current one fits (main.rs     *)
(* 256-363).                                                               *)
THEOREM StaysInStep ==
  ASSUME MapFaults = FALSE
  PROVE  Spec => []InStep
<1>1. Init => TypeOK /\ StepInv
  BY EngineInitType, InitStep
<1>2. TypeOK /\ StepInv /\ [Next]_vars => (TypeOK /\ StepInv)'
  BY EngineNextType, NextStep
<1>3. StepInv => InStep
  BY DEF StepInv, InStep, Matches
<1> QED
  BY <1>1, <1>2, <1>3, PTL DEF Spec
=============================================================================
