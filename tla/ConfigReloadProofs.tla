------------------------- MODULE ConfigReloadProofs -------------------------
(***************************************************************************)
(* What holds of hot reload for any set of paths, any bounds, any mix of   *)
(* web operations: the types, no missed update, the soundness of the       *)
(* modification-time shortcut under a fine clock, and the safety part of   *)
(* HotConfig.                                                              *)
(***************************************************************************)
EXTENDS ConfigReload, TLAPS

USE PathsAssumption, BoundsAssumption, WebOpsAssumption, FlagsAssumption

-----------------------------------------------------------------------------
(* The types.                                                              *)

LEMMA InodeFacts ==
  /\ NoInode \in Inodes
  /\ \A p \in Paths : Linked(p) \in Inodes /\ Orphan(p) \in Inodes
<1>1. NoInode \in Inodes
  BY DEF NoInode, Inodes
<1>2. ASSUME NEW p \in Paths PROVE Linked(p) \in [path : Paths, at : {"linked", "orphan"}]
  BY DEF Linked
<1>3. ASSUME NEW p \in Paths PROVE Orphan(p) \in [path : Paths, at : {"linked", "orphan"}]
  BY DEF Orphan
<1> QED
  BY <1>1, <1>2, <1>3 DEF Inodes

(* A thread's locals are updated as a whole.                               *)
LEMMA SetLocals ==
  ASSUME rd \in [Reloaders -> Locals], NEW r \in Reloaders, NEW l \in Locals,
         rd' = [rd EXCEPT ![r] = l]
  PROVE  rd' \in [Reloaders -> Locals]
OBVIOUS

(* The values the locals take on the way.                                  *)
LEMMA IdleLocals ==
  ASSUME NEW path \in Paths, NEW last \in Unset..MaxWrites,
         NEW ver \in 1..MaxWrites
  PROVE  Idle(path, last, ver) \in Locals
<1>1. 0 \in 0..MaxWrites /\ 0 \in 0..MaxTuning
  OBVIOUS
<1> QED
  BY <1>1 DEF Idle, Locals

LEMMA ReadLocals ==
  ASSUME NEW l \in Locals, NEW v \in 1..MaxWrites
  PROVE  [l EXCEPT !.pc = "pkgs", !.last = l.mtime, !.ver = v] \in Locals
<1>1. l.mtime \in Unset..MaxWrites
  BY DEF Locals, Unset
<1> QED
  BY <1>1 DEF Locals

LEMMA InitType == Init => TypeOK
<1> SUFFICES ASSUME Init PROVE TypeOK
  OBVIOUS
<1>1. PICK q \in Paths :
        /\ disk = [p \in Paths |-> IF p = StartPath THEN [ver |-> 2, mtime |-> 2]
                                   ELSE IF p = q THEN [ver |-> 1, mtime |-> 1]
                                   ELSE Absent]
        /\ rd = [r \in Reloaders |-> Idle(StartPath, Unset, 2)]
        /\ configFile = StartPath
  BY DEF Init
<1>2. disk \in [Paths -> Files]
  BY <1>1 DEF Files, Absent
<1>3. Idle(StartPath, Unset, 2) \in Locals
  BY IdleLocals DEF Unset
<1>4. rd \in [Reloaders -> Locals]
  BY <1>1, <1>3
<1>5. /\ writes \in 1..MaxWrites /\ now \in 1..writes /\ tuning \in 0..MaxTuning
      /\ current \in AppConfigs /\ acted \in AppConfigs
      /\ hold \in Inodes /\ watch \in Inodes
  BY InodeFacts DEF Init, AppConfigs
<1> QED
  BY <1>1, <1>2, <1>4, <1>5 DEF Init, TypeOK

(* A write keeps the types of the files.                                   *)
LEMMA StampType ==
  ASSUME TypeOK, NEW p \in Paths, Stamp(p)
  PROVE  /\ disk' \in [Paths -> Files]
         /\ writes' \in 1..MaxWrites
         /\ now' \in 1..writes'
<1>1. writes' \in 1..MaxWrites /\ now' \in 1..writes'
  BY DEF Stamp, TypeOK
<1>2. [ver |-> writes + 1, mtime |-> now'] \in Files
  BY <1>1 DEF Files, Stamp, TypeOK
<1> QED
  BY <1>1, <1>2 DEF Stamp, TypeOK

(* A lost name keeps the types of the inodes.                              *)
LEMMA UnlinkType ==
  ASSUME TypeOK, NEW p \in Paths, Unlink(p)
  PROVE  hold' \in Inodes /\ watch' \in Inodes /\ evq' \subseteq {"write", "gone"}
BY InodeFacts DEF Unlink, TypeOK

(* Renewing the watch, or giving inotify up, keeps them too.               *)
LEMMA RewatchType ==
  ASSUME TypeOK, InotifyRewatch
  PROVE  /\ hold' \in Inodes /\ watch' \in Inodes
         /\ evq' \subseteq {"write", "gone"} /\ supported' \in BOOLEAN
BY InodeFacts DEF InotifyRewatch, AddWatch, DisableInotify, TypeOK

(* Each step of config_reload keeps the types of its locals and of what it *)
(* publishes.                                                              *)
LEMMA ReloadStepType ==
  ASSUME TypeOK, NEW r \in Reloaders, ConfigReloadStep(r)
  PROVE  TypeOK'
<1> USE DEF ConfigReloadStep, TypeOK, pubVars, fileVars, inodeVars, mainVars
<1>1. rd[r] \in Locals /\ configFile \in Paths /\ rd[r].path \in Paths
  BY DEF Locals
<1>2. disk[rd[r].path] \in Files
  BY <1>1
<1>3. ASSUME Return(r) PROVE rd' \in [Reloaders -> Locals]
  <2>1. Idle(configFile, Unset, 1) \in Locals
    BY <1>1, IdleLocals DEF Unset
  <2>2. Idle(rd[r].path, rd[r].last, rd[r].ver) \in Locals
    BY <1>1, IdleLocals DEF Locals
  <2>3. \/ rd' = [rd EXCEPT ![r] = Idle(configFile, Unset, 1)]
        \/ rd' = [rd EXCEPT ![r] = Idle(rd[r].path, rd[r].last, rd[r].ver)]
    BY <1>3 DEF Return
  <2> QED
    BY <2>1, <2>2, <2>3
<1>4. CASE ReadPath(r)
  <2>1. [rd[r] EXCEPT !.pc = "stat", !.path = configFile] \in Locals
    BY <1>1 DEF Locals
  <2> QED
    BY <1>4, <2>1 DEF ReadPath
<1>5. CASE StatFile(r)
  <2>1. [rd[r] EXCEPT !.pc = "read", !.mtime = disk[rd[r].path].mtime] \in Locals
    BY <1>1, <1>2 DEF Locals, Files
  <2> QED
    BY <1>3, <1>5, <2>1 DEF StatFile
<1>6. CASE ReadFile(r)
  <2>1. CASE ~Present(rd[r].path)
    BY <1>3, <1>6, <2>1 DEF ReadFile
  <2>2. CASE Present(rd[r].path)
    <3>1. disk[rd[r].path].ver \in 1..MaxWrites
      BY <1>2, <2>2 DEF Present, Files
    <3>2. [rd[r] EXCEPT !.pc = "pkgs", !.last = rd[r].mtime,
                        !.ver = disk[rd[r].path].ver] \in Locals
      BY <1>1, <3>1, ReadLocals
    <3> QED
      BY <1>6, <2>2, <3>2 DEF ReadFile
  <2> QED
    BY <2>1, <2>2
<1>7. CASE TakePackages(r)
  <2>1. [rd[r] EXCEPT !.pc = "threads", !.pkgs = tuning] \in Locals
    BY <1>1 DEF Locals
  <2> QED
    BY <1>7, <2>1 DEF TakePackages
<1>8. CASE TakeThreadRules(r)
  <2>1. [rd[r] EXCEPT !.pc = "publish", !.threads = tuning] \in Locals
    BY <1>1 DEF Locals
  <2> QED
    BY <1>8, <2>1 DEF TakeThreadRules
<1>9. CASE Publish(r)
  <2>1. [rd[r] EXCEPT !.pc = "flag"] \in Locals
    BY <1>1 DEF Locals
  <2>2. current' \in AppConfigs
    BY <1>1, <1>9 DEF Publish, AppConfigs, Locals
  <2> QED
    BY <1>9, <2>1, <2>2 DEF Publish, Goto
<1>10. CASE RaiseFlag(r)
  BY <1>3, <1>10 DEF RaiseFlag
<1> QED
  BY <1>4, <1>5, <1>6, <1>7, <1>8, <1>9, <1>10

(* The loader's and the web threads' updates of the locals.                *)
LEMMA LocalsType ==
  ASSUME TypeOK, NEW r \in Reloaders
  PROVE  /\ \A last \in Unset..MaxWrites :
              Calling(r, last) \in [Reloaders -> Locals]
         /\ Forgetting(r) \in [Reloaders -> Locals]
<1>1. rd \in [Reloaders -> Locals] /\ rd[r] \in Locals /\ Unset \in Unset..MaxWrites
  BY DEF TypeOK, Unset
<1>2. ASSUME NEW last \in Unset..MaxWrites
      PROVE  [rd[r] EXCEPT !.pc = "file", !.last = last] \in Locals
  BY <1>1 DEF Locals
<1>3. [rd[r] EXCEPT !.last = Unset] \in Locals
  BY <1>1 DEF Locals
<1> QED
  BY <1>1, <1>2, <1>3 DEF Calling, Forgetting

LEMMA NextType == TypeOK /\ [Next]_vars => TypeOK'
<1> SUFFICES ASSUME TypeOK, [Next]_vars PROVE TypeOK'
  OBVIOUS
<1> USE DEF fileVars, inodeVars, pubVars, mainVars
<1>1. /\ "loader" \in Reloaders /\ "web" \in Reloaders
      /\ rd["loader"].last \in Unset..MaxWrites /\ Unset \in Unset..MaxWrites
      /\ hold.path \in Paths \/ hold = NoInode
      /\ configFile \in Paths
  BY DEF TypeOK, Locals, Reloaders, Unset, Inodes, NoInode
<1>2. ASSUME NEW p \in Paths, ExtWrite(p) PROVE TypeOK'
  BY <1>2, StampType, InodeFacts DEF ExtWrite, TypeOK
<1>3. ASSUME NEW p \in Paths, ExtReplace(p) PROVE TypeOK'
  BY <1>3, StampType, UnlinkType DEF ExtReplace, TypeOK
<1>4. ASSUME NEW p \in Paths, ExtRemove(p) PROVE TypeOK'
  <2>1. Absent \in Files
    BY DEF Absent, Files
  <2> QED
    BY <1>4, <2>1, UnlinkType DEF ExtRemove, TypeOK
<1>5. CASE ExtClose
  BY <1>5, InodeFacts DEF ExtClose, TypeOK
<1>6. CASE InitInotify
  BY <1>6, InodeFacts DEF InitInotify, TypeOK
<1>7. CASE LoaderTop
  BY <1>1, <1>7, LocalsType DEF LoaderTop, TypeOK
<1>8. CASE LoaderForce
  BY <1>1, <1>8, LocalsType, RewatchType DEF LoaderForce, TypeOK
<1>9. CASE LoaderCycle
  BY <1>1, <1>9, LocalsType DEF LoaderCycle, TypeOK
<1>10. CASE WaitTimeout
  BY <1>10 DEF WaitTimeout, TypeOK
<1>11. CASE WaitError
  BY <1>11, RewatchType DEF WaitError, InotifyRewatch, TypeOK
<1>12. CASE ReadEvents
  BY <1>1, <1>12, LocalsType DEF ReadEvents, TypeOK
<1>13. CASE Rewatch
  BY <1>1, <1>13, LocalsType, RewatchType DEF Rewatch, InotifyRewatch, TypeOK
<1>14. ASSUME NEW r \in Reloaders, ConfigReloadStep(r) PROVE TypeOK'
  BY <1>14, ReloadStepType
<1>15. CASE WebEdit
  BY <1>1, <1>15, StampType, UnlinkType, LocalsType DEF WebEdit, TypeOK
<1>16. CASE WebTuning
  BY <1>1, <1>16, LocalsType DEF WebTuning, TypeOK
<1>17. ASSUME NEW p \in Paths, WebSetPath(p) PROVE TypeOK'
  BY <1>17, StampType DEF WebSetPath, TypeOK
<1>18. CASE WebForceReload
  BY <1>18 DEF WebForceReload, TypeOK
<1>19. CASE MainSwap
  BY <1>19 DEF MainSwap, TypeOK
<1>20. CASE MainFetch
  BY <1>20 DEF MainFetch, TypeOK
<1>21. CASE UNCHANGED vars
  BY <1>21 DEF vars, TypeOK
<1> QED
  BY <1>1, <1>2, <1>3, <1>4, <1>5, <1>6, <1>7, <1>8, <1>9, <1>10, <1>11, <1>12,
     <1>13, <1>14, <1>15, <1>16, <1>17, <1>18, <1>19, <1>20, <1>21
     DEF Next, External, Loader, Web, Main

(* Every variable keeps its type, whatever the interleaving.               *)
THEOREM TypeCorrect == Spec => []TypeOK
<1>1. Init => TypeOK
  BY InitType
<1>2. TypeOK /\ [Next]_vars => TypeOK'
  BY NextType
<1> QED
  BY <1>1, <1>2, PTL DEF Spec

-----------------------------------------------------------------------------
(* No missed update.                                                       *)

(* A published configuration the main loop has not rescanned with is       *)
(* announced: by the flag, by a publisher that will raise it, or by the    *)
(* loop itself between its swap and its fetch.                             *)
Announced ==
  \/ acted = current
  \/ updated
  \/ \E r \in Reloaders : rd[r].pc = "flag"
  \/ main = "fetch" /\ changed

LEMMA InitAnnounced == Init => Announced
BY DEF Init, Announced

LEMMA NextAnnounced == TypeOK /\ Announced /\ [Next]_vars => Announced'
<1> SUFFICES ASSUME TypeOK, Announced, [Next]_vars PROVE Announced'
  OBVIOUS
<1> USE DEF fileVars, inodeVars, pubVars, mainVars
<1>1. rd \in [Reloaders -> Locals] /\ "loader" \in Reloaders /\ "web" \in Reloaders
  BY DEF TypeOK, Reloaders
(* Steps of other threads that leave every publisher at its flag there.    *)
<1>2. ASSUME UNCHANGED <<pubVars, mainVars>>,
             \A r \in Reloaders : rd[r].pc = "flag" => rd'[r].pc = "flag"
      PROVE  Announced'
  BY <1>2 DEF Announced
<1>3. ASSUME NEW r \in Reloaders, rd[r].pc # "flag", NEW l,
             rd' = [rd EXCEPT ![r] = l]
      PROVE  \A q \in Reloaders : rd[q].pc = "flag" => rd'[q].pc = "flag"
  BY <1>1, <1>3
<1>4. ASSUME NEW p \in Paths, ExtWrite(p) \/ ExtReplace(p) \/ ExtRemove(p)
      PROVE  Announced'
  BY <1>2, <1>4 DEF ExtWrite, ExtReplace, ExtRemove
<1>5. CASE ExtClose \/ InitInotify
  BY <1>2, <1>5 DEF ExtClose, InitInotify
<1>6. CASE LoaderTop \/ LoaderForce \/ LoaderCycle \/ ReadEvents \/ Rewatch
  <2>1. rd["loader"].pc # "flag"
    BY <1>6 DEF LoaderTop, LoaderForce, LoaderCycle, ReadEvents, Rewatch, LoaderAt
  <2>2. UNCHANGED <<pubVars, mainVars>>
    BY <1>6 DEF LoaderTop, LoaderForce, LoaderCycle, ReadEvents, Rewatch
  <2>3. UNCHANGED rd \/ \E l : rd' = [rd EXCEPT !["loader"] = l]
    BY <1>6 DEF LoaderTop, LoaderForce, LoaderCycle, ReadEvents, Rewatch,
       Calling, Forgetting
  <2> QED
    BY <1>1, <1>2, <1>3, <2>1, <2>2, <2>3
<1>7. CASE WaitTimeout \/ WaitError
  BY <1>2, <1>7 DEF WaitTimeout, WaitError
<1>8. ASSUME NEW r \in Reloaders, ConfigReloadStep(r) PROVE Announced'
  <2>1. CASE Publish(r)
    <3>1. rd'[r].pc = "flag"
      BY <1>1, <2>1 DEF Publish, Goto, Locals
    <3> QED
      BY <3>1 DEF Announced
  <2>2. CASE RaiseFlag(r)
    BY <2>2 DEF RaiseFlag, Announced
  <2>3. CASE rd[r].pc # "flag" /\ UNCHANGED pubVars
    <3>1. \E l : rd' = [rd EXCEPT ![r] = l]
      BY <1>8, <2>3 DEF ConfigReloadStep, ReadPath, StatFile, ReadFile,
         TakePackages, TakeThreadRules, Publish, RaiseFlag, Return, Goto
    <3> QED
      BY <1>2, <1>3, <1>8, <2>3, <3>1 DEF ConfigReloadStep
  <2> QED
    BY <1>8, <2>1, <2>2, <2>3 DEF ConfigReloadStep, ReadPath, StatFile,
       ReadFile, TakePackages, TakeThreadRules
<1>9. CASE WebEdit \/ WebTuning
  <2>1. rd["web"].pc # "flag"
    BY <1>9 DEF WebEdit, WebTuning, WebFree
  <2>2. UNCHANGED <<pubVars, mainVars>> /\ \E l : rd' = [rd EXCEPT !["web"] = l]
    BY <1>9 DEF WebEdit, WebTuning, Calling
  <2> QED
    BY <1>1, <1>2, <1>3, <2>1, <2>2
<1>10. ASSUME NEW p \in Paths, WebSetPath(p) PROVE Announced'
  BY <1>2, <1>10 DEF WebSetPath
<1>11. CASE WebForceReload
  BY <1>2, <1>11 DEF WebForceReload
<1>12. CASE MainSwap
  BY <1>12 DEF MainSwap, Announced, TypeOK
<1>13. CASE MainFetch
  BY <1>13 DEF MainFetch, Announced, TypeOK
<1>14. CASE UNCHANGED vars
  BY <1>14 DEF vars, Announced
<1> QED
  BY <1>1, <1>4, <1>5, <1>6, <1>7, <1>8, <1>9, <1>10, <1>11, <1>12, <1>13,
     <1>14 DEF Next, External, Loader, Web, Main

(* Swapping the flag before taking the configuration loses no update, for  *)
(* any number of publications in any interleaving (main.rs 241-243).       *)
THEOREM NoUpdateMissed == Spec => []NoMissedUpdate
<1>1. Init => TypeOK /\ Announced
  BY InitType, InitAnnounced
<1>2. TypeOK /\ Announced /\ [Next]_vars => (TypeOK /\ Announced)'
  BY NextType, NextAnnounced
<1>3. Announced => NoMissedUpdate
  BY DEF Announced, NoMissedUpdate
<1> QED
  BY <1>1, <1>2, <1>3, PTL DEF Spec

-----------------------------------------------------------------------------
(* Refinement.                                                             *)

LEMMA NextHot == TypeOK' /\ [Next]_vars => [Hot!Next]_<<current, acted>>
<1> SUFFICES ASSUME TypeOK', [Next]_vars PROVE [Hot!Next]_<<current, acted>>
  OBVIOUS
<1> USE DEF fileVars, inodeVars, pubVars, mainVars
<1>1. ASSUME NEW r \in Reloaders, ConfigReloadStep(r)
      PROVE  [Hot!Next]_<<current, acted>>
  <2>1. UNCHANGED acted /\ current' \in AppConfigs
    BY <1>1 DEF ConfigReloadStep, TypeOK
  <2> QED
    BY <2>1 DEF Hot!Next, Hot!Publish
<1>2. CASE MainFetch
  BY <1>2 DEF MainFetch, Hot!Next, Hot!Act
<1>3. CASE External
  BY <1>3 DEF External, ExtWrite, ExtReplace, ExtRemove, ExtClose
<1>4. CASE InitInotify \/ MainSwap
  BY <1>4 DEF InitInotify, MainSwap
<1>5. CASE Loader /\ ~ConfigReloadStep("loader")
  BY <1>5 DEF Loader, LoaderTop, LoaderForce, LoaderCycle, WaitTimeout,
     WaitError, ReadEvents, Rewatch
<1>6. CASE Web /\ ~ConfigReloadStep("web")
  BY <1>6 DEF Web, WebEdit, WebTuning, WebSetPath, WebForceReload
<1>7. CASE UNCHANGED vars
  BY <1>7 DEF vars
<1> QED
  BY <1>1, <1>2, <1>3, <1>4, <1>5, <1>6, <1>7 DEF Next, Loader, Web, Main, Reloaders

(* Hot reload implements the safety part of HotConfig: the loop rescans    *)
(* with the configuration in force and with nothing else.                  *)
THEOREM ReloadImplementsHotConfig == Spec => HotSafety
<1>1. Init => Hot!Init
  BY InitType DEF Hot!Init, TypeOK
<1>2. TypeOK' /\ [Next]_vars => [Hot!Next]_<<current, acted>>
  BY NextHot
<1>3. Spec => []TypeOK
  BY TypeCorrect
<1> QED
  BY <1>1, <1>2, <1>3, PTL DEF Spec, HotSafety

-----------------------------------------------------------------------------
(* Modification times.                                                     *)

(* Under a fine clock the modification time of a file is the number of its *)
(* last write, and no two files carry the same one.                        *)
Numbered ==
  /\ now = writes
  /\ \A p \in Paths : disk[p].mtime = disk[p].ver /\ disk[p].ver <= writes
  /\ \A p, q \in Paths : Present(p) /\ disk[p].ver = disk[q].ver => p = q

(* A time the loader remembers, or has just looked up, can only be found   *)
(* again on the content it came with.                                      *)
Remembered ==
  LET l == rd["loader"]
  IN /\ l.last # Unset =>
          /\ l.last \in 1..writes
          /\ \A p \in Paths : disk[p].ver = l.last => l.ver = l.last
     /\ l.pc = "read" =>
          /\ l.mtime \in 1..writes
          /\ \A p \in Paths : disk[p].ver = l.mtime => p = l.path

MtimeInv == FineClock => Numbered /\ Remembered

LEMMA InitMtime == Init => MtimeInv
<1> SUFFICES ASSUME Init PROVE Numbered /\ Remembered
  BY DEF MtimeInv
<1>1. PICK q \in Paths :
        /\ disk = [p \in Paths |-> IF p = StartPath THEN [ver |-> 2, mtime |-> 2]
                                   ELSE IF p = q THEN [ver |-> 1, mtime |-> 1]
                                   ELSE Absent]
        /\ rd = [r \in Reloaders |-> Idle(StartPath, Unset, 2)]
        /\ writes = 2 /\ now = 2
  BY DEF Init
<1>2. Numbered
  BY <1>1 DEF Numbered, Present, Absent
<1>3. rd["loader"].last = Unset /\ rd["loader"].pc = "idle"
  BY <1>1 DEF Reloaders, Idle
<1> QED
  BY <1>2, <1>3 DEF Remembered

(* A write gives the file the next number.                                 *)
LEMMA StampMtime ==
  ASSUME TypeOK, FineClock, Numbered, Remembered, NEW p \in Paths, Stamp(p)
  PROVE  Numbered' /\ (UNCHANGED rd["loader"] => Remembered')
<1>1. /\ writes' = writes + 1 /\ now' = writes + 1
      /\ disk'[p].ver = writes + 1 /\ disk'[p].mtime = writes + 1
      /\ \A q \in Paths \ {p} : disk'[q] = disk[q]
      /\ writes \in Nat
  BY DEF Stamp, Numbered, TypeOK
<1>2. \A q \in Paths : disk[q].ver \in Nat
  BY DEF TypeOK, Files
<1>3. Numbered'
  BY <1>1, <1>2 DEF Numbered, Present
<1>4. ASSUME UNCHANGED rd["loader"] PROVE Remembered'
  <2>1. \A n \in 1..writes : n \in 1..writes' /\ n # writes + 1
    BY <1>1
  <2> QED
    BY <1>1, <1>4, <2>1 DEF Remembered
<1> QED
  BY <1>3, <1>4

(* A removal takes numbers away.                                           *)
LEMMA RemoveMtime ==
  ASSUME TypeOK, Numbered, Remembered, NEW p \in Paths,
         disk' = [disk EXCEPT ![p] = Absent], UNCHANGED <<writes, now, rd>>
  PROVE  Numbered' /\ Remembered'
<1>1. /\ disk'[p].ver = 0 /\ disk'[p].mtime = 0
      /\ \A q \in Paths \ {p} : disk'[q] = disk[q]
      /\ writes \in Nat /\ 0 \notin 1..writes
  BY DEF TypeOK, Absent
<1>2. \A q \in Paths : disk[q].ver \in Nat
  BY DEF TypeOK, Files
<1>3. Numbered'
  BY <1>1, <1>2 DEF Numbered, Present
<1>4. Remembered'
  BY <1>1 DEF Remembered
<1> QED
  BY <1>3, <1>4

(* The loader's own steps.                                                 *)
LEMMA ReloadMtime ==
  ASSUME TypeOK, Numbered, Remembered, ConfigReloadStep("loader")
  PROVE  Remembered'
<1> DEFINE l == rd["loader"]
           n == rd'["loader"]
<1>1. /\ rd \in [Reloaders -> Locals] /\ "loader" \in Reloaders /\ "loader" # "web"
      /\ l \in Locals /\ l.path \in Paths /\ l.mtime \in Nat
      /\ disk[l.path] \in Files /\ writes \in Nat
  BY DEF TypeOK, Reloaders, Locals
<1>2. UNCHANGED <<disk, writes>>
  BY DEF ConfigReloadStep, fileVars
<1>3. ASSUME n.pc # "read", n.last = l.last, n.ver = l.ver PROVE Remembered'
  BY <1>2, <1>3 DEF Remembered
<1>4. ASSUME Return("loader")
      PROVE  n.pc = "idle" /\ n.last = l.last /\ n.ver = l.ver
  BY <1>1, <1>4 DEF Return, Idle
<1>5. CASE ReadPath("loader")
  <2>1. n = [l EXCEPT !.pc = "stat", !.path = configFile]
    BY <1>1, <1>5 DEF ReadPath
  <2> QED
    BY <1>1, <1>3, <2>1 DEF Locals
<1>6. CASE StatFile("loader")
  <2>1. CASE Unmodified("loader")
    BY <1>3, <1>4, <1>6, <2>1 DEF StatFile
  <2>2. CASE ~Unmodified("loader")
    <3>1. n = [l EXCEPT !.pc = "read", !.mtime = disk[l.path].mtime]
      BY <1>1, <1>6, <2>2 DEF StatFile
    <3>2. /\ n.pc = "read" /\ n.mtime = disk[l.path].mtime /\ n.path = l.path
          /\ n.last = l.last /\ n.ver = l.ver
      BY <1>1, <3>1 DEF Locals
    <3>3. Present(l.path) /\ disk[l.path].ver \in 1..writes
      BY <1>1, <2>2 DEF Unmodified, Present, Numbered, Files
    <3> QED
      BY <1>1, <1>2, <3>2, <3>3 DEF Remembered, Numbered
  <2> QED
    BY <2>1, <2>2
<1>7. CASE ReadFile("loader")
  <2>1. CASE ~Present(l.path)
    BY <1>3, <1>4, <1>7, <2>1 DEF ReadFile
  <2>2. CASE Present(l.path)
    <3>1. n = [l EXCEPT !.pc = "pkgs", !.last = l.mtime,
                        !.ver = disk[l.path].ver]
      BY <1>1, <1>7, <2>2 DEF ReadFile
    <3>2. n.pc = "pkgs" /\ n.last = l.mtime /\ n.ver = disk[l.path].ver
      BY <1>1, <3>1 DEF Locals
    <3> QED
      BY <1>2, <1>7, <3>2 DEF Remembered, ReadFile
  <2> QED
    BY <2>1, <2>2
<1>8. CASE TakePackages("loader")
  <2>1. n = [l EXCEPT !.pc = "threads", !.pkgs = tuning]
    BY <1>1, <1>8 DEF TakePackages
  <2> QED
    BY <1>1, <1>3, <2>1 DEF Locals
<1>9. CASE TakeThreadRules("loader")
  <2>1. n = [l EXCEPT !.pc = "publish", !.threads = tuning]
    BY <1>1, <1>9 DEF TakeThreadRules
  <2> QED
    BY <1>1, <1>3, <2>1 DEF Locals
<1>10. CASE Publish("loader")
  <2>1. n = [l EXCEPT !.pc = "flag"]
    BY <1>1, <1>10 DEF Publish, Goto
  <2> QED
    BY <1>1, <1>3, <2>1 DEF Locals
<1>11. CASE RaiseFlag("loader")
  BY <1>3, <1>4, <1>11 DEF RaiseFlag
<1> QED
  BY <1>5, <1>6, <1>7, <1>8, <1>9, <1>10, <1>11 DEF ConfigReloadStep

LEMMA NextMtime == TypeOK /\ MtimeInv /\ [Next]_vars => MtimeInv'
<1> SUFFICES ASSUME TypeOK, FineClock, Numbered, Remembered, [Next]_vars
             PROVE  Numbered' /\ Remembered'
  BY DEF MtimeInv
<1> USE DEF fileVars, inodeVars, pubVars, mainVars
<1>1. /\ rd \in [Reloaders -> Locals] /\ "loader" \in Reloaders /\ "web" \in Reloaders
      /\ "loader" # "web" /\ rd["loader"] \in Locals /\ configFile \in Paths
  BY DEF TypeOK, Reloaders
<1>2. ASSUME UNCHANGED fileVars PROVE Numbered'
  BY <1>2 DEF Numbered, Present
<1>3. ASSUME UNCHANGED fileVars, UNCHANGED rd["loader"] PROVE Remembered'
  BY <1>3 DEF Remembered
(* The loader forgets the time, or calls config_reload.                    *)
<1>4. ASSUME UNCHANGED fileVars,
             \/ UNCHANGED rd
             \/ rd' = Forgetting("loader")
             \/ rd' = Calling("loader", Unset)
             \/ rd' = Calling("loader", rd["loader"].last)
      PROVE  Remembered'
  <2>1. CASE UNCHANGED rd
    BY <1>3, <1>4, <2>1
  <2>2. CASE rd' = Forgetting("loader")
    <3>1. /\ rd'["loader"].last = Unset /\ rd'["loader"].pc = rd["loader"].pc
          /\ rd'["loader"].mtime = rd["loader"].mtime
          /\ rd'["loader"].path = rd["loader"].path
      BY <1>1, <2>2 DEF Forgetting, Locals
    <3> QED
      BY <1>4, <3>1 DEF Remembered
  <2>3. CASE \E last \in {Unset, rd["loader"].last} : rd' = Calling("loader", last)
    <3>1. /\ rd'["loader"].last \in {Unset, rd["loader"].last}
          /\ rd'["loader"].pc = "file" /\ rd'["loader"].ver = rd["loader"].ver
      BY <1>1, <2>3 DEF Calling, Locals
    <3> QED
      BY <1>4, <3>1 DEF Remembered
  <2> QED
    BY <1>4, <2>1, <2>2, <2>3
<1>5. ASSUME NEW l, rd' = [rd EXCEPT !["web"] = l] PROVE UNCHANGED rd["loader"]
  BY <1>1, <1>5
<1>6. ASSUME NEW p \in Paths, ExtWrite(p) \/ ExtReplace(p)
      PROVE  Numbered' /\ Remembered'
  BY <1>6, StampMtime DEF ExtWrite, ExtReplace
<1>7. ASSUME NEW p \in Paths, ExtRemove(p) PROVE Numbered' /\ Remembered'
  BY <1>7, RemoveMtime DEF ExtRemove
<1>8. CASE ExtClose \/ InitInotify
  BY <1>2, <1>3, <1>8 DEF ExtClose, InitInotify
<1>9. CASE LoaderTop \/ LoaderForce \/ LoaderCycle \/ WaitTimeout \/ WaitError
           \/ ReadEvents \/ Rewatch
  BY <1>2, <1>4, <1>9 DEF LoaderTop, LoaderForce, LoaderCycle, WaitTimeout,
     WaitError, ReadEvents, Rewatch
<1>10. CASE ConfigReloadStep("loader")
  BY <1>2, <1>10, ReloadMtime DEF ConfigReloadStep
<1>11. CASE ConfigReloadStep("web")
  <2>1. \E l : rd' = [rd EXCEPT !["web"] = l]
    BY <1>11 DEF ConfigReloadStep, ReadPath, StatFile, ReadFile, TakePackages,
       TakeThreadRules, Publish, RaiseFlag, Return, Goto
  <2> QED
    BY <1>2, <1>3, <1>5, <1>11, <2>1 DEF ConfigReloadStep
<1>12. CASE WebEdit
  <2>1. UNCHANGED rd["loader"]
    BY <1>5, <1>12 DEF WebEdit, Calling
  <2> QED
    BY <1>1, <1>12, <2>1, StampMtime DEF WebEdit
<1>13. CASE WebTuning
  BY <1>2, <1>3, <1>5, <1>13 DEF WebTuning, Calling
<1>14. ASSUME NEW p \in Paths, WebSetPath(p) PROVE Numbered' /\ Remembered'
  BY <1>2, <1>3, <1>14, StampMtime DEF WebSetPath
<1>15. CASE WebForceReload
  BY <1>2, <1>3, <1>15 DEF WebForceReload
<1>16. CASE Main
  BY <1>2, <1>3, <1>16 DEF Main, MainSwap, MainFetch
<1>17. CASE UNCHANGED vars
  BY <1>2, <1>3, <1>17 DEF vars
<1> QED
  BY <1>6, <1>7, <1>8, <1>9, <1>10, <1>11, <1>12, <1>13, <1>14, <1>15, <1>16,
     <1>17 DEF Next, External, Loader, Web

(* When every write has a time of its own, the shortcut of load_config     *)
(* (config.rs 234) never skips content that has not been read, whatever    *)
(* the loader, the web thread and the editors do in between.               *)
THEOREM MtimeShortcutSound == Spec => []MtimeSound
<1>1. Init => TypeOK /\ MtimeInv
  BY InitType, InitMtime
<1>2. TypeOK /\ MtimeInv /\ [Next]_vars => (TypeOK /\ MtimeInv)'
  BY NextType, NextMtime
<1>3. TypeOK /\ MtimeInv => MtimeSound
  <2> SUFFICES ASSUME TypeOK, Numbered, Remembered, rd["loader"].last # Unset,
                      rd["loader"].last = disk[rd["loader"].path].mtime
               PROVE  rd["loader"].ver = disk[rd["loader"].path].ver
    BY DEF MtimeInv, MtimeSound
  <2>1. rd["loader"].path \in Paths
    BY DEF TypeOK, Reloaders, Locals
  <2> QED
    BY <2>1 DEF Numbered, Remembered
<1> QED
  BY <1>1, <1>2, <1>3, PTL DEF Spec

-----------------------------------------------------------------------------
(* Nothing unnoticed.  While inotify is in use the loader has read what    *)
(* the file holds, or something makes it read: a change of path under way, *)
(* the loss of the watched file, an event in the queue, an editor that     *)
(* will cause one, or the reading itself.                                  *)

HasRead == disk[configFile].ver \in {0, rd["loader"].ver}

AboutToRead == rd["loader"].pc \in {"file", "stat", "read"}

ReadsThisFile == rd["loader"].pc \in {"stat", "read"} => rd["loader"].path = configFile

PathChanging == forceReload \/ web = "force" \/ lpc = "force"

FileLost == "gone" \in evq \/ lpc = "rewatch" \/ (watch.at = "orphan" /\ hold = watch)

FileWatched ==
  /\ watch = Linked(configFile)
  /\ ReadsThisFile
  /\ HasRead \/ "write" \in evq \/ hold = Linked(configFile) \/ AboutToRead

(* In inotify mode every reload of the loader is a forced one.             *)
ReadsForced ==
  /\ lpc \in {"force", "rewatch"} => rd["loader"].pc = "idle" /\ rd["loader"].last = Unset
  /\ rd["loader"].pc \in {"file", "stat"} => rd["loader"].last = Unset

StartRead == boot = "loaded" => ~supported /\ HasRead

Noticed ==
  /\ StartRead
  /\ boot = "loaded" => rd["loader"].pc = "idle" /\ lpc = "top"
  /\ supported => ReadsForced /\ (PathChanging \/ FileLost \/ FileWatched)

LEMMA InitNoticed == Init => Noticed
<1> SUFFICES ASSUME Init PROVE Noticed
  OBVIOUS
<1>1. disk[configFile].ver = 2 /\ rd["loader"].ver = 2
  BY DEF Init, Idle, Reloaders
<1> QED
  BY <1>1 DEF Init, Noticed, StartRead, HasRead, Idle, Reloaders

(* A file written or removed behind the loader's back.                     *)
LEMMA LinkedApart ==
  /\ \A p, q \in Paths : Linked(p) = Linked(q) <=> p = q
  /\ \A p, q \in Paths : Linked(p) # Orphan(q)
  /\ \A p \in Paths : Linked(p) # NoInode /\ Orphan(p) # NoInode
                      /\ Linked(p).at = "linked" /\ Orphan(p).at = "orphan"
  /\ NoInode.at = "none"
BY DEF Linked, Orphan, NoInode

LEMMA UnlinkNoticed ==
  ASSUME TypeOK, Noticed, supported, NEW p \in Paths, Unlink(p),
         \A q \in Paths : q # p => disk'[q] = disk[q],
         UNCHANGED <<configFile, forceReload, lpc, web>>, UNCHANGED rd["loader"]
  PROVE  (PathChanging \/ FileLost \/ FileWatched)'
<1>1. CASE PathChanging
  BY <1>1 DEF PathChanging
<1>2. CASE FileLost
  BY <1>2, LinkedApart DEF FileLost, Unlink
<1>3. CASE FileWatched /\ configFile = p
  BY <1>3, LinkedApart DEF FileWatched, FileLost, Unlink
<1>4. CASE FileWatched /\ configFile # p
  <2>1. configFile \in Paths /\ watch # Linked(p)
    BY <1>4, LinkedApart DEF FileWatched, TypeOK
  <2>2. disk'[configFile] = disk[configFile]
    BY <1>4, <2>1
  <2>3. hold = Linked(configFile) => hold' = hold
    BY <1>4, <2>1, LinkedApart DEF Unlink
  <2> QED
    BY <1>4, <2>1, <2>2, <2>3 DEF FileWatched, HasRead, AboutToRead, ReadsThisFile, Unlink
<1> QED
  BY <1>1, <1>2, <1>3, <1>4 DEF Noticed

(* The watch is renewed, or inotify is given up.                           *)
LEMMA RewatchNoticed ==
  ASSUME TypeOK, InotifyRewatch, supported', rd'["loader"].pc = "file", UNCHANGED configFile
  PROVE  FileWatched'
BY DEF InotifyRewatch, AddWatch, DisableInotify, FileWatched, AboutToRead, ReadsThisFile, Linked

LEMMA ReloadNoticed ==
  ASSUME TypeOK, Noticed, supported, ConfigReloadStep("loader")
  PROVE  ReadsForced' /\ (PathChanging \/ FileLost \/ FileWatched)'
<1>1. /\ rd \in [Reloaders -> Locals] /\ "loader" \in Reloaders
      /\ configFile \in Paths /\ disk \in [Paths -> Files]
      /\ rd["loader"] \in Locals /\ rd["loader"].pc # "idle"
      /\ lpc \notin {"force", "rewatch"}
  BY DEF TypeOK, Reloaders, Noticed, ReadsForced, ConfigReloadStep, ReadPath, StatFile,
     ReadFile, TakePackages, TakeThreadRules, Publish, RaiseFlag
<1>2. UNCHANGED <<fileVars, inodeVars, configFile, forceReload, supported, lpc, web>>
  BY DEF ConfigReloadStep
<1> USE DEF fileVars, inodeVars
<1>3. ASSUME Return("loader")
      PROVE  rd'["loader"].pc = "idle" /\ rd'["loader"].ver = rd["loader"].ver
  BY <1>1, <1>3 DEF Return, Idle, Locals
<1>4. /\ rd'["loader"].pc \in {"file", "stat"} => rd'["loader"].last = Unset
      /\ ReadsThisFile
           => ReadsThisFile' /\ (HasRead \/ AboutToRead => (HasRead \/ AboutToRead)')
  <2>1. CASE ReadPath("loader")
    BY <1>1, <1>2, <2>1 DEF ReadPath, Noticed, ReadsForced, AboutToRead, ReadsThisFile, Locals
  <2>2. CASE StatFile("loader") /\ Unmodified("loader")
    <3>1. rd["loader"].pc = "stat" /\ rd["loader"].last = Unset
          /\ disk[rd["loader"].path].ver = 0
      BY <2>2 DEF StatFile, Unmodified, Noticed, ReadsForced
    <3>2. Return("loader")
      BY <2>2 DEF StatFile
    <3> QED
      BY <1>2, <1>3, <3>1, <3>2 DEF HasRead, ReadsThisFile
  <2>3. CASE StatFile("loader") /\ ~Unmodified("loader")
    <3>1. rd'["loader"] = [rd["loader"] EXCEPT !.pc = "read", !.mtime = disk[rd["loader"].path].mtime]
      BY <1>1, <2>3 DEF StatFile
    <3>2. /\ rd["loader"].pc = "stat" /\ rd'["loader"].pc = "read"
          /\ rd'["loader"].path = rd["loader"].path
      BY <1>1, <2>3, <3>1 DEF StatFile, Locals
    <3> QED
      BY <1>2, <3>2 DEF AboutToRead, ReadsThisFile
  <2>4. CASE ReadFile("loader") /\ ~Present(rd["loader"].path)
    <3>1. /\ rd["loader"].pc = "read" /\ disk[rd["loader"].path].ver = 0
          /\ Return("loader")
      BY <2>4 DEF ReadFile, Present
    <3> QED
      BY <1>2, <1>3, <3>1 DEF HasRead, ReadsThisFile
  <2>5. CASE ReadFile("loader") /\ Present(rd["loader"].path)
    <3>1. /\ rd["loader"].pc = "read" /\ rd'["loader"].pc = "pkgs"
          /\ rd'["loader"].ver = disk[rd["loader"].path].ver
      <4>1. rd'["loader"] = [rd["loader"] EXCEPT !.pc = "pkgs", !.last = rd["loader"].mtime,
                                                 !.ver = disk[rd["loader"].path].ver]
        BY <1>1, <2>5 DEF ReadFile
      <4> QED
        BY <1>1, <2>5, <4>1 DEF ReadFile, Locals
    <3> QED
      BY <1>2, <3>1 DEF HasRead, ReadsThisFile
  <2>6. CASE TakePackages("loader") \/ TakeThreadRules("loader") \/ Publish("loader")
    <3>1. \/ rd'["loader"] = [rd["loader"] EXCEPT !.pc = "threads", !.pkgs = tuning]
          \/ rd'["loader"] = [rd["loader"] EXCEPT !.pc = "publish", !.threads = tuning]
          \/ rd'["loader"] = [rd["loader"] EXCEPT !.pc = "flag"]
      BY <1>1, <2>6 DEF TakePackages, TakeThreadRules, Publish, Goto
    <3>2. /\ rd'["loader"].pc \in {"threads", "publish", "flag"}
          /\ rd'["loader"].ver = rd["loader"].ver
      BY <1>1, <3>1 DEF Locals
    <3>3. rd["loader"].pc \in {"pkgs", "threads", "publish"}
      BY <2>6 DEF TakePackages, TakeThreadRules, Publish
    <3> QED
      BY <1>2, <3>2, <3>3 DEF HasRead, AboutToRead, ReadsThisFile
  <2>7. CASE RaiseFlag("loader")
    BY <1>2, <1>3, <2>7 DEF RaiseFlag, HasRead, AboutToRead, ReadsThisFile
  <2> QED
    BY <2>1, <2>2, <2>3, <2>4, <2>5, <2>6, <2>7 DEF ConfigReloadStep
<1>5. ReadsForced'
  BY <1>1, <1>2, <1>4 DEF ReadsForced
<1>6. (PathChanging => PathChanging') /\ (FileLost => FileLost')
  BY <1>2 DEF PathChanging, FileLost
<1>7. FileWatched => FileWatched'
  <2> SUFFICES ASSUME FileWatched PROVE FileWatched'
    OBVIOUS
  <2>1. watch' = Linked(configFile)' /\ (hold = Linked(configFile) => hold' = Linked(configFile)')
    BY <1>2 DEF FileWatched, Linked
  <2>2. "write" \in evq => "write" \in evq'
    BY <1>2
  <2>3. ReadsThisFile /\ (HasRead \/ AboutToRead \/ "write" \in evq \/ hold = Linked(configFile))
    BY DEF FileWatched
  <2>4. ReadsThisFile'
    BY <1>1, <1>2, <1>4, <2>3
  <2> QED
    BY <1>4, <2>1, <2>2, <2>3, <2>4 DEF FileWatched
<1> QED
  BY <1>5, <1>6, <1>7 DEF Noticed

LEMMA NextNoticed ==
  ASSUME StartupEdits = FALSE
  PROVE  TypeOK /\ Noticed /\ [Next]_vars => Noticed'
<1> SUFFICES ASSUME TypeOK, Noticed, [Next]_vars PROVE Noticed'
  OBVIOUS
<1> USE DEF fileVars, inodeVars
<1>1. /\ rd \in [Reloaders -> Locals] /\ "loader" \in Reloaders /\ "web" \in Reloaders
      /\ rd["loader"] \in Locals /\ configFile \in Paths /\ disk \in [Paths -> Files]
      /\ hold \in Inodes /\ watch \in Inodes /\ TypeOK'
  BY NextType DEF TypeOK, Reloaders
(* What the loader waits for, and where it is, stays.                      *)
<1>2. ASSUME Up, UNCHANGED <<boot, supported, lpc, rd["loader"]>>,
             supported => (PathChanging \/ FileLost \/ FileWatched)'
      PROVE  Noticed'
  BY <1>2 DEF Noticed, Up, StartRead, ReadsForced
<1>3. ASSUME NEW l, rd' = [rd EXCEPT !["web"] = l] PROVE UNCHANGED rd["loader"]
  BY <1>1, <1>3
<1>4. ASSUME Up, UNCHANGED <<boot, supported, lpc, rd["loader"], disk, watch, hold, evq,
                             configFile, forceReload, web>>
      PROVE  Noticed'
  BY <1>2, <1>4 DEF Noticed, PathChanging, FileLost, FileWatched, HasRead, AboutToRead,
     ReadsThisFile
<1>5. ASSUME NEW p \in Paths, ExtWrite(p) PROVE Noticed'
  <2>1. /\ Up /\ hold' = Linked(p) /\ (hold.at = "none" \/ hold = Linked(p))
        /\ \A q \in Paths : q # p => disk'[q] = disk[q]
        /\ UNCHANGED <<boot, supported, lpc, rd, watch, evq, configFile, forceReload, web>>
    BY <1>1, <1>5 DEF ExtWrite, Stamp, MayEdit
  <2>2. FileLost => FileLost'
    BY <2>1, LinkedApart DEF FileLost
  <2>3. FileWatched => FileWatched'
    BY <1>1, <2>1, LinkedApart DEF FileWatched, HasRead, AboutToRead, ReadsThisFile
  <2> QED
    BY <1>2, <2>1, <2>2, <2>3 DEF Noticed, PathChanging
<1>6. ASSUME NEW p \in Paths, ExtReplace(p) \/ ExtRemove(p) PROVE Noticed'
  <2>1. /\ Up /\ Unlink(p) /\ \A q \in Paths : q # p => disk'[q] = disk[q]
        /\ UNCHANGED <<boot, supported, lpc, rd, configFile, forceReload, web>>
    BY <1>1, <1>6 DEF ExtReplace, ExtRemove, Stamp, MayEdit
  <2> QED
    BY <1>2, <2>1, UnlinkNoticed
<1>7. CASE ExtClose
  <2>1. /\ Up /\ hold.at # "none"
        /\ IF watch # hold THEN UNCHANGED <<watch, evq>>
           ELSE IF hold.at = "linked" THEN evq' = evq \cup {"write"} /\ UNCHANGED watch
           ELSE "gone" \in evq'
        /\ evq \subseteq evq'
        /\ UNCHANGED <<boot, supported, lpc, rd, disk, configFile, forceReload, web>>
    BY <1>7 DEF ExtClose, MayEdit
  <2>2. FileLost => FileLost'
    BY <2>1 DEF FileLost
  <2>3. FileWatched => FileWatched'
    BY <1>1, <2>1, LinkedApart DEF FileWatched, HasRead, AboutToRead, ReadsThisFile
  <2> QED
    BY <1>2, <2>1, <2>2, <2>3 DEF Noticed, PathChanging
<1>8. CASE InitInotify
  <2>1. /\ boot = "loaded" /\ boot' = "up" /\ HasRead /\ ~supported
        /\ rd["loader"].pc = "idle" /\ lpc = "top"
        /\ UNCHANGED <<disk, configFile, rd, lpc>>
    BY <1>8 DEF InitInotify, Noticed, StartRead
  <2>2. supported' => FileWatched'
    BY <1>8, <2>1 DEF InitInotify, FileWatched, HasRead, ReadsThisFile, Linked
  <2> QED
    BY <2>1, <2>2 DEF Noticed, StartRead, ReadsForced
<1>9. CASE LoaderTop
  <2>1. /\ Up /\ lpc = "top" /\ rd["loader"].pc = "idle" /\ boot' = boot
        /\ UNCHANGED <<disk, watch, hold, evq, configFile, supported, web>>
    BY <1>9 DEF LoaderTop, LoaderAt
  <2>2. CASE forceReload
    <3>1. lpc' = "force" /\ rd'["loader"].pc = "idle" /\ rd'["loader"].last = Unset
      BY <1>1, <1>9, <2>1, <2>2 DEF LoaderTop, Forgetting, Locals
    <3> QED
      BY <2>1, <3>1 DEF Noticed, StartRead, ReadsForced, PathChanging, Up
  <2>3. CASE ~forceReload
    <3>1. lpc' = "cycle" /\ UNCHANGED rd /\ ~forceReload'
      BY <1>9, <2>3 DEF LoaderTop
    <3> QED
      BY <2>1, <2>3, <3>1 DEF Noticed, StartRead, ReadsForced, PathChanging, FileLost, FileWatched,
         HasRead, AboutToRead, ReadsThisFile, Up
  <2> QED
    BY <2>2, <2>3
<1>10. CASE LoaderForce
  <2>1. /\ Up /\ boot' = boot /\ lpc' = "cycle" /\ lpc = "force"
        /\ rd' = Calling("loader", rd["loader"].last)
        /\ UNCHANGED configFile
        /\ (supported => InotifyRewatch) /\ (supported' => supported)
    BY <1>10 DEF LoaderForce, LoaderAt, InotifyRewatch, AddWatch, DisableInotify
  <2>2. rd'["loader"].pc = "file" /\ rd'["loader"].last = rd["loader"].last
    BY <1>1, <2>1 DEF Calling, Locals
  <2>3. supported' => FileWatched'
    BY <2>1, <2>2, RewatchNoticed
  <2> QED
    BY <2>1, <2>2, <2>3 DEF Noticed, StartRead, ReadsForced, Up
<1>11. CASE LoaderCycle
  <2>1. CASE ~supported
    BY <1>11, <2>1 DEF LoaderCycle, LoaderAt, Noticed, StartRead, Up
  <2>2. CASE supported
    BY <1>11, <2>2 DEF LoaderCycle, LoaderAt, Noticed, StartRead, ReadsForced, PathChanging,
       FileLost, FileWatched, HasRead, AboutToRead, ReadsThisFile, Up
  <2> QED
    BY <2>1, <2>2
<1>12. CASE WaitTimeout
  BY <1>12 DEF WaitTimeout, LoaderAt, Noticed, StartRead, ReadsForced, PathChanging,
     FileLost, FileWatched, HasRead, AboutToRead, ReadsThisFile, Up
<1>13. CASE WaitError
  BY <1>13 DEF WaitError, DisableInotify, LoaderAt, Noticed, StartRead, Up
<1>14. CASE ReadEvents
  <2>1. /\ Up /\ boot' = boot /\ lpc = "wait" /\ rd["loader"].pc = "idle"
        /\ UNCHANGED <<disk, hold, watch, configFile, forceReload, supported, web>>
    BY <1>14 DEF ReadEvents, LoaderAt
  <2>2. CASE "gone" \in evq
    <3>1. lpc' = "rewatch" /\ rd'["loader"].pc = "idle" /\ rd'["loader"].last = Unset
      BY <1>1, <1>14, <2>1, <2>2 DEF ReadEvents, Forgetting, Locals
    <3> QED
      BY <2>1, <3>1 DEF Noticed, StartRead, ReadsForced, FileLost, Up
  <2>3. CASE "gone" \notin evq
    <3>1. /\ lpc' = "top" /\ rd'["loader"].pc = "file" /\ rd'["loader"].last = Unset
      <4>1. lpc' = "top" /\ rd'["loader"] = [rd["loader"] EXCEPT !.pc = "file", !.last = Unset]
        BY <1>1, <1>14, <2>3 DEF ReadEvents, Calling
      <4> QED
        BY <1>1, <4>1 DEF Locals
    <3>2. FileLost => FileLost'
      BY <2>1, <2>3 DEF FileLost
    <3>3. FileWatched => FileWatched'
      BY <2>1, <3>1 DEF FileWatched, AboutToRead, ReadsThisFile
    <3> QED
      BY <2>1, <3>1, <3>2, <3>3 DEF Noticed, StartRead, ReadsForced, PathChanging, Up
  <2> QED
    BY <2>2, <2>3
<1>15. CASE Rewatch
  <2>1. Up /\ boot' = boot /\ lpc' = "top" /\ lpc = "rewatch" /\ UNCHANGED configFile
    BY <1>15 DEF Rewatch, LoaderAt
  <2>2. CASE AddWatch /\ rd' = Calling("loader", rd["loader"].last)
    <3>1. rd'["loader"].pc = "file" /\ rd'["loader"].last = rd["loader"].last
      BY <1>1, <2>2 DEF Calling, Locals
    <3>2. supported' => FileWatched' /\ supported
      BY <2>1, <2>2, <3>1, RewatchNoticed DEF InotifyRewatch, AddWatch
    <3> QED
      BY <2>1, <3>1, <3>2 DEF Noticed, StartRead, ReadsForced, Up
  <2>3. CASE DisableInotify
    BY <2>1, <2>3 DEF DisableInotify, Noticed, StartRead, Up
  <2> QED
    BY <1>15, <2>2, <2>3 DEF Rewatch
<1>16. CASE ConfigReloadStep("loader")
  <2>1. UNCHANGED <<boot, supported, disk, configFile, lpc>>
    BY <1>16 DEF ConfigReloadStep
  <2>2. rd["loader"].pc # "idle"
    BY <1>16 DEF ConfigReloadStep, ReadPath, StatFile, ReadFile, TakePackages,
       TakeThreadRules, Publish, RaiseFlag
  <2>3. boot # "loaded"
    BY <2>2 DEF Noticed
  <2> QED
    BY <1>16, <2>1, <2>3, ReloadNoticed DEF Noticed, StartRead
<1>17. CASE ConfigReloadStep("web")
  <2>1. \E l : rd' = [rd EXCEPT !["web"] = l]
    BY <1>17 DEF ConfigReloadStep, ReadPath, StatFile, ReadFile, TakePackages,
       TakeThreadRules, Publish, RaiseFlag, Return, Goto
  <2>2. UNCHANGED rd["loader"]
    BY <1>3, <2>1
  <2> QED
    BY <1>17, <2>2 DEF ConfigReloadStep, Noticed, StartRead, ReadsForced, PathChanging, FileLost,
       FileWatched, HasRead, AboutToRead, ReadsThisFile
<1>18. CASE WebEdit
  <2>1. /\ Up /\ Unlink(configFile) /\ \A q \in Paths : q # configFile => disk'[q] = disk[q]
        /\ UNCHANGED <<boot, supported, lpc, configFile, forceReload, web>>
    BY <1>1, <1>18 DEF WebEdit, WebFree, Stamp
  <2>2. UNCHANGED rd["loader"]
    BY <1>3, <1>18 DEF WebEdit, Calling
  <2> QED
    BY <1>1, <1>2, <2>1, <2>2, UnlinkNoticed
<1>19. CASE WebTuning
  <2>1. UNCHANGED rd["loader"]
    BY <1>3, <1>19 DEF WebTuning, Calling
  <2> QED
    BY <1>4, <1>19, <2>1 DEF WebTuning, WebFree
<1>20. ASSUME NEW p \in Paths, WebSetPath(p) PROVE Noticed'
  BY <1>2, <1>20 DEF WebSetPath, WebFree, PathChanging
<1>21. CASE WebForceReload
  <2>1. Up \/ ~supported
    BY DEF Noticed, StartRead, Up, TypeOK
  <2>2. forceReload' /\ UNCHANGED <<boot, supported, lpc, rd, disk, configFile>>
    BY <1>21 DEF WebForceReload
  <2> QED
    BY <2>2 DEF Noticed, StartRead, HasRead, ReadsForced, PathChanging
<1>22. CASE Main
  BY <1>22 DEF Main, MainSwap, MainFetch, Noticed, StartRead, ReadsForced, PathChanging, FileLost,
     FileWatched, HasRead, AboutToRead, ReadsThisFile
<1>23. CASE UNCHANGED vars
  BY <1>23 DEF vars, Noticed, StartRead, ReadsForced, PathChanging, FileLost,
     FileWatched, HasRead, AboutToRead, ReadsThisFile
<1> QED
  BY <1>5, <1>6, <1>7, <1>8, <1>9, <1>10, <1>11, <1>12, <1>13, <1>14, <1>15, <1>16,
     <1>17, <1>18, <1>19, <1>20, <1>21, <1>22, <1>23 DEF Next, External, Loader, Web

(* In inotify mode a waiting loader with nothing in the queue has read     *)
(* what the file holds, for any number of paths, edits and changes of path *)
(* and whatever the web thread does meanwhile; the file must not change    *)
(* between the first load and the watch, as ConfigReload_startup.cfg shows.*)
THEOREM EveryEditNoticed ==
  ASSUME StartupEdits = FALSE
  PROVE  Spec => []NothingUnnoticed
<1>1. Init => TypeOK /\ Noticed
  BY InitType, InitNoticed
<1>2. TypeOK /\ Noticed /\ [Next]_vars => (TypeOK /\ Noticed)'
  BY NextType, NextNoticed
<1>3. TypeOK /\ Noticed => NothingUnnoticed
  <2> SUFFICES ASSUME TypeOK, Noticed, LoaderAt("wait") \/ LoaderAt("top"), supported, evq = {},
                      ~forceReload, web = "idle", hold.at = "none"
               PROVE  HasRead
    BY DEF NothingUnnoticed, HasRead
  <2>1. ~PathChanging
    BY DEF PathChanging, LoaderAt
  <2>2. ~FileLost
    BY DEF FileLost, LoaderAt
  <2>3. FileWatched
    BY <2>1, <2>2 DEF Noticed
  <2>4. hold # Linked(configFile)
    BY DEF Linked
  <2> QED
    BY <2>3, <2>4 DEF FileWatched, AboutToRead, LoaderAt
<1> QED
  BY <1>1, <1>2, <1>3, PTL DEF Spec
=============================================================================
