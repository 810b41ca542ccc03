--------------------------- MODULE SettingsProofs ---------------------------
(* Proofs about Settings, for every set of paths, intervals and options.   *)
EXTENDS Settings, TLAPS

(* When no request is served before the main thread has saved, each        *)
(* snapshot is still what is in force when it is written: nobody stores a  *)
(* setting between settings_save's reads and its write.                    *)
SnapshotsHold ==
  /\ web # "idle" => main = "up"
  /\ main = "save" => mine = force
  /\ web = "save" => its = force
  /\ SavedIsInForce

LEMMA SnapshotsStart == Init => SnapshotsHold
  BY DEF Init, SnapshotsHold, SavedIsInForce, AtRest

LEMMA SnapshotsStep ==
  ASSUME EarlyRequests = FALSE, SnapshotsHold, [Next]_vars
  PROVE  SnapshotsHold'
<1> USE DEF SnapshotsHold, SavedIsInForce, AtRest
<1>1. CASE Start
  BY <1>1 DEF Start
<1>2. CASE WebStart
  BY <1>2 DEF WebStart
<1>3. CASE Snapshot
  BY <1>3 DEF Snapshot
<1>4. CASE Save
  BY <1>4 DEF Save, Write
<1>5. CASE Request
  BY <1>5 DEF Request
<1>6. CASE SetMode \/ SetInterval \/ SetPath
  BY <1>6 DEF SetMode, SetInterval, SetPath, Store
<1>7. CASE WebSnapshot
  BY <1>7 DEF WebSnapshot
<1>8. CASE WebSave
  BY <1>8 DEF WebSave, Write
<1>9. CASE Kill
  BY <1>9 DEF Kill
<1>10. CASE HandEdit
  BY <1>10 DEF HandEdit
<1>11. CASE UNCHANGED vars
  BY <1>11 DEF vars
<1> QED
  BY <1>1, <1>2, <1>3, <1>4, <1>5, <1>6, <1>7, <1>8, <1>9, <1>10, <1>11 DEF Next

(* At rest, AppOpt.json says what is in force (SavedIsInForce of Settings),*)
(* provided the start-up save of main.rs:212 is over before the first      *)
(* request is served: the run settings_race shows that this is needed.     *)
THEOREM SavedAtRest ==
  ASSUME EarlyRequests = FALSE
  PROVE  Spec => []SavedIsInForce
<1>1. Init => SnapshotsHold
  BY SnapshotsStart
<1>2. SnapshotsHold /\ [Next]_vars => SnapshotsHold'
  BY SnapshotsStep
<1>3. SnapshotsHold => SavedIsInForce
  BY DEF SnapshotsHold
<1> QED
  BY <1>1, <1>2, <1>3, PTL DEF Spec
-----------------------------------------------------------------------------
(* What the settings may be: in force, and as they were written.           *)
InForce == [web : BOOLEAN, mode : Modes, interval : Nat \ {0}, path : Paths \cup {OddPath}]
Written == [web : BOOLEAN, mode : Nat, interval : Nat, path : Paths \cup {OddPath}]
Asked == [mode : Modes \cup {NotGiven}, interval : Intervals \cup {NotGiven},
          path : Paths \cup {NotGiven}]

TypesHold ==
  /\ file \in Written \cup {Unreadable}
  /\ force \in InForce /\ mine \in InForce /\ its \in InForce
  /\ ask \in Asked
  /\ TypeOK

LEMMA MaxIntervalNatural == MaxInterval \in Nat /\ MaxInterval > 2
  BY DEF MaxInterval

LEMMA DefaultInForce == Default \in InForce
  BY PathsAssumption DEF Default, InForce, Modes

LEMMA InForceWritten ==
  ASSUME NEW s \in InForce
  PROVE  s \in Written
  BY DEF InForce, Written, Modes

LEMMA FromJsonInRange ==
  ASSUME NEW s \in Written \cup {Unreadable}
  PROVE  /\ FromJson(s) \in InForce
         /\ FromJson(s).interval <= MaxInterval /\ FromJson(s).path \in Paths
<1>1. CASE s = Unreadable
  BY <1>1, DefaultInForce, PathsAssumption, MaxIntervalNatural DEF FromJson, Default
<1>2. CASE s # Unreadable
  <2>1. s \in Written
    BY <1>2
  <2>2. \A n \in Nat : Clamp(n) \in 1..MaxInterval
    BY MaxIntervalNatural DEF Clamp
  <2>3. Clamp(s.interval) \in Nat \ {0} /\ Clamp(s.interval) <= MaxInterval
    BY <2>1, <2>2, MaxIntervalNatural DEF Written
  <2>4. (IF s.mode > 2 THEN 2 ELSE s.mode) \in Modes
    BY <2>1 DEF Written, Modes
  <2>5. (IF s.path \in Paths THEN s.path ELSE DefaultPath) \in Paths
    BY PathsAssumption
  <2>6. FromJson(s) = [web |-> s.web, mode |-> IF s.mode > 2 THEN 2 ELSE s.mode,
                       interval |-> Clamp(s.interval),
                       path |-> IF s.path \in Paths THEN s.path ELSE DefaultPath]
    BY <1>2, <2>1 DEF FromJson, Written
  <2> QED
    BY <2>1, <2>3, <2>4, <2>5, <2>6 DEF InForce, Written
<1> QED
  BY <1>1, <1>2

LEMMA TypesStart == Init => TypesHold
<1> SUFFICES ASSUME Init PROVE TypesHold
  OBVIOUS
<1>1. file \in Written /\ {force, mine, its} \subseteq InForce
  BY DefaultInForce, InForceWritten DEF Init
<1>2. ask \in Asked
  BY DEF Init, Nothing, Asked
<1>3. TypeOK
  <2>1. served \in 0..MaxRequests
    BY BoundsAssumption DEF Init
  <2> QED
    BY <1>1, <2>1 DEF Init, TypeOK, InForce
<1> QED
  BY <1>1, <1>2, <1>3 DEF TypesHold

(* Each of the three stores of config_set_api keeps its range.             *)
LEMMA StoresInRange ==
  ASSUME TypesHold
  PROVE  /\ Or(ask.mode, force.mode) \in Modes
         /\ Or(ask.interval, force.interval) \in Nat \ {0}
         /\ Or(ask.path, force.path) \in Paths \cup {OddPath}
<1>1. ask \in Asked /\ force \in InForce
  BY DEF TypesHold
<1>2. Intervals \subseteq Nat \ {0}
  <2>1. 1..MaxInterval \subseteq Nat \ {0}
    BY MaxIntervalNatural
  <2> QED
    BY <2>1, IntervalsAssumption
<1> QED
  BY <1>1, <1>2 DEF Asked, InForce, Or

LEMMA TypesStep ==
  ASSUME TypesHold, [Next]_vars
  PROVE  TypesHold'
<1> USE DEF TypesHold, TypeOK
<1>1. CASE Start
  <2>1. PICK i \in CliIntervals \cup {NotGiven}, p \in CliPaths \cup {NotGiven} :
          force' = [web |-> FALSE, mode |-> FromJson(file).mode,
                    interval |-> Or(i, FromJson(file).interval),
                    path |-> Or(p, FromJson(file).path)]
    BY <1>1 DEF Start
  <2>2. Or(i, FromJson(file).interval) \in Nat \ {0}
    BY FromJsonInRange, IntervalsAssumption DEF Or, InForce
  <2>3. Or(p, FromJson(file).path) \in Paths \cup {OddPath}
    BY FromJsonInRange, PathsAssumption DEF Or, InForce
  <2>4. force' \in InForce
    BY <2>1, <2>2, <2>3, FromJsonInRange DEF InForce
  <2> QED
    BY <1>1, <2>4 DEF Start, InForce
<1>2. CASE WebStart
  <2>1. force' \in {force, [force EXCEPT !.web = TRUE]} /\ main' = "snapshot"
    BY <1>2 DEF WebStart
  <2>2. force' \in InForce
    BY <2>1 DEF InForce
  <2>3. UNCHANGED <<file, mine, web, ask, its, served, plain, dirty, last>>
    BY <1>2 DEF WebStart
  <2>4. /\ force'.web \in BOOLEAN /\ force'.mode \in Modes
        /\ force'.interval \in Nat \ {0} /\ force'.path \in Paths \cup {OddPath}
    BY <2>2 DEF InForce
  <2> QED
    BY <2>1, <2>2, <2>3, <2>4, Zenon
<1>3. CASE Snapshot
  BY <1>3 DEF Snapshot
<1>4. CASE Save
  BY <1>4, InForceWritten DEF Save, Write
<1>5. CASE Request
  <2>1. ask' \in Asked
    BY <1>5 DEF Request, Asked
  <2>2. served' \in 0..MaxRequests
    BY <1>5, BoundsAssumption DEF Request
  <2> QED
    BY <1>5, <2>1, <2>2 DEF Request
<1>6. CASE SetMode
  <2>1. force' \in InForce
    BY <1>6, StoresInRange DEF SetMode, Store, InForce
  <2> QED
    BY <1>6, <2>1 DEF SetMode, Store, InForce
<1>7. CASE SetInterval
  <2>1. force' \in InForce
    BY <1>7, StoresInRange DEF SetInterval, Store, InForce
  <2> QED
    BY <1>7, <2>1 DEF SetInterval, Store, InForce
<1>8. CASE SetPath
  <2>1. force' \in InForce
    BY <1>8, StoresInRange DEF SetPath, Store, InForce
  <2> QED
    BY <1>8, <2>1 DEF SetPath, Store, InForce
<1>9. CASE WebSnapshot
  BY <1>9 DEF WebSnapshot
<1>10. CASE WebSave
  BY <1>10, InForceWritten DEF WebSave, Write
<1>11. CASE Kill
  <2>1. ask' \in Asked
    BY <1>11 DEF Kill, Nothing, Asked
  <2> QED
    BY <1>11, <2>1, DefaultInForce, BoundsAssumption DEF Kill
<1>12. CASE HandEdit
  BY <1>12, PathsAssumption DEF HandEdit, Written
<1>13. CASE UNCHANGED vars
  BY <1>13 DEF vars
<1> QED
  BY <1>1, <1>2, <1>3, <1>4, <1>5, <1>6, <1>7, <1>8, <1>9, <1>10, <1>11, <1>12,
     <1>13 DEF Next

(* TypeOK of Settings: whatever AppOpt.json holds, a start puts in force a *)
(* mode of 0..2 and a positive interval (web.rs:792).                      *)
THEOREM SettingsTypes == Spec => []TypeOK
<1>1. TypesHold => TypeOK
  BY DEF TypesHold
<1> QED
  BY <1>1, TypesStart, TypesStep, PTL DEF Spec

-----------------------------------------------------------------------------
(* What the file keeps for the next start: what was in force at rest, in   *)
(* the range that from_json leaves alone.                                  *)
InRange(s) == s.interval \in 1..MaxInterval /\ s.path \in Paths

KeptForRestart ==
  /\ InRange(force)
  /\ main \in {"down", "web"} => web = "idle"
  /\ main = "down" /\ last # NotGiven => file = last /\ last \in InForce /\ InRange(last)
  /\ RestartKeeps

LEMMA RestartStart == Init => KeptForRestart
  BY PathsAssumption, MaxIntervalNatural
  DEF Init, KeptForRestart, InRange, RestartKeeps, Default

LEMMA FromJsonKeeps ==
  ASSUME NEW s \in InForce, InRange(s)
  PROVE  FromJson(s) = s
<1>1. s # Unreadable
  <2>1. "mode" \in DOMAIN s
    BY DEF InForce
  <2>2. "mode" \notin DOMAIN Unreadable
    BY DEF Unreadable
  <2> QED
    BY <2>1, <2>2
<1>2. Clamp(s.interval) = s.interval
  BY MaxIntervalNatural DEF InRange, Clamp
<1>3. (IF s.mode > 2 THEN 2 ELSE s.mode) = s.mode
  BY DEF InForce, Modes
<1>4. (IF s.path \in Paths THEN s.path ELSE DefaultPath) = s.path
  BY DEF InRange
<1>5. FromJson(s) = [s EXCEPT !.mode = s.mode, !.interval = s.interval, !.path = s.path]
  BY <1>1, <1>2, <1>3, <1>4 DEF FromJson
<1> QED
  BY <1>5 DEF InForce

LEMMA WebAside ==
  ASSUME NEW s \in InForce
  PROVE  [s EXCEPT !.web = FALSE] =
           [web |-> FALSE, mode |-> s.mode, interval |-> s.interval, path |-> s.path]
<1>1. \A b : [s EXCEPT !.web = b] =
        [web |-> b, mode |-> s.mode, interval |-> s.interval, path |-> s.path]
  BY DEF InForce
<1> QED
  BY <1>1

LEMMA RestartStep ==
  ASSUME EarlyRequests = FALSE,
         CliIntervals \subseteq 1..MaxInterval, CliPaths \subseteq Paths,
         TypesHold, SnapshotsHold, KeptForRestart, [Next]_vars
  PROVE  KeptForRestart'
<1> USE DEF KeptForRestart, RestartKeeps, InRange
<1>1. CASE Start
  <2>1. PICK i \in CliIntervals \cup {NotGiven}, p \in CliPaths \cup {NotGiven} :
          /\ force' = [web |-> FALSE, mode |-> FromJson(file).mode,
                       interval |-> Or(i, FromJson(file).interval),
                       path |-> Or(p, FromJson(file).path)]
          /\ plain' = (i = NotGiven /\ p = NotGiven)
    BY <1>1 DEF Start
  <2>2. InRange(force)'
    BY <2>1, FromJsonInRange, MaxIntervalNatural DEF Or, InForce, TypesHold
  <2>3. ASSUME plain', last # NotGiven
        PROVE  force' = [last EXCEPT !.web = FALSE]
    <3>1. FromJson(file) = last /\ last \in InForce
      BY <1>1, <2>3, FromJsonKeeps DEF Start
    <3>2. i = NotGiven /\ p = NotGiven
      BY <2>1, <2>3
    <3>3. force' = [web |-> FALSE, mode |-> last.mode, interval |-> last.interval,
                    path |-> last.path]
      BY <2>1, <3>1, <3>2 DEF Or
    <3> QED
      BY <3>1, <3>3, WebAside
  <2> QED
    BY <1>1, <2>2, <2>3 DEF Start
<1>2. CASE WebStart
  BY <1>2 DEF WebStart, TypesHold, InForce
<1>3. CASE Snapshot
  BY <1>3 DEF Snapshot
<1>4. CASE Save
  BY <1>4 DEF Save
<1>5. CASE Request
  <2>1. main = "up"
    BY <1>5 DEF Request
  <2> QED
    BY <1>5, <2>1 DEF Request
<1>6. CASE SetMode \/ SetInterval \/ SetPath
  <2>1. InRange(force)'
    BY <1>6, IntervalsAssumption
    DEF SetMode, SetInterval, SetPath, Store, Or, TypesHold, InForce, Asked
  <2> QED
    BY <1>6, <2>1 DEF SetMode, SetInterval, SetPath, Store
<1>7. CASE WebSnapshot
  BY <1>7 DEF WebSnapshot
<1>8. CASE WebSave
  BY <1>8 DEF WebSave
<1>9. CASE Kill
  BY <1>9 DEF Kill, SnapshotsHold, SavedIsInForce, TypesHold
<1>10. CASE HandEdit
  BY <1>10 DEF HandEdit
<1>11. CASE UNCHANGED vars
  BY <1>11 DEF vars
<1> QED
  BY <1>1, <1>2, <1>3, <1>4, <1>5, <1>6, <1>7, <1>8, <1>9, <1>10, <1>11 DEF Next

(* A start without options restores what was saved and in force when the   *)
(* last life ended (RestartKeeps of Settings), provided the options given  *)
(* are in the range from_json keeps and the start-up save is over before   *)
(* the first request; Settings_interval.cfg shows that the first is needed.*)
THEOREM RestartRestores ==
  ASSUME EarlyRequests = FALSE,
         CliIntervals \subseteq 1..MaxInterval, CliPaths \subseteq Paths
  PROVE  Spec => []RestartKeeps
<1> DEFINE I == TypesHold /\ SnapshotsHold /\ KeptForRestart
<1>1. Init => I
  BY TypesStart, SnapshotsStart, RestartStart
<1>2. I /\ [Next]_vars => I'
  BY TypesStep, SnapshotsStep, RestartStep
<1>3. I => RestartKeeps
  BY DEF KeptForRestart
<1> QED
  BY <1>1, <1>2, <1>3, PTL DEF Spec
=============================================================================
