------------------------------ MODULE Settings ------------------------------
(***************************************************************************)
(* The application settings (web.rs, main.rs): AppOpt.json on disk and the *)
(* atomics in force.  They are loaded at start, where the command line     *)
(* takes precedence; saved by the main thread when the web server has been *)
(* started; changed and saved by config_set_api, one request at a time     *)
(* (WEB_MUTATION_LOCK) but concurrently with the main thread.  The program *)
(* may be killed, and the file edited while it does not run.               *)
(*                                                                         *)
(* The file name of the rules stands for itself and for the cpuset name,   *)
(* which is stored, saved and restored in the same way.                    *)
(***************************************************************************)
EXTENDS Integers

CONSTANTS
  Paths,        \* names of a rules file that valid_path takes
  OddPath,      \* one that it does not take, though the command line does
  DefaultPath,  \* of Settings::default()
  NotGiven,     \* an option that is not on the command line
  CliIntervals, CliPaths,  \* the values of -s and -c
  Intervals,    \* the intervals the page may send
  MaxRequests,  \* bound: requests in one life of the program
  Failures,     \* a save may fail, a bind may fail
  Corruption,   \* the file is edited by hand between two lives
  EarlyRequests \* a request may come before the main thread has saved

MaxInterval == 3600

ASSUME PathsAssumption ==
  DefaultPath \in Paths /\ OddPath \notin Paths /\ CliPaths \subseteq Paths \cup {OddPath}
ASSUME NotGivenAssumption == NotGiven \notin Paths \cup {OddPath} \cup Nat
ASSUME IntervalsAssumption ==
  CliIntervals \subseteq Nat \ {0} /\ Intervals \subseteq 1..MaxInterval
ASSUME BoundsAssumption == MaxRequests \in Nat
ASSUME SwitchesAssumption ==
  {Failures, Corruption, EarlyRequests} \subseteq BOOLEAN

VARIABLES
  file,         \* AppOpt.json: settings, or Unreadable
  force,        \* WEB_ENABLED, MODE_FORCE, CHECK_INTERVAL, CONFIG_FILE
  main, mine,   \* where the main thread is, its snapshot
  web, ask, its,\* where the web request is, what it asks, its snapshot
  served,       \* requests so far
  plain,        \* this life began without options
  dirty,        \* the last save failed, or the file was edited since
  last          \* what was in force when the last life ended at rest

vars == <<file, force, main, mine, web, ask, its, served, plain, dirty, last>>

-----------------------------------------------------------------------------
Modes == 0..2
Unreadable == [web |-> "?"]

Default == [web |-> FALSE, mode |-> 0, interval |-> 2, path |-> DefaultPath]

Clamp(n) == IF n < 1 THEN 1 ELSE IF n > MaxInterval THEN MaxInterval ELSE n

(* Mutant: the mode is taken as it stands.                                 *)
FromJsonRaw(s) ==
  IF s = Unreadable THEN Default
  ELSE [s EXCEPT !.interval = Clamp(@),
                 !.path = IF @ \in Paths THEN @ ELSE DefaultPath]

(* Mutant: the mode is not restored.                                       *)
FromJsonNoMode(s) ==
  IF s = Unreadable THEN Default
  ELSE [s EXCEPT !.mode = Default.mode,
                 !.interval = Clamp(@),
                 !.path = IF @ \in Paths THEN @ ELSE DefaultPath]

(* Settings::from_json: what is out of range is cut or replaced.           *)
FromJson(s) ==
  IF s = Unreadable THEN Default
  ELSE [s EXCEPT !.mode = IF @ > 2 THEN 2 ELSE @,
                 !.interval = Clamp(@),
                 !.path = IF @ \in Paths THEN @ ELSE DefaultPath]

TypeOK ==
  /\ force.web \in BOOLEAN /\ force.mode \in Modes
  /\ force.interval \in Nat \ {0} /\ force.path \in Paths \cup {OddPath}
  /\ main \in {"down", "web", "snapshot", "save", "up"}
  /\ web \in {"idle", "mode", "interval", "path", "snapshot", "save"}
  /\ served \in 0..MaxRequests
  /\ plain \in BOOLEAN /\ dirty \in BOOLEAN

Nothing == [mode |-> NotGiven, interval |-> NotGiven, path |-> NotGiven]

Init ==
  /\ file = Default      \* written by settings_load when there is none
  /\ force = Default
  /\ main = "down" /\ mine = Default
  /\ web = "idle" /\ ask = Nothing /\ its = Default
  /\ served = 0
  /\ plain = TRUE /\ dirty = FALSE
  /\ last = NotGiven

Or(given, else) == IF given = NotGiven THEN else ELSE given

-----------------------------------------------------------------------------
(* The main thread.                                                        *)
Start ==
  /\ main = "down"
  /\ \E i \in CliIntervals \cup {NotGiven}, p \in CliPaths \cup {NotGiven},
        w \in BOOLEAN :
       LET st == FromJson(file) IN
       /\ force' = [web |-> FALSE, mode |-> st.mode,
                    interval |-> Or(i, st.interval), path |-> Or(p, st.path)]
       /\ main' = IF w \/ st.web THEN "web" ELSE "up"
       /\ plain' = (i = NotGiven /\ p = NotGiven)
  /\ UNCHANGED <<file, mine, web, ask, its, served, dirty, last>>

WebStart ==
  /\ main = "web"
  /\ \/ force' = [force EXCEPT !.web = TRUE]
     \/ Failures /\ UNCHANGED force      \* the port is taken
  /\ main' = "snapshot"
  /\ UNCHANGED <<file, mine, web, ask, its, served, plain, dirty, last>>

(* settings_save: what is in force is read before SAVE_LOCK is taken.      *)
Snapshot ==
  /\ main = "snapshot"
  /\ mine' = force
  /\ main' = "save"
  /\ UNCHANGED <<file, force, web, ask, its, served, plain, dirty, last>>

(* Settings::save: a failure is only reported.                             *)
Write(s) ==
  \/ file' = s /\ dirty' = FALSE
  \/ Failures /\ dirty' = TRUE /\ UNCHANGED file

Save ==
  /\ main = "save"
  /\ Write(mine)
  /\ main' = "up"
  /\ UNCHANGED <<force, mine, web, ask, its, served, plain, last>>

-----------------------------------------------------------------------------
(* A connection: config_set_api stores one setting after the other.        *)
Request ==
  /\ force.web /\ web = "idle" /\ served < MaxRequests
  /\ EarlyRequests \/ main = "up"
  /\ ask' \in [mode : Modes \cup {NotGiven}, interval : Intervals \cup {NotGiven},
               path : Paths \cup {NotGiven}]
  /\ served' = served + 1
  /\ web' = "mode"
  /\ UNCHANGED <<file, force, main, mine, its, plain, dirty, last>>

Store(here, there, field) ==
  /\ web = here
  /\ force' = [force EXCEPT ![field] = Or(ask[field], @)]
  /\ web' = there
  /\ UNCHANGED <<file, main, mine, ask, its, served, plain, dirty, last>>

SetMode == Store("mode", "interval", "mode")
SetInterval == Store("interval", "path", "interval")

(* Mutant: the settings are saved before the last of them is stored.       *)
SetPathLate ==
  /\ web = "path"
  /\ force' = [force EXCEPT !.path = Or(ask.path, @)]
  /\ its' = force
  /\ web' = "save"
  /\ UNCHANGED <<file, main, mine, ask, served, plain, dirty, last>>

SetPath == Store("path", "snapshot", "path")

WebSnapshot ==
  /\ web = "snapshot"
  /\ its' = force
  /\ web' = "save"
  /\ UNCHANGED <<file, force, main, mine, ask, served, plain, dirty, last>>

WebSave ==
  /\ web = "save"
  /\ Write(its)
  /\ web' = "idle"
  /\ UNCHANGED <<force, main, mine, ask, its, served, plain, last>>

-----------------------------------------------------------------------------
AtRest == main = "up" /\ web = "idle"

Kill ==
  /\ main # "down"
  /\ last' = IF AtRest /\ force.web /\ ~dirty THEN force ELSE NotGiven
  /\ main' = "down" /\ web' = "idle"
  /\ mine' = Default /\ its' = Default /\ ask' = Nothing
  /\ served' = 0
  /\ UNCHANGED <<file, force, plain, dirty>>

(* The file is edited, or damaged, by hand between two lives.              *)
HandEdit ==
  /\ Corruption /\ main = "down"
  /\ \/ file' = Unreadable
     \/ file' \in [web : BOOLEAN, mode : {0, 7}, interval : {0, 2, 4000},
                   path : {DefaultPath, OddPath}]
  /\ dirty' = TRUE /\ last' = NotGiven
  /\ UNCHANGED <<force, main, mine, web, ask, its, served, plain>>

Next == \/ Start \/ WebStart \/ Snapshot \/ Save
        \/ Request \/ SetMode \/ SetInterval \/ SetPath \/ WebSnapshot \/ WebSave
        \/ Kill \/ HandEdit

Spec == Init /\ [][Next]_vars

-----------------------------------------------------------------------------
(* Whenever the web server runs and nothing is under way, AppOpt.json says *)
(* what is in force, unless it could not be written: a change made in the  *)
(* browser is written back (main.rs:68).                                   *)
SavedIsInForce == AtRest /\ force.web /\ ~dirty => file = force

(* A start without options puts in force what was in force, saved, when    *)
(* the last life ended, WEB_ENABLED aside (main.rs:67).                    *)
RestartKeeps ==
  main = "web" /\ plain /\ served = 0 /\ last # NotGiven =>
    force = [last EXCEPT !.web = FALSE]

(* Once the web server is enabled in the file, no step of the program      *)
(* disables it there: "-w ... stays on over restarts" (main.rs:211).       *)
WebStaysEnabled ==
  [][main # "down" /\ file # Unreadable /\ file.web => file'.web]_vars
=============================================================================
