------------------------------ MODULE WebStore ------------------------------
(***************************************************************************)
(* The web requests that change the two documents of the program: the      *)
(* rules of applist.conf (rule_edit.rs) and the tuning store (tuning.rs),  *)
(* which is kept in memory and in AppOpt.tuning.json.  Every connection    *)
(* has a thread of its own (web.rs); WEB_MUTATION_LOCK holds a request     *)
(* together.  Writes may fail, applist.conf may be edited by hand at any   *)
(* moment, and the program may be killed and started again.                *)
(*                                                                         *)
(* A document maps a package to the value it has for each kind of rule,    *)
(* the thread rules of a package counting as one value.                    *)
(***************************************************************************)
EXTENDS Integers, FiniteSets

CONSTANTS
  Clients,      \* the connections
  Pkgs,         \* the packages named in requests
  MaxValue,     \* bound: the values a rule may have
  Ops,          \* the requests that are made
  MaxRequests,  \* bound: requests made
  Failures,     \* writes may fail, the program may be killed
  MaxHandEdits, \* bound: edits of applist.conf by hand
  Shapes        \* what an edit by hand may make of the file as a whole

ASSUME SetsAssumption == Clients # {} /\ Pkgs # {}
ASSUME NoneAssumption == "none" \notin Clients
ASSUME BoundsAssumption ==
  MaxValue \in Nat \ {0} /\ MaxRequests \in Nat /\ MaxHandEdits \in Nat
ASSUME OpsAssumption ==
  Ops \subseteq {"upsert", "delete", "deleteAll", "rename", "clone", "tuning"}
ASSUME FailuresAssumption == Failures \in BOOLEAN
ASSUME ShapesAssumption == Shapes \subseteq {"fine", "open", "garbled"}

VARIABLES
  file,         \* applist.conf: its rules, its shape
  tuneDisk,     \* AppOpt.tuning.json
  tuning,       \* TUNING_CONFIG
  mutex,        \* who holds WEB_MUTATION_LOCK
  pc, req,      \* where each connection is, the request it serves
  buf, next,    \* its edited copies of the two documents
  answer,       \* what it is answered
  wrote,        \* the request has changed applist.conf
  made, edits   \* requests made, edits by hand

tuneVars == <<tuneDisk, tuning>>
vars == <<file, tuneVars, mutex, pc, req, buf, next, answer, wrote, made, edits>>

-----------------------------------------------------------------------------
None == "none"
CpuKinds == {"pkg", "thr"}          \* of applist.conf
TuneKinds == {"mem", "uclamp"}      \* of the tuning store
Values == 0..MaxValue               \* 0: no rule of that kind

(* block: the package has a block, which may be left empty; open: a block  *)
(* of yet another package is not closed; garbled: not UTF-8.               *)
Entries == [pkg : Values, thr : Values, block : BOOLEAN]
Blank == [pkg |-> 0, thr |-> 0, block |-> FALSE]
Files == [rules : [Pkgs -> Entries], shape : {"fine", "open", "garbled"}]
Tunings == [Pkgs -> [TuneKinds -> Values]]
NoTuning == [p \in Pkgs |-> [k \in TuneKinds |-> 0]]

NoFile == [rules |-> [p \in Pkgs |-> Blank], shape |-> "fine"]

Refusals == {"missing", "conflict", "malformed"}

AnyLine(e) == e.pkg # 0 \/ e.block

(* An unreadable file is an empty one: read_to_string().unwrap_or_default  *)
Lines(f) == IF f.shape = "garbled" THEN NoFile ELSE f

-----------------------------------------------------------------------------
(* Mutant: a thread rule is added without a block to stand in.             *)
UpsertBare(f, r) ==
  LET e == f.rules[r.pkg] IN
  [answer |-> IF f.shape = "open" /\ ~AnyLine(e) THEN "malformed" ELSE "ok",
   rules |-> [f.rules EXCEPT ![r.pkg][r.kind] = r.value]]

(* The edits of applist.conf: the answer, and the rules when it is "ok".   *)
Upsert(f, r) ==
  LET e == f.rules[r.pkg] IN
  [answer |-> IF f.shape = "open" /\ ~AnyLine(e) THEN "malformed" ELSE "ok",
   rules |-> [f.rules EXCEPT ![r.pkg] =
                [e EXCEPT ![r.kind] = r.value, !.block = @ \/ r.kind = "thr"]]]

(* What is left of a block stays behind, be it empty.                      *)
Delete(f, r) ==
  [answer |-> IF f.rules[r.pkg][r.kind] = 0 THEN "missing" ELSE "ok",
   rules |-> [f.rules EXCEPT ![r.pkg][r.kind] = 0]]

DeleteAll(f, r) ==
  [answer |-> IF AnyLine(f.rules[r.pkg]) THEN "ok" ELSE "missing",
   rules |-> [f.rules EXCEPT ![r.pkg] = Blank]]

Rename(f, r) ==
  [answer |-> CASE ~AnyLine(f.rules[r.pkg]) -> "missing"
                [] AnyLine(f.rules[r.to]) -> "conflict"
                [] OTHER -> "ok",
   rules |-> [f.rules EXCEPT ![r.to] = f.rules[r.pkg], ![r.pkg] = Blank]]

(* Mutant: what the target has is not looked at.                           *)
CloneRulesBlind(f, r) ==
  LET e == f.rules[r.pkg]
      Copied(k) == IF k \in r.kinds THEN e[k] ELSE 0 IN
  [answer |-> CASE f.shape = "open" -> "malformed"
                [] \E k \in r.kinds \cap CpuKinds : e[k] = 0 -> "missing"
                [] OTHER -> "ok",
   rules |-> [f.rules EXCEPT ![r.to] =
                [pkg |-> Copied("pkg"), thr |-> Copied("thr"),
                 block |-> "thr" \in r.kinds]]]

CloneRules(f, r) ==
  LET e == f.rules[r.pkg]
      Copied(k) == IF k \in r.kinds THEN e[k] ELSE 0 IN
  [answer |-> CASE f.shape = "open" -> "malformed"
                [] AnyLine(f.rules[r.to]) -> "conflict"
                [] \E k \in r.kinds \cap CpuKinds : e[k] = 0 -> "missing"
                [] OTHER -> "ok",
   rules |-> [f.rules EXCEPT ![r.to] =
                [pkg |-> Copied("pkg"), thr |-> Copied("thr"),
                 block |-> "thr" \in r.kinds]]]

Edited(f, r) ==
  CASE r.op = "upsert" -> Upsert(f, r)
    [] r.op = "delete" -> Delete(f, r)
    [] r.op = "deleteAll" -> DeleteAll(f, r)
    [] r.op = "rename" -> Rename(f, r)
    [] OTHER -> CloneRules(f, r)

(* clone_app_config: the same for the tuning store.                        *)
CloneTuning(t, r) ==
  LET kinds == r.kinds \cap TuneKinds IN
  [answer |-> CASE \E k \in kinds : t[r.pkg][k] = 0 -> "missing"
                [] \E k \in kinds : t[r.to][k] # 0 -> "conflict"
                [] OTHER -> "ok",
   tuning |-> [t EXCEPT ![r.to] = [k \in TuneKinds |->
                 IF k \in kinds THEN t[r.pkg][k] ELSE @[k]]]]

-----------------------------------------------------------------------------
(* The requests the page can send: a tuning document is what it was last   *)
(* shown, with one value changed.                                          *)
Requests ==
  [op : {"upsert"}, pkg : Pkgs, kind : CpuKinds, value : 1..MaxValue]
    \cup [op : {"delete"}, pkg : Pkgs, kind : CpuKinds]
    \cup [op : {"deleteAll"}, pkg : Pkgs]
    \cup {r \in [op : {"rename"}, pkg : Pkgs, to : Pkgs] : r.pkg # r.to}
    \cup {r \in [op : {"clone"}, pkg : Pkgs, to : Pkgs,
                 kinds : (SUBSET (CpuKinds \cup TuneKinds)) \ {{}}] : r.pkg # r.to}
    \cup {[op |-> "tuning", doc |-> [tuning EXCEPT ![p][k] = v]] :
            p \in Pkgs, k \in TuneKinds, v \in Values}

NoRequest == [op |-> None]

TypeOK ==
  /\ file \in Files
  /\ tuneDisk \in Tunings /\ tuning \in Tunings
  /\ mutex \in Clients \cup {None}
  /\ pc \in [Clients -> {"idle", "lock", "check", "checkTuning", "read",
                         "write", "tuning", "save", "install", "done"}]
  /\ \A c \in Clients : req[c].op \in Ops \cup {None}
  /\ buf \in [Clients -> Files] /\ next \in [Clients -> Tunings]
  /\ answer \in [Clients -> Refusals \cup {None, "ok", "failed"}]
  /\ wrote \in [Clients -> BOOLEAN]
  /\ made \in 0..MaxRequests /\ edits \in 0..MaxHandEdits
  /\ \A p \in Pkgs : file.rules[p].thr # 0 => file.rules[p].block

Init ==
  /\ file = NoFile
  /\ tuneDisk = NoTuning /\ tuning = NoTuning
  /\ mutex = None
  /\ pc = [c \in Clients |-> "idle"]
  /\ req = [c \in Clients |-> NoRequest]
  /\ buf = [c \in Clients |-> NoFile]
  /\ next = [c \in Clients |-> NoTuning]
  /\ answer = [c \in Clients |-> None]
  /\ wrote = [c \in Clients |-> FALSE]
  /\ made = 0 /\ edits = 0

Goto(c, where) == pc' = [pc EXCEPT ![c] = where]
Answer(c, a) == answer' = [answer EXCEPT ![c] = a] /\ Goto(c, "done")
HasCpu(r) == r.op = "clone" => r.kinds \cap CpuKinds # {}
HasTuning(r) == r.op = "clone" /\ r.kinds \cap TuneKinds # {}

-----------------------------------------------------------------------------
Issue(c) ==
  /\ pc[c] = "idle" /\ made < MaxRequests
  /\ \E r \in Requests : r.op \in Ops /\ req' = [req EXCEPT ![c] = r]
  /\ made' = made + 1
  /\ Goto(c, "lock")
  /\ UNCHANGED <<file, tuneVars, mutex, buf, next, answer, wrote, edits>>

(* Mutant: tuning_set_api goes ahead while another request is served.      *)
FreeForTuning(r) == mutex = None \/ r.op = "tuning"

(* Every handler takes WEB_MUTATION_LOCK first and holds it to the end.    *)
Free(r) == mutex = None

(* TUNING_SAVE_LOCK is held from the copy to the installation.  (WRITE_LOCK *)
(* of rule_edit.rs is only ever taken under WEB_MUTATION_LOCK.)            *)
SaveLockFree == \A c \in Clients : pc[c] \notin {"save", "install"}

Lock(c) ==
  /\ pc[c] = "lock" /\ Free(req[c])
  /\ mutex' = c
  /\ IF req[c].op = "tuning"
       THEN /\ SaveLockFree
            /\ next' = [next EXCEPT ![c] = req[c].doc]
            /\ Goto(c, "save")
       ELSE /\ Goto(c, IF req[c].op = "clone" THEN "check" ELSE "read")
            /\ UNCHANGED next
  /\ UNCHANGED <<file, tuneVars, req, buf, answer, wrote, made, edits>>

Check(c) ==
  /\ pc[c] = "check"
  /\ LET a == CloneRules(Lines(file), req[c]).answer IN
     IF HasCpu(req[c]) /\ a # "ok"
       THEN Answer(c, a)
       ELSE Goto(c, "checkTuning") /\ UNCHANGED answer
  /\ UNCHANGED <<file, tuneVars, mutex, req, buf, next, wrote, made, edits>>

CheckTuning(c) ==
  /\ pc[c] = "checkTuning"
  /\ LET a == CloneTuning(tuning, req[c]).answer IN
     IF HasTuning(req[c]) /\ a # "ok"
       THEN Answer(c, a)
       ELSE /\ Goto(c, IF HasCpu(req[c]) THEN "read" ELSE "tuning")
            /\ UNCHANGED answer
  /\ UNCHANGED <<file, tuneVars, mutex, req, buf, next, wrote, made, edits>>

Read(c) ==
  /\ pc[c] = "read"
  /\ LET f == Lines(file)
         e == Edited(f, req[c]) IN
     IF e.answer # "ok"
       THEN Answer(c, e.answer) /\ UNCHANGED buf
       ELSE /\ buf' = [buf EXCEPT ![c] = [f EXCEPT !.rules = e.rules]]
            /\ Goto(c, "write") /\ UNCHANGED answer
  /\ UNCHANGED <<file, tuneVars, mutex, req, next, wrote, made, edits>>

(* file_write: a temporary file, synced and renamed over the old one.      *)
Write(c) ==
  /\ pc[c] = "write"
  /\ \/ /\ file' = buf[c]
        /\ wrote' = [wrote EXCEPT ![c] = TRUE]
        /\ IF HasTuning(req[c]) THEN Goto(c, "tuning") /\ UNCHANGED answer
                                ELSE Answer(c, "ok")
     \/ Failures /\ Answer(c, "failed") /\ UNCHANGED <<file, wrote>>
  /\ UNCHANGED <<tuneVars, mutex, req, buf, next, made, edits>>

(* clone_app decides again, on what is in force under its own lock.        *)
Tuning(c) ==
  /\ pc[c] = "tuning" /\ SaveLockFree
  /\ LET e == CloneTuning(tuning, req[c]) IN
     IF e.answer # "ok"
       THEN Answer(c, e.answer) /\ UNCHANGED next
       ELSE /\ next' = [next EXCEPT ![c] = e.tuning]
            /\ Goto(c, "save") /\ UNCHANGED answer
  /\ UNCHANGED <<file, tuneVars, mutex, req, buf, wrote, made, edits>>

(* Mutant: a failed write is not noticed.                                  *)
SaveUnchecked(c) ==
  /\ pc[c] = "save"
  /\ Goto(c, "install")
  /\ tuneDisk' = next[c] \/ (Failures /\ UNCHANGED tuneDisk)
  /\ UNCHANGED <<file, tuning, mutex, req, buf, next, answer, wrote, made, edits>>

(* write_config: a temporary file, synced and renamed, then replace_config. *)
Save(c) ==
  /\ pc[c] = "save"
  /\ \/ tuneDisk' = next[c] /\ Goto(c, "install") /\ UNCHANGED answer
     \/ Failures /\ Answer(c, "failed") /\ UNCHANGED tuneDisk
  /\ UNCHANGED <<file, tuning, mutex, req, buf, next, wrote, made, edits>>

Install(c) ==
  /\ pc[c] = "install"
  /\ tuning' = next[c]
  /\ Answer(c, "ok")
  /\ UNCHANGED <<file, tuneDisk, mutex, req, buf, next, wrote, made, edits>>

(* The guard and the locals go out of scope.                               *)
Done(c) ==
  /\ pc[c] = "done"
  /\ mutex' = IF mutex = c THEN None ELSE mutex
  /\ Goto(c, "idle")
  /\ req' = [req EXCEPT ![c] = NoRequest]
  /\ buf' = [buf EXCEPT ![c] = NoFile]
  /\ next' = [next EXCEPT ![c] = NoTuning]
  /\ answer' = [answer EXCEPT ![c] = None]
  /\ wrote' = [wrote EXCEPT ![c] = FALSE]
  /\ UNCHANGED <<file, tuneVars, made, edits>>

Serve(c) == \/ Lock(c) \/ Check(c) \/ CheckTuning(c) \/ Read(c) \/ Write(c)
            \/ Tuning(c) \/ Save(c) \/ Install(c) \/ Done(c)

-----------------------------------------------------------------------------
(* A person edits one package of applist.conf, or breaks it as a whole.    *)
HandEdit ==
  /\ edits < MaxHandEdits
  /\ \E p \in Pkgs, e \in Entries, s \in Shapes :
       /\ e.block = (e.thr # 0)
       /\ file' = [rules |-> [file.rules EXCEPT ![p] = e], shape |-> s]
       /\ file' # file
  /\ edits' = edits + 1
  /\ UNCHANGED <<tuneVars, mutex, pc, req, buf, next, answer, wrote, made>>

(* Killed and started again: load_file reads the tuning store back.        *)
Restart ==
  /\ Failures
  /\ \E c \in Clients : pc[c] # "idle"
  /\ tuning' = tuneDisk
  /\ mutex' = None
  /\ pc' = [c \in Clients |-> "idle"]
  /\ req' = [c \in Clients |-> NoRequest]
  /\ buf' = [c \in Clients |-> NoFile]
  /\ next' = [c \in Clients |-> NoTuning]
  /\ answer' = [c \in Clients |-> None]
  /\ wrote' = [c \in Clients |-> FALSE]
  /\ UNCHANGED <<file, tuneDisk, made, edits>>

Next == (\E c \in Clients : Issue(c) \/ Serve(c)) \/ HandEdit \/ Restart

Spec == Init /\ [][Next]_vars

-----------------------------------------------------------------------------
(* The settled kinds of a clone's target: they are the source's.           *)
Cloned(r) ==
  /\ \A k \in r.kinds \cap CpuKinds :
       file.rules[r.to][k] = file.rules[r.pkg][k] /\ file.rules[r.to][k] # 0
  /\ \A k \in r.kinds \cap TuneKinds :
       tuning[r.to][k] = tuning[r.pkg][k] /\ tuning[r.to][k] # 0

(* A request that is refused has changed nothing: a clone is validated     *)
(* against both documents before it writes the first (web.rs:486-488), and *)
(* nothing it was validated against can change in between.                 *)
AllOrNothing ==
  \A c \in Clients :
    pc[c] = "done" /\ answer[c] \in Refusals => ~wrote[c]

(* A clone that was answered with success has made the target what the     *)
(* source is, in both documents at the same moment, although it reads and  *)
(* writes them one after the other (nobody edits applist.conf by hand).    *)
CloneFaithful ==
  \A c \in Clients :
    edits = 0 /\ pc[c] = "done" /\ answer[c] = "ok" /\ req[c].op = "clone"
      => Cloned(req[c])

Keeps(kinds, was, is) ==
  \A p \in Pkgs, k \in kinds : was[p][k] # 0 => is[p][k] = was[p][k]

(* A clone never overwrites: whatever rule there was before each of its    *)
(* two commits is still there after it (README.md:95-96).                  *)
CloneOnlyAdds ==
  [][\A c \in Clients :
       edits = 0 /\ req[c].op = "clone" /\ pc[c] \in {"write", "install"}
         /\ pc'[c] \notin {"idle", pc[c]}
       => /\ Keeps(CpuKinds, file.rules, file'.rules)
          /\ Keeps(TuneKinds, tuning, tuning')]_vars

(* What is in force is what the next start will load, except between the   *)
(* two halves of a save: a failed write puts nothing in force, a success   *)
(* survives a kill at any later moment.                                    *)
TuningDurable ==
  (\A c \in Clients : pc[c] # "install") => tuneDisk = tuning

(* The copy of applist.conf a request is about to write holds the rules    *)
(* of all the packages the request does not name.  It is not so when the   *)
(* file could not be read as UTF-8, which web.rs:525 means to report.      *)
Named(r) == {r.pkg} \cup IF r.op \in {"rename", "clone"} THEN {r.to} ELSE {}
EditKeepsOthers ==
  [][\A c \in Clients :
       pc[c] = "read" /\ pc'[c] = "write" =>
         \A p \in Pkgs \ Named(req[c]) :
           buf'[c].rules[p] = file.rules[p]]_vars

(* A clone refused because the target has rules (web.rs:521, README.md:95) *)
(* was refused for a rule that exists.                                     *)
ConflictMeansRules ==
  \A c \in Clients :
    pc[c] = "done" /\ answer[c] = "conflict" /\ req[c].op = "clone" =>
      \/ \E k \in CpuKinds : file.rules[req[c].to][k] # 0
      \/ \E k \in TuneKinds : tuning[req[c].to][k] # 0
=============================================================================
