--------------------------- MODULE WebStoreProofs ---------------------------
(* Proofs about WebStore, for any number of connections and packages, any  *)
(* number of requests and of edits by hand.                                *)
EXTENDS WebStore, TLAPS

Shape ==
  /\ DOMAIN pc = Clients /\ DOMAIN req = Clients
  /\ DOMAIN next = Clients
  /\ DOMAIN answer = Clients /\ DOMAIN wrote = Clients

(* A handler past its first line holds WEB_MUTATION_LOCK.                  *)
Exclusive == \A c \in Clients : pc[c] \notin {"idle", "lock"} => mutex = c

(* What a clone has been validated for stays so: the tuning store cannot   *)
(* have changed since clone_app_check.                                     *)
Validated ==
  \A c \in Clients :
    /\ pc[c] \notin {"idle", "done"} /\ req[c].op = "clone"
         => HasCpu(req[c]) \/ HasTuning(req[c])
    /\ pc[c] \in {"check", "checkTuning"} => req[c].op = "clone"
    /\ pc[c] = "tuning" => HasTuning(req[c])
    /\ pc[c] \in {"read", "write", "tuning"} /\ HasTuning(req[c])
         => CloneTuning(tuning, req[c]).answer = "ok"

Unwritten ==
  \A c \in Clients :
    pc[c] \notin {"tuning", "save", "install", "done"} => ~wrote[c]

Saving == \A c \in Clients : pc[c] = "install" => tuneDisk = next[c]

StoreInv ==
  /\ Shape /\ Exclusive /\ Validated /\ Unwritten /\ Saving
  /\ AllOrNothing /\ TuningDurable

-----------------------------------------------------------------------------
LEMMA RequestSomething ==
  ASSUME NEW r \in Requests, r.op = "clone"
  PROVE  HasCpu(r) \/ HasTuning(r)
  BY DEF Requests, HasCpu, HasTuning, CpuKinds, TuneKinds

LEMMA StoreStart == Init => StoreInv
<1> SUFFICES ASSUME Init PROVE StoreInv
  OBVIOUS
<1>1. \A c \in Clients : pc[c] = "idle" /\ ~wrote[c]
  BY DEF Init
<1>2. Shape
  BY DEF Init, Shape
<1>3. Exclusive /\ Validated /\ Unwritten /\ Saving
  BY <1>1 DEF Exclusive, Validated, Unwritten, Saving
<1>4. AllOrNothing /\ TuningDurable
  BY <1>1 DEF Init, AllOrNothing, TuningDurable
<1> QED
  BY <1>2, <1>3, <1>4 DEF StoreInv

LEMMA StoreStep ==
  ASSUME StoreInv, [Next]_vars
  PROVE  StoreInv'
<1> USE NoneAssumption DEF None
<1> USE DEF StoreInv, Shape, Exclusive, Validated, Unwritten, Saving,
            AllOrNothing, TuningDurable, Goto, tuneVars
<1>1. ASSUME NEW c \in Clients, Issue(c)
      PROVE  StoreInv'
  <2>1. PICK r \in Requests : req' = [req EXCEPT ![c] = r]
    BY <1>1 DEF Issue
  <2>2. r.op = "clone" => HasCpu(r) \/ HasTuning(r)
    BY RequestSomething
  <2> QED
    BY <1>1, <2>1, <2>2 DEF Issue
<1>2. ASSUME NEW c \in Clients, Lock(c)
      PROVE  StoreInv'
  BY <1>2 DEF Lock, Free, HasTuning
<1>3. ASSUME NEW c \in Clients, Check(c)
      PROVE  StoreInv'
  BY <1>3 DEF Check, Answer
<1>4. ASSUME NEW c \in Clients, CheckTuning(c)
      PROVE  StoreInv'
  BY <1>4 DEF CheckTuning, Answer
<1>5. ASSUME NEW c \in Clients, Read(c)
      PROVE  StoreInv'
  BY <1>5 DEF Read, Answer
<1>6. ASSUME NEW c \in Clients, Write(c)
      PROVE  StoreInv'
  BY <1>6 DEF Write, Answer, Refusals
<1>7. ASSUME NEW c \in Clients, Tuning(c)
      PROVE  StoreInv'
  BY <1>7 DEF Tuning, Answer
<1>8. ASSUME NEW c \in Clients, Save(c)
      PROVE  StoreInv'
  BY <1>8 DEF Save, Answer, Refusals
<1>9. ASSUME NEW c \in Clients, Install(c)
      PROVE  StoreInv'
  BY <1>9 DEF Install, Answer, Refusals
<1>10. ASSUME NEW c \in Clients, Done(c)
       PROVE  StoreInv'
  BY <1>10 DEF Done
<1>11. CASE HandEdit
  BY <1>11 DEF HandEdit
<1>12. CASE Restart
  BY <1>12 DEF Restart
<1>13. CASE UNCHANGED vars
  BY <1>13 DEF vars
<1> QED
  BY <1>1, <1>2, <1>3, <1>4, <1>5, <1>6, <1>7, <1>8, <1>9, <1>10, <1>11,
     <1>12, <1>13 DEF Next, Serve

-----------------------------------------------------------------------------
(* A refused request has written nothing (AllOrNothing of WebStore),       *)
(* however many connections there are and whatever is done to applist.conf *)
(* by hand: clone_app cannot refuse what clone_app_check has let pass.     *)
THEOREM RefusedUntouched == Spec => []AllOrNothing
<1>1. StoreInv => AllOrNothing
  BY DEF StoreInv
<1> QED
  BY <1>1, StoreStart, StoreStep, PTL DEF Spec

(* The tuning rules in force are those the next start loads, except in the *)
(* middle of a save (TuningDurable of WebStore).                           *)
THEOREM InForceIsSaved == Spec => []TuningDurable
<1>1. StoreInv => TuningDurable
  BY DEF StoreInv
<1> QED
  BY <1>1, StoreStart, StoreStep, PTL DEF Spec
-----------------------------------------------------------------------------
(* What a connection may ask, at whatever moment it read the tuning rules. *)
Asked ==
  [op : {"upsert"}, pkg : Pkgs, kind : CpuKinds, value : 1..MaxValue]
    \cup [op : {"delete"}, pkg : Pkgs, kind : CpuKinds]
    \cup [op : {"deleteAll"}, pkg : Pkgs]
    \cup {r \in [op : {"rename"}, pkg : Pkgs, to : Pkgs] : r.pkg # r.to}
    \cup {r \in [op : {"clone"}, pkg : Pkgs, to : Pkgs,
                 kinds : (SUBSET (CpuKinds \cup TuneKinds)) \ {{}}] : r.pkg # r.to}
    \cup [op : {"tuning"}, doc : Tunings]

(* The rules of a file, each thread rule in a block.                       *)
Blocked == {e \in Entries : e.thr # 0 => e.block}
RuleSets == [Pkgs -> Blocked]

Edits(r) == r.op \in {"upsert", "delete", "deleteAll", "rename", "clone"}

TypesHold ==
  /\ TypeOK
  /\ \A c \in Clients :
       /\ pc[c] # "idle" => req[c] \in Asked
       /\ pc[c] = "idle" => req[c] = NoRequest
       /\ pc[c] \in {"check", "checkTuning", "read", "write", "tuning"} => Edits(req[c])
       /\ pc[c] \in {"check", "checkTuning", "tuning"} => req[c].op = "clone"
  /\ DOMAIN req = Clients
  /\ file.rules \in RuleSets
  /\ \A c \in Clients : buf[c].rules \in RuleSets

LEMMA ZeroIsValue == 0 \in Values /\ 1..MaxValue \subseteq Values
  BY BoundsAssumption DEF Values

LEMMA BlankBlocked == Blank \in Blocked /\ NoFile \in Files /\ NoFile.rules \in RuleSets
  BY ZeroIsValue DEF Blank, Blocked, Entries, NoFile, Files, RuleSets

LEMMA NoTuningTyped == NoTuning \in Tunings
  BY ZeroIsValue DEF NoTuning, Tunings

LEMMA RequestsAsked ==
  ASSUME tuning \in Tunings
  PROVE  Requests \subseteq Asked
<1>1. \A p \in Pkgs, k \in TuneKinds, v \in Values : [tuning EXCEPT ![p][k] = v] \in Tunings
  BY DEF Tunings
<1> QED
  BY <1>1 DEF Requests, Asked

(* Each edit leaves rules of the same shape behind.                        *)
LEMMA EditedTyped ==
  ASSUME NEW f \in Files, f.rules \in RuleSets, NEW r \in Asked, Edits(r)
  PROVE  /\ Edited(f, r).rules \in RuleSets
         /\ Edited(f, r).answer \in Refusals \cup {"ok"}
<1> USE DEF Edits
<1>1. CASE r.op = "upsert"
  <2>1. r.pkg \in Pkgs /\ r.kind \in CpuKinds /\ r.value \in Values
    BY <1>1, ZeroIsValue DEF Asked
  <2> DEFINE e == f.rules[r.pkg]
             n == [e EXCEPT ![r.kind] = r.value, !.block = @ \/ r.kind = "thr"]
  <2>2. e \in Blocked
    BY <2>1 DEF RuleSets
  <2>3. n \in Blocked
    <3>1. CASE r.kind = "pkg"
      BY <2>1, <2>2, <3>1 DEF Blocked, Entries
    <3>2. CASE r.kind = "thr"
      BY <2>1, <2>2, <3>2 DEF Blocked, Entries
    <3> QED
      BY <2>1, <3>1, <3>2 DEF CpuKinds
  <2> QED
    BY <1>1, <2>1, <2>3 DEF Edited, Upsert, RuleSets, Refusals
<1>2. CASE r.op = "delete"
  <2>1. r.pkg \in Pkgs /\ r.kind \in CpuKinds
    BY <1>2 DEF Asked
  <2> DEFINE e == f.rules[r.pkg]
             n == [e EXCEPT ![r.kind] = 0]
  <2>2. e \in Blocked
    BY <2>1 DEF RuleSets
  <2>3. n \in Blocked
    <3>1. CASE r.kind = "pkg"
      BY <2>2, <3>1, ZeroIsValue DEF Blocked, Entries
    <3>2. CASE r.kind = "thr"
      BY <2>2, <3>2, ZeroIsValue DEF Blocked, Entries
    <3> QED
      BY <2>1, <3>1, <3>2 DEF CpuKinds
  <2> QED
    BY <1>2, <2>1, <2>3 DEF Edited, Delete, RuleSets, Refusals
<1>3. CASE r.op = "deleteAll"
  BY <1>3, BlankBlocked DEF Asked, Edited, DeleteAll, RuleSets, Refusals
<1>4. CASE r.op = "rename"
  BY <1>4, BlankBlocked DEF Asked, Edited, Rename, RuleSets, Refusals
<1>5. CASE r.op = "clone"
  <2>1. r.pkg \in Pkgs /\ r.to \in Pkgs
    BY <1>5 DEF Asked
  <2> DEFINE e == f.rules[r.pkg]
             n == [pkg |-> IF "pkg" \in r.kinds THEN e.pkg ELSE 0,
                   thr |-> IF "thr" \in r.kinds THEN e.thr ELSE 0,
                   block |-> "thr" \in r.kinds]
  <2>2. e \in Blocked
    BY <2>1 DEF RuleSets
  <2>3. n \in Blocked
    BY <2>2, ZeroIsValue DEF Blocked, Entries
  <2>4. CloneRules(f, r).rules = [f.rules EXCEPT ![r.to] = n]
    BY DEF CloneRules
  <2>5. CloneRules(f, r).answer \in Refusals \cup {"ok"}
    BY DEF CloneRules, Refusals
  <2> QED
    BY <1>5, <2>1, <2>3, <2>4, <2>5 DEF Edited, RuleSets
<1> QED
  BY <1>1, <1>2, <1>3, <1>4, <1>5

LEMMA CloneTuningTyped ==
  ASSUME NEW t \in Tunings, NEW r \in Asked, r.op = "clone"
  PROVE  /\ CloneTuning(t, r).tuning \in Tunings
         /\ CloneTuning(t, r).answer \in Refusals \cup {"ok"}
<1>1. r.pkg \in Pkgs /\ r.to \in Pkgs
  BY DEF Asked
<1> QED
  BY <1>1 DEF CloneTuning, Tunings, Refusals

LEMMA TypesStart == Init => TypesHold
<1> SUFFICES ASSUME Init PROVE TypesHold
  OBVIOUS
<1>1. file = NoFile /\ \A c \in Clients : buf[c] = NoFile /\ pc[c] = "idle" /\ req[c] = NoRequest
  BY DEF Init
<1>2. made \in 0..MaxRequests /\ edits \in 0..MaxHandEdits
  BY BoundsAssumption DEF Init
<1>3. buf \in [Clients -> Files] /\ next \in [Clients -> Tunings]
  BY BlankBlocked, NoTuningTyped DEF Init
<1>4. \A p \in Pkgs : file.rules[p].thr # 0 => file.rules[p].block
  BY <1>1 DEF NoFile, Blank
<1>5. TypeOK
  BY <1>1, <1>2, <1>3, <1>4, BlankBlocked, NoTuningTyped
  DEF Init, TypeOK, NoRequest, None
<1> QED
  BY <1>1, <1>5, BlankBlocked DEF TypesHold, Init

LEMMA LinesTyped ==
  ASSUME TypesHold
  PROVE  Lines(file) \in Files /\ Lines(file).rules \in RuleSets
  BY BlankBlocked DEF TypesHold, TypeOK, Lines

LEMMA TypesStep ==
  ASSUME TypesHold, [Next]_vars
  PROVE  TypesHold'
<1> USE DEF TypesHold, TypeOK, Goto, tuneVars
<1>1. ASSUME NEW c \in Clients, Issue(c)
      PROVE  TypesHold'
  <2>1. PICK r \in Requests : r.op \in Ops /\ req' = [req EXCEPT ![c] = r]
    BY <1>1 DEF Issue
  <2>2. r \in Asked
    BY <2>1, RequestsAsked
  <2>3. made' \in 0..MaxRequests
    BY <1>1, BoundsAssumption DEF Issue
  <2> QED
    BY <1>1, <2>1, <2>2, <2>3 DEF Issue
<1>2. ASSUME NEW c \in Clients, Lock(c)
      PROVE  TypesHold'
  <2>1. req[c].op = "tuning" => req[c].doc \in Tunings
    BY <1>2 DEF Lock, Asked
  <2>2. req[c].op # "tuning" => Edits(req[c])
    BY <1>2 DEF Lock, Asked, Edits
  <2>3. CASE req[c].op = "tuning"
    BY <1>2, <2>1, <2>3 DEF Lock
  <2>4. CASE req[c].op = "clone"
    BY <1>2, <2>2, <2>4 DEF Lock
  <2>5. CASE req[c].op \notin {"tuning", "clone"}
    BY <1>2, <2>2, <2>5 DEF Lock
  <2> QED
    BY <2>3, <2>4, <2>5
<1>3. ASSUME NEW c \in Clients, Check(c)
      PROVE  TypesHold'
  <2>1. CloneRules(Lines(file), req[c]).answer \in Refusals \cup {"ok"}
    BY DEF CloneRules, Refusals
  <2> QED
    BY <1>3, <2>1 DEF Check, Answer
<1>4. ASSUME NEW c \in Clients, CheckTuning(c)
      PROVE  TypesHold'
  <2>1. CloneTuning(tuning, req[c]).answer \in Refusals \cup {"ok"}
    BY DEF CloneTuning, Refusals
  <2> QED
    BY <1>4, <2>1 DEF CheckTuning, Answer
<1>5. ASSUME NEW c \in Clients, Read(c)
      PROVE  TypesHold'
  <2> DEFINE f == Lines(file)
             e == Edited(f, req[c])
  <2>1. f \in Files /\ f.rules \in RuleSets
    BY LinesTyped
  <2>2. e.rules \in RuleSets /\ e.answer \in Refusals \cup {"ok"}
    BY <1>5, <2>1, EditedTyped DEF Read
  <2>3. [f EXCEPT !.rules = e.rules] \in Files
    BY <2>1, <2>2 DEF Files, RuleSets, Blocked
  <2>4. [f EXCEPT !.rules = e.rules].rules = e.rules
    BY <2>1 DEF Files
  <2>5. CASE e.answer # "ok"
    BY <1>5, <2>2, <2>5 DEF Read, Answer
  <2>6. CASE e.answer = "ok"
    <3>1. /\ buf' = [buf EXCEPT ![c] = [f EXCEPT !.rules = e.rules]]
          /\ pc' = [pc EXCEPT ![c] = "write"] /\ Edits(req[c])
          /\ UNCHANGED <<file, tuneDisk, tuning, mutex, req, next, answer, wrote, made, edits>>
      BY <1>5, <2>6 DEF Read
    <3>2. buf' \in [Clients -> Files]
      BY <2>3, <3>1
    <3>3. \A d \in Clients : buf'[d].rules \in RuleSets
      BY <2>2, <2>4, <3>1
    <3> HIDE DEF f, e
    <3> QED
      BY <1>5, <3>1, <3>2, <3>3 DEF Read
  <2> QED
    BY <2>5, <2>6
<1>6. ASSUME NEW c \in Clients, Write(c)
      PROVE  TypesHold'
  <2>1. \A p \in Pkgs : buf[c].rules[p].thr # 0 => buf[c].rules[p].block
    BY DEF RuleSets, Blocked
  <2>2. req[c] \in Asked /\ HasTuning(req[c]) => req[c].op = "clone"
    BY <1>6 DEF Write, HasTuning
  <2> DEFINE Written == /\ file' = buf[c]
                        /\ wrote' = [wrote EXCEPT ![c] = TRUE]
  <2> DEFINE Rest == UNCHANGED <<tuneDisk, tuning, mutex, req, buf, next, made, edits>>
  <2>3. pc[c] = "write" /\ Rest
    BY <1>6 DEF Write
  <2>4. CASE Written /\ HasTuning(req[c]) /\ pc' = [pc EXCEPT ![c] = "tuning"]
             /\ UNCHANGED answer
    BY <2>1, <2>2, <2>3, <2>4
  <2>5. CASE Written /\ Answer(c, "ok")
    BY <2>1, <2>3, <2>5 DEF Answer
  <2>6. CASE Answer(c, "failed") /\ UNCHANGED <<file, wrote>>
    BY <2>3, <2>6 DEF Answer
  <2> QED
    BY <1>6, <2>4, <2>5, <2>6 DEF Write
<1>7. ASSUME NEW c \in Clients, Tuning(c)
      PROVE  TypesHold'
  <2>1. /\ CloneTuning(tuning, req[c]).tuning \in Tunings
        /\ CloneTuning(tuning, req[c]).answer \in Refusals \cup {"ok"}
    BY <1>7, CloneTuningTyped DEF Tuning
  <2> QED
    BY <1>7, <2>1 DEF Tuning, Answer
<1>8. ASSUME NEW c \in Clients, Save(c)
      PROVE  TypesHold'
  BY <1>8 DEF Save, Answer
<1>9. ASSUME NEW c \in Clients, Install(c)
      PROVE  TypesHold'
  BY <1>9 DEF Install, Answer
<1>10. ASSUME NEW c \in Clients, Done(c)
       PROVE  TypesHold'
  BY <1>10, BlankBlocked, NoTuningTyped DEF Done, NoRequest, None
<1>11. CASE HandEdit
  <2>1. PICK p \in Pkgs, e \in Entries, s \in Shapes :
          /\ e.block = (e.thr # 0)
          /\ file' = [rules |-> [file.rules EXCEPT ![p] = e], shape |-> s]
    BY <1>11 DEF HandEdit
  <2>2. e \in Blocked
    BY <2>1 DEF Blocked
  <2>3. [file.rules EXCEPT ![p] = e] \in RuleSets
    BY <2>2 DEF RuleSets
  <2>4. file' \in Files /\ file'.rules \in RuleSets
    BY <2>1, <2>3, ShapesAssumption DEF Files, RuleSets, Blocked
  <2>5. \A q \in Pkgs : file'.rules[q].thr # 0 => file'.rules[q].block
    BY <2>4 DEF RuleSets, Blocked
  <2>6. edits' \in 0..MaxHandEdits
    BY <1>11, BoundsAssumption DEF HandEdit
  <2> QED
    BY <1>11, <2>4, <2>5, <2>6 DEF HandEdit
<1>12. CASE Restart
  BY <1>12, BlankBlocked, NoTuningTyped DEF Restart, NoRequest, None
<1>13. CASE UNCHANGED vars
  BY <1>13 DEF vars
<1> QED
  BY <1>1, <1>2, <1>3, <1>4, <1>5, <1>6, <1>7, <1>8, <1>9, <1>10, <1>11,
     <1>12, <1>13 DEF Next, Serve

(* TypeOK of WebStore: every edit leaves each thread rule in a block       *)
(* (rule_edit.rs 451), on whatever file it was made.                       *)
THEOREM StoreTypes == Spec => []TypeOK
<1>1. TypesHold => TypeOK
  BY DEF TypesHold
<1> QED
  BY <1>1, TypesStart, TypesStep, PTL DEF Spec
-----------------------------------------------------------------------------
(* Source and target of a clone agree in the kinds asked for.              *)
CpuAgree(rules, r) ==
  \A k \in r.kinds \cap CpuKinds :
    rules[r.to][k] = rules[r.pkg][k] /\ rules[r.to][k] # 0
TuneAgree(t, r) ==
  \A k \in r.kinds \cap TuneKinds : t[r.to][k] = t[r.pkg][k] /\ t[r.to][k] # 0

(* How far a clone has got: its copies agree before they are written, and  *)
(* what has been written still does when the request is answered.          *)
CloneSoFar(c) ==
  /\ pc[c] = "write" => CpuAgree(buf[c].rules, req[c])
  /\ pc[c] \in {"tuning", "save", "install"} => CpuAgree(file.rules, req[c])
  /\ pc[c] \in {"save", "install"} => TuneAgree(next[c], req[c])
  /\ pc[c] = "done" /\ answer[c] = "ok"
       => CpuAgree(file.rules, req[c]) /\ TuneAgree(tuning, req[c])

Cloning ==
  edits = 0 =>
    /\ file.shape = "fine"
    /\ \A c \in Clients :
         /\ pc[c] = "write" => buf[c].shape = "fine"
         /\ pc[c] \notin {"idle", "lock"} /\ req[c].op = "clone" => CloneSoFar(c)

LEMMA CloneRulesAgree ==
  ASSUME NEW f \in Files, NEW r \in Asked, r.op = "clone",
         CloneRules(f, r).answer = "ok"
  PROVE  CpuAgree(CloneRules(f, r).rules, r)
<1>1. r.pkg \in Pkgs /\ r.to \in Pkgs /\ r.pkg # r.to
  BY DEF Asked
<1>2. \A k \in r.kinds \cap CpuKinds : f.rules[r.pkg][k] # 0
  BY DEF CloneRules
<1> DEFINE e == f.rules[r.pkg]
           n == [pkg |-> IF "pkg" \in r.kinds THEN e.pkg ELSE 0,
                 thr |-> IF "thr" \in r.kinds THEN e.thr ELSE 0,
                 block |-> "thr" \in r.kinds]
<1>3. CloneRules(f, r).rules = [f.rules EXCEPT ![r.to] = n]
  BY DEF CloneRules
<1>4. \A k \in r.kinds \cap CpuKinds : n[k] = e[k]
  BY DEF CpuKinds
<1>5. DOMAIN f.rules = Pkgs
  BY DEF Files
<1> QED
  BY <1>1, <1>2, <1>3, <1>4, <1>5 DEF CpuAgree

LEMMA CloneTuningAgrees ==
  ASSUME NEW t \in Tunings, NEW r \in Asked, r.op = "clone",
         CloneTuning(t, r).answer = "ok"
  PROVE  TuneAgree(CloneTuning(t, r).tuning, r)
<1>1. r.pkg \in Pkgs /\ r.to \in Pkgs /\ r.pkg # r.to
  BY DEF Asked
<1>2. \A k \in r.kinds \cap TuneKinds : t[r.pkg][k] # 0
  BY DEF CloneTuning
<1> QED
  BY <1>1, <1>2 DEF CloneTuning, TuneAgree, Tunings

LEMMA CloningStart == Init => Cloning
  BY DEF Init, Cloning, NoFile

LEMMA CloningStep ==
  ASSUME TypesHold, StoreInv, Cloning, [Next]_vars
  PROVE  Cloning'
<1> USE DEF Cloning, CloneSoFar, Goto, tuneVars
<1>0. SUFFICES ASSUME edits' = 0 PROVE Cloning'
  OBVIOUS
<1>1. \A c, d \in Clients :
        pc[c] \notin {"idle", "lock"} /\ pc[d] \notin {"idle", "lock"} => c = d
  BY DEF StoreInv, Exclusive
<1>2. DOMAIN pc = Clients /\ DOMAIN req = Clients /\ DOMAIN buf = Clients
        /\ DOMAIN next = Clients /\ DOMAIN answer = Clients
  BY DEF TypesHold, TypeOK
<1>3. ASSUME NEW c \in Clients, Issue(c)
      PROVE  Cloning'
  BY <1>2, <1>3 DEF Issue
<1>4. ASSUME NEW c \in Clients, Lock(c)
      PROVE  Cloning'
  BY <1>2, <1>4 DEF Lock
<1>5. ASSUME NEW c \in Clients, Check(c)
      PROVE  Cloning'
  BY <1>2, <1>5 DEF Check, Answer
<1>6. ASSUME NEW c \in Clients, CheckTuning(c)
      PROVE  Cloning'
  <2>1. req[c].op = "clone" /\ ~HasCpu(req[c]) => CpuAgree(file.rules, req[c])
    BY DEF HasCpu, CpuAgree
  <2> QED
    BY <1>2, <1>6, <2>1 DEF CheckTuning, Answer, TypesHold
<1>7. ASSUME NEW c \in Clients, Read(c)
      PROVE  Cloning'
  <2> DEFINE e == Edited(file, req[c])
  <2>1. edits = 0 /\ Lines(file) = file /\ req[c] \in Asked /\ pc[c] = "read"
    BY <1>7, <1>0 DEF Read, Lines, TypesHold
  <2>2. req[c].op = "clone" /\ e.answer = "ok" => CpuAgree(e.rules, req[c])
    BY <2>1, CloneRulesAgree DEF Edited, TypesHold, TypeOK
  <2>3. CASE e.answer # "ok"
    BY <1>2, <1>7, <2>1, <2>3 DEF Read, Answer
  <2>4. CASE e.answer = "ok"
    <3>1. /\ buf' = [buf EXCEPT ![c] = [file EXCEPT !.rules = e.rules]]
          /\ pc' = [pc EXCEPT ![c] = "write"]
          /\ UNCHANGED <<file, tuning, req, next, answer>>
      BY <1>7, <2>1, <2>4 DEF Read
    <3>2. buf'[c].rules = e.rules /\ buf'[c].shape = "fine"
      BY <1>2, <2>1, <3>1 DEF TypesHold, TypeOK, Files
    <3> HIDE DEF e
    <3> QED
      BY <1>2, <2>1, <2>2, <2>4, <3>1, <3>2
  <2> QED
    BY <2>3, <2>4
<1>8. ASSUME NEW c \in Clients, Write(c)
      PROVE  Cloning'
  <2>1. req[c].op = "clone" /\ ~HasTuning(req[c]) => TuneAgree(tuning, req[c])
    BY DEF HasTuning, TuneAgree
  <2> QED
    BY <1>0, <1>1, <1>2, <1>8, <2>1 DEF Write, Answer
<1>9. ASSUME NEW c \in Clients, Tuning(c)
      PROVE  Cloning'
  <2>1. req[c] \in Asked /\ req[c].op = "clone" /\ tuning \in Tunings
    BY <1>9 DEF Tuning, TypesHold, TypeOK
  <2>2. CloneTuning(tuning, req[c]).answer = "ok"
          => TuneAgree(CloneTuning(tuning, req[c]).tuning, req[c])
    BY <2>1, CloneTuningAgrees
  <2> QED
    BY <1>2, <1>9, <2>2 DEF Tuning, Answer
<1>10. ASSUME NEW c \in Clients, Save(c)
       PROVE  Cloning'
  BY <1>2, <1>10 DEF Save, Answer
<1>11. ASSUME NEW c \in Clients, Install(c)
       PROVE  Cloning'
  BY <1>1, <1>2, <1>11 DEF Install, Answer
<1>12. ASSUME NEW c \in Clients, Done(c)
       PROVE  Cloning'
  BY <1>2, <1>12 DEF Done
<1>13. CASE HandEdit
  BY <1>0, <1>13 DEF HandEdit, TypesHold, TypeOK
<1>14. CASE Restart
  BY <1>14 DEF Restart
<1>15. CASE UNCHANGED vars
  BY <1>15 DEF vars
<1> QED
  BY <1>3, <1>4, <1>5, <1>6, <1>7, <1>8, <1>9, <1>10, <1>11, <1>12, <1>13,
     <1>14, <1>15 DEF Next, Serve

(* A clone answered with success has made the target what the source is,   *)
(* in both documents (CloneFaithful of WebStore), however many connections *)
(* there are: nothing that it has copied can change before it is answered. *)
THEOREM ClonesAgree == Spec => []CloneFaithful
<1> DEFINE I == TypesHold /\ StoreInv /\ Cloning
<1>1. Init => I
  BY TypesStart, StoreStart, CloningStart
<1>2. I /\ [Next]_vars => I'
  BY TypesStep, StoreStep, CloningStep
<1>3. I => CloneFaithful
  BY DEF Cloning, CloneSoFar, CloneFaithful, Cloned, CpuAgree, TuneAgree
<1> QED
  BY <1>1, <1>2, <1>3, PTL DEF Spec
-----------------------------------------------------------------------------
(* What a clone is about to write keeps every rule there is.               *)
Keeping ==
  edits = 0 =>
    /\ file.shape = "fine"
    /\ \A c \in Clients :
         pc[c] \notin {"idle", "lock"} /\ req[c].op = "clone" =>
           /\ pc[c] = "write" => Keeps(CpuKinds, file.rules, buf[c].rules)
           /\ pc[c] \in {"save", "install"} => Keeps(TuneKinds, tuning, next[c])

LEMMA CloneRulesKeep ==
  ASSUME NEW f \in Files, f.rules \in RuleSets, NEW r \in Asked, r.op = "clone",
         CloneRules(f, r).answer = "ok"
  PROVE  Keeps(CpuKinds, f.rules, CloneRules(f, r).rules)
<1>1. r.to \in Pkgs
  BY DEF Asked
<1>2. f.rules[r.to].pkg = 0 /\ f.rules[r.to].thr = 0
  <2>1. ~AnyLine(f.rules[r.to])
    BY DEF CloneRules
  <2> QED
    BY <1>1, <2>1 DEF AnyLine, RuleSets, Blocked
<1>3. \A k \in CpuKinds : f.rules[r.to][k] = 0
  BY <1>2 DEF CpuKinds
<1>4. \A p \in Pkgs \ {r.to} : CloneRules(f, r).rules[p] = f.rules[p]
  BY <1>1 DEF CloneRules, RuleSets
<1> QED
  BY <1>3, <1>4 DEF Keeps

LEMMA CloneTuningKeeps ==
  ASSUME NEW t \in Tunings, NEW r \in Asked, r.op = "clone",
         CloneTuning(t, r).answer = "ok"
  PROVE  Keeps(TuneKinds, t, CloneTuning(t, r).tuning)
<1>1. r.to \in Pkgs
  BY DEF Asked
<1>2. \A k \in r.kinds \cap TuneKinds : t[r.to][k] = 0
  BY DEF CloneTuning
<1> QED
  BY <1>1, <1>2 DEF CloneTuning, Keeps, Tunings

LEMMA KeepingStart == Init => Keeping
  BY DEF Init, Keeping, NoFile

LEMMA KeepingStep ==
  ASSUME TypesHold, StoreInv, Cloning, Keeping, [Next]_vars
  PROVE  Keeping'
<1> USE DEF Keeping, Goto, tuneVars
<1>0. SUFFICES ASSUME edits' = 0 PROVE Keeping'
  OBVIOUS
<1>1. \A c, d \in Clients :
        pc[c] \notin {"idle", "lock"} /\ pc[d] \notin {"idle", "lock"} => c = d
  BY DEF StoreInv, Exclusive
<1>2. DOMAIN pc = Clients /\ DOMAIN req = Clients /\ DOMAIN buf = Clients
        /\ DOMAIN next = Clients
  BY DEF TypesHold, TypeOK
<1>3. ASSUME NEW c \in Clients, Issue(c) \/ Lock(c)
      PROVE  Keeping'
  BY <1>2, <1>3 DEF Issue, Lock
<1>4. ASSUME NEW c \in Clients, Check(c) \/ CheckTuning(c)
      PROVE  Keeping'
  BY <1>2, <1>4 DEF Check, CheckTuning, Answer
<1>5. ASSUME NEW c \in Clients, Read(c)
      PROVE  Keeping'
  <2> DEFINE e == Edited(file, req[c])
  <2>1. edits = 0 /\ Lines(file) = file /\ req[c] \in Asked /\ pc[c] = "read"
    BY <1>5, <1>0 DEF Read, Lines, TypesHold
  <2>2. req[c].op = "clone" /\ e.answer = "ok" => Keeps(CpuKinds, file.rules, e.rules)
    BY <2>1, CloneRulesKeep DEF Edited, TypesHold, TypeOK
  <2>3. CASE e.answer # "ok"
    BY <1>2, <1>5, <2>1, <2>3 DEF Read, Answer
  <2>4. CASE e.answer = "ok"
    <3>1. /\ buf' = [buf EXCEPT ![c] = [file EXCEPT !.rules = e.rules]]
          /\ pc' = [pc EXCEPT ![c] = "write"]
          /\ UNCHANGED <<file, tuning, req, next>>
      BY <1>5, <2>1, <2>4 DEF Read
    <3>2. buf'[c].rules = e.rules
      BY <1>2, <3>1 DEF TypesHold, TypeOK, Files
    <3> HIDE DEF e
    <3> QED
      BY <1>2, <2>1, <2>2, <2>4, <3>1, <3>2
  <2> QED
    BY <2>3, <2>4
<1>6. ASSUME NEW c \in Clients, Write(c)
      PROVE  Keeping'
  BY <1>0, <1>1, <1>2, <1>6 DEF Write, Answer, Cloning
<1>7. ASSUME NEW c \in Clients, Tuning(c)
      PROVE  Keeping'
  <2>1. req[c] \in Asked /\ req[c].op = "clone" /\ tuning \in Tunings
    BY <1>7 DEF Tuning, TypesHold, TypeOK
  <2>2. CloneTuning(tuning, req[c]).answer = "ok"
          => Keeps(TuneKinds, tuning, CloneTuning(tuning, req[c]).tuning)
    BY <2>1, CloneTuningKeeps
  <2> QED
    BY <1>2, <1>7, <2>2 DEF Tuning, Answer
<1>8. ASSUME NEW c \in Clients, Save(c)
      PROVE  Keeping'
  BY <1>2, <1>8 DEF Save, Answer
<1>9. ASSUME NEW c \in Clients, Install(c)
      PROVE  Keeping'
  BY <1>1, <1>2, <1>9 DEF Install, Answer
<1>10. ASSUME NEW c \in Clients, Done(c)
       PROVE  Keeping'
  BY <1>2, <1>10 DEF Done
<1>11. CASE HandEdit
  BY <1>0, <1>11 DEF HandEdit, TypesHold, TypeOK
<1>12. CASE Restart \/ UNCHANGED vars
  BY <1>12 DEF Restart, vars
<1> QED
  BY <1>3, <1>4, <1>5, <1>6, <1>7, <1>8, <1>9, <1>10, <1>11, <1>12 DEF Next, Serve

(* One commit of a clone: the writes of its connection and no others.      *)
OneCommit ==
  \A c \in Clients :
    edits = 0 /\ req[c].op = "clone" /\ pc[c] \in {"write", "install"}
      /\ pc'[c] \notin {"idle", pc[c]}
    => /\ Keeps(CpuKinds, file.rules, file'.rules)
       /\ Keeps(TuneKinds, tuning, tuning')

LEMMA CommitsKeep ==
  ASSUME TypesHold, Keeping, [Next]_vars
  PROVE  OneCommit
<1> SUFFICES ASSUME NEW c \in Clients,
                    edits = 0, req[c].op = "clone", pc[c] \in {"write", "install"},
                    pc'[c] \notin {"idle", pc[c]}
             PROVE  /\ Keeps(CpuKinds, file.rules, file'.rules)
                    /\ Keeps(TuneKinds, tuning, tuning')
  BY DEF OneCommit
<1>1. DOMAIN pc = Clients
  BY DEF TypesHold, TypeOK
<1>2. Write(c) \/ Install(c)
  <2>1. \A d \in Clients : Issue(d) \/ Serve(d) => d = c
    BY <1>1 DEF Issue, Serve, Lock, Check, CheckTuning, Read, Write, Tuning, Save,
                Install, Done, Goto, Answer
  <2>2. Issue(c) \/ Serve(c)
    BY <1>1, <2>1 DEF Next, HandEdit, Restart, vars
  <2> QED
    BY <2>2 DEF Issue, Serve, Lock, Check, CheckTuning, Read, Tuning, Save, Done
<1>3. CASE Write(c)
  BY <1>3 DEF Write, Keeping, Keeps, tuneVars
<1>4. CASE Install(c)
  BY <1>4 DEF Install, Keeping, Keeps
<1> QED
  BY <1>2, <1>3, <1>4

(* A clone never overwrites (CloneOnlyAdds of WebStore): whatever rule     *)
(* there is before each of its two commits is still there after it.        *)
THEOREM ClonesOnlyAdd == Spec => CloneOnlyAdds
<1> DEFINE I == TypesHold /\ StoreInv /\ Cloning /\ Keeping
<1>1. Init => I
  BY TypesStart, StoreStart, CloningStart, KeepingStart
<1>2. I /\ [Next]_vars => I'
  BY TypesStep, StoreStep, CloningStep, KeepingStep
<1>3. I /\ [Next]_vars => OneCommit
  BY CommitsKeep
<1>4. Spec => [][OneCommit]_vars
  BY <1>1, <1>2, <1>3, PTL DEF Spec
<1> QED
  BY <1>4 DEF CloneOnlyAdds, OneCommit
=============================================================================
