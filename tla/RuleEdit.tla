------------------------------ MODULE RuleEdit ------------------------------
(***************************************************************************)
(* The editor of applist.conf (rule_edit.rs): every rule request of the    *)
(* web API reads the file as lines, finds those of a package, changes them *)
(* in place and replaces the file.  Requests run one at a time under       *)
(* WRITE_LOCK, and the file is replaced by a rename: it is the old one or  *)
(* the new one, whatever fails.                                            *)
(***************************************************************************)
EXTENDS RuleFile

CONSTANTS
  Files,     \* what applist.conf may be at first
  AnyFiles,  \* the same, for files that are edited only once
  NewSpecs,  \* the specs that requests bring
  MaxEdits   \* bound: requests made

ASSUME SpecsAssumption == NewSpecs \subseteq Specs \ {{}}
ASSUME FilesAssumption == Files \cup AnyFiles \subseteq Seq(Lines)
ASSUME EditsAssumption == MaxEdits \in Nat \ {0}

VARIABLES
  file,    \* the lines of applist.conf
  loaded,  \* the rules in force
  last,    \* the last request and its answer
  edits    \* requests made

vars == <<file, loaded, last, edits>>

-----------------------------------------------------------------------------
(* target_scan: where a package is mentioned.  first is its first package  *)
(* line; open and close bound its first block; locs are its thread lines.  *)
(* Lines are numbered from 1, 0 is none.                                   *)
Nowhere == [kind |-> "none", at |-> 0]
ScanStart == [block |-> FALSE, target |-> FALSE, pending |-> 0,
              first |-> Nowhere, open |-> 0, close |-> 0, locs |-> {}]

Inner(l, i) == [name |-> InnerName(l), at |-> i, single |-> FALSE,
                closed |-> l.closed, open |-> FALSE]
Single(l, i) == [name |-> l.thread, at |-> i, single |-> TRUE,
                 closed |-> FALSE, open |-> l.open]

(* Mutant: the end of the block does not end the block of the package.     *)
ScanInnerSticky(s, l, i) ==
  [s EXCEPT
     !.locs = IF s.target /\ HasSpec(l) THEN @ \cup {Inner(l, i)} ELSE @,
     !.close = IF s.target /\ Ends(l) /\ @ = 0 THEN i ELSE @,
     !.block = ~Ends(l)]

ScanInner(s, l, i) ==
  [s EXCEPT
     !.locs = IF s.target /\ HasSpec(l) THEN @ \cup {Inner(l, i)} ELSE @,
     !.close = IF s.target /\ Ends(l) /\ @ = 0 THEN i ELSE @,
     !.target = @ /\ ~Ends(l),
     !.block = ~Ends(l)]

(* The package line a line is, or makes of the pending one.                *)
PkgLine(l, i, pending) ==
  CASE l.kind = "rule" /\ l.open -> [kind |-> "OpenInline", at |-> i]
    [] l.kind = "rule" /\ ~l.open -> [kind |-> "Standalone", at |-> i]
    [] l.kind = "bare" /\ l.name # NoName -> [kind |-> "BareOpen", at |-> i]
    [] l.kind = "bare" /\ l.name = NoName /\ pending # 0 ->
         [kind |-> "BarePending", at |-> pending]
    [] OTHER -> Nowhere

ScanOuter(f, s, l, i, pkg) ==
  LET owner == Opens(l, IF s.pending = 0 THEN NoName ELSE f[s.pending].name)
      mine == pkg \in {l.name, owner} IN
  [s EXCEPT
     !.locs = IF l.kind = "single" /\ l.name = pkg THEN @ \cup {Single(l, i)} ELSE @,
     !.first = IF mine /\ @ = Nowhere THEN PkgLine(l, i, s.pending) ELSE @,
     !.open = IF owner = pkg /\ s.close = 0 THEN i ELSE @,
     !.target = @ \/ owner = pkg,
     !.block = owner # NoName,
     !.pending = IF l.kind = "pend" THEN i ELSE 0]

ScanLine(f, s, i, pkg) ==
  IF f[i].kind = "blank" THEN s
  ELSE IF s.block THEN ScanInner(s, f[i], i) ELSE ScanOuter(f, s, f[i], i, pkg)

ScanTo(f, pkg) ==
  LET scan[i \in 0..Len(f)] ==
        IF i = 0 THEN ScanStart ELSE ScanLine(f, scan[i - 1], i, pkg) IN
  scan

Scan(f, pkg) == ScanTo(f, pkg)[Len(f)]

Unterminated(t) == t.block
Singles(t) == {loc \in t.locs : loc.single}
AnyLine(t) == t.first # Nowhere \/ Singles(t) # {}
Ats(locs) == {loc.at : loc \in locs}
LocAt(locs, i) == CHOOSE loc \in locs : loc.at = i

-----------------------------------------------------------------------------
(* A brace put behind a whole line ends up inside its comment.             *)
AppendBrace(l) == IF l.note THEN l ELSE [l EXCEPT !.open = TRUE]

(* A file with other lines in the place of some, by their numbers.         *)
Instead(f, by, i) == IF i \in DOMAIN by THEN by[i] ELSE <<f[i]>>
ReplaceTo(f, by) ==
  LET made[i \in 0..Len(f)] ==
        IF i = 0 THEN <<>> ELSE made[i - 1] \o Instead(f, by, i) IN
  made

Replace(f, by) == ReplaceTo(f, by)[Len(f)]

ReplaceOne(f, at, lines) == Replace(f, [i \in {at} |-> lines])
InsertAll(f, at, lines) == ReplaceOne(f, at, lines \o <<f[at]>>)
Without(f, at) == Replace(f, [i \in at |-> <<>>])

(* Mutant: the brace goes with the line it stands on.                      *)
LineRemoveWhole(pkg, l, loc) == <<>>

(* line_remove: what else the line says, the braces, stays.                *)
LineRemove(pkg, l, loc) ==
  CASE loc.open -> <<WithComment(BareOpen(pkg), l)>>
    [] ~loc.open /\ loc.closed -> <<WithComment(CloseLine, l)>>
    [] OTHER -> <<>>

(* Mutant: the first one first, the others have moved by then.             *)
RemoveLocsForward(f, pkg, locs) ==
  FoldLeft(LAMBDA g, loc : IF loc.at \in DOMAIN g
                           THEN ReplaceOne(g, loc.at, LineRemove(pkg, g[loc.at], loc)) ELSE g,
           f, SetToSortSeq(locs, LAMBDA x, y : x.at < y.at))

(* The last one first, so that the others stay where they are.             *)
Removed(f, pkg, locs) == [i \in Ats(locs) |-> LineRemove(pkg, f[i], LocAt(locs, i))]
RemoveLocs(f, pkg, locs) == Replace(f, Removed(f, pkg, locs))

(* normalize_singles: the thread rules a package has outside its block are *)
(* moved into it: the lines left, the rules in their new form, and where   *)
(* they go, at worst to where the first one was.                           *)
MoveInto(f, pkg, singles, items) ==
  LET g == RemoveLocs(f, pkg, singles)
      t == Scan(g, pkg)
      at == t.first.at
      left == Removed(f, pkg, singles) IN
  CASE t.close # 0 -> InsertAll(g, t.close, items)
    [] t.close = 0 /\ t.first.kind = "Standalone" ->
         ReplaceOne(g, at, <<AppendBrace(g[at])>> \o items \o <<CloseLine>>)
    [] OTHER ->
         Replace(f, [left EXCEPT ![Min(Ats(singles))] =
                       <<BareOpen(pkg)>> \o items \o <<CloseLine>> \o @])

(* A single line without its package: what stands behind the equals sign   *)
(* is taken as it is written, a brace that closes included.                *)
ThreadLine(l, loc) == [RuleLine(loc.name, l.cpus) EXCEPT !.closed = l.closed]
MovedItem(l, loc) == WithComment(ThreadLine(l, loc), l)

MovedLines(f, singles) ==
  Replace(f, [i \in DOMAIN f |->
                IF i \in Ats(singles) THEN <<MovedItem(f[i], LocAt(singles, i))>> ELSE <<>>])

MoveSingles(f, pkg, t, singles) ==
  LET unsafe == /\ t.close = 0
                /\ \/ \E loc \in singles : loc.open
                   \/ t.first.kind \notin {"none", "Standalone"} IN
  IF singles = {} \/ unsafe THEN f
  ELSE MoveInto(f, pkg, singles, MovedLines(f, singles))

NormalizeSingles(f, pkg) == MoveSingles(f, pkg, Scan(f, pkg), Singles(Scan(f, pkg)))

-----------------------------------------------------------------------------
(* What a request makes of the lines, and what it is answered.             *)
Ok(f) == [answer |-> "ok", file |-> f]
Refused(answer) == [answer |-> answer]

(* spec_swap: only the spec of the line changes.                           *)
SpecSwap(l, cpus) == <<[l EXCEPT !.cpus = cpus]>>

(* A line of a package becomes its rule and opens its block.               *)
Opened(l, pkg, cpus) == <<WithComment([RuleLine(pkg, cpus) EXCEPT !.open = TRUE], l)>>

UpsertPkg(f, t, pkg, cpus) ==
  LET i == t.first.at
      brace == t.open # 0 /\ f[t.open].kind = "bare" /\ f[t.open].name = NoName IN
  CASE t.first.kind \in {"Standalone", "OpenInline"} ->
         Ok(ReplaceOne(f, i, SpecSwap(f[i], cpus)))
    [] t.first.kind = "BareOpen" -> Ok(ReplaceOne(f, i, Opened(f[i], pkg, cpus)))
    [] t.first.kind = "BarePending" ->
         Ok(Replace(f, [j \in {i} \cup (IF brace THEN {t.open} ELSE {}) |->
                          IF j = i THEN Opened(f[i], pkg, cpus) ELSE <<>>]))
    [] t.first = Nowhere /\ Unterminated(t) -> Refused("malformed")
    [] OTHER -> Ok(Append(f, RuleLine(pkg, cpus)))

UpsertThread(f, t, pkg, thread, cpus) ==
  LET locs == {loc \in t.locs : loc.name = thread}
      final == Max(Ats(locs))
      i == t.first.at IN
  CASE locs # {} ->
         Ok(Replace(f, [Removed(f, pkg, locs) EXCEPT ![final] = SpecSwap(f[final], cpus)]))
    [] locs = {} /\ t.close # 0 -> Ok(InsertAll(f, t.close, <<RuleLine(thread, cpus)>>))
    [] locs = {} /\ t.close = 0 /\ t.first.kind = "Standalone" ->
         Ok(ReplaceOne(f, i, <<AppendBrace(f[i]), RuleLine(thread, cpus), CloseLine>>))
    [] locs = {} /\ t.close = 0 /\ t.first.kind # "Standalone" /\ Unterminated(t) ->
         Refused("malformed")
    [] OTHER -> Ok(f \o <<BareOpen(pkg), RuleLine(thread, cpus), CloseLine>>)

RuleUpsert(f, pkg, thread, cpus) ==
  LET g == NormalizeSingles(f, pkg)
      t == Scan(g, pkg) IN
  IF thread = NoName THEN UpsertPkg(g, t, pkg, cpus)
  ELSE UpsertThread(g, t, pkg, thread, cpus)

(* rule_delete looks at the first package line only.                       *)
RuleDelete(f, pkg, thread) ==
  LET g == NormalizeSingles(f, pkg)
      t == Scan(g, pkg)
      locs == {loc \in t.locs : loc.name = thread} IN
  CASE thread = NoName /\ t.first.kind = "Standalone" -> Ok(Without(g, {t.first.at}))
    [] thread = NoName /\ t.first.kind = "OpenInline" ->
         Ok(ReplaceOne(g, t.first.at, <<BareOpen(pkg)>>))
    [] thread # NoName /\ locs # {} -> Ok(RemoveLocs(g, pkg, locs))
    [] OTHER -> Refused("missing")

(* The lines of a package that one round of rule_delete_pkg takes out: its *)
(* first package line, its first block, its single lines.                  *)
PkgLines(t) ==
  LET inner == Ats(t.locs \ Singles(t))
      end == CASE t.close # 0 -> t.close
               [] t.close = 0 /\ inner # {} -> Max(inner)
               [] OTHER -> t.open IN
  ({t.first.at} \ {0})
    \cup (IF t.open = 0 THEN {} ELSE t.open..end)
    \cup Ats(Singles(t))

(* The loop ends when no line is left; a round takes out at least one, so  *)
(* that there are no more rounds than lines.                               *)
DeleteRound(f, pkg) ==
  LET t == Scan(f, pkg) IN IF AnyLine(t) THEN Without(f, PkgLines(t)) ELSE f

DeleteRounds(f, pkg) ==
  LET round[i \in 0..Len(f)] == IF i = 0 THEN f ELSE DeleteRound(round[i - 1], pkg) IN
  round

RuleDeletePkg(f, pkg) ==
  LET g == NormalizeSingles(f, pkg) IN
  IF AnyLine(Scan(g, pkg)) THEN Ok(DeleteRounds(g, pkg)[Len(g)]) ELSE Refused("missing")

(* The lines that name a package, as far as one round of rule_rename sees. *)
NameLines(t) == ({t.first.at} \ {0}) \cup Ats(Singles(t))

(* Mutant: the new name is put after the brace.                            *)
RenamedInside(f, old, new) ==
  Replace(f, [i \in NameLines(Scan(f, old)) |-> <<[f[i] EXCEPT !.thread = new]>>])

(* The same loop, over the lines that name the package.                    *)
Renamed(f, old, new) ==
  Replace(f, [i \in NameLines(Scan(f, old)) |-> <<[f[i] EXCEPT !.name = new]>>])

RenameRounds(f, old, new) ==
  LET round[i \in 0..Len(f)] == IF i = 0 THEN f ELSE Renamed(round[i - 1], old, new) IN
  round

RuleRename(f, old, new) ==
  LET g == NormalizeSingles(f, old) IN
  CASE ~AnyLine(Scan(g, old)) -> Refused("missing")
    [] AnyLine(Scan(g, old)) /\ AnyLine(Scan(g, new)) -> Refused("conflict")
    [] OTHER -> Ok(RenameRounds(g, old, new)[Len(g)])

(* clone_append: the copy is one entry at the end of the file.             *)
CloneAppend(f, head, threads) ==
  LET g == IF f # <<>> /\ Last(f).kind # "blank" THEN Append(f, BlankLine) ELSE f IN
  CASE threads = <<>> /\ head.kind = "bare" -> g
    [] threads = <<>> /\ head.kind = "rule" -> Append(g, head)
    [] OTHER -> g \o <<[head EXCEPT !.open = head.kind = "rule"]>> \o threads \o <<CloseLine>>

(* A line in a block is copied up to the first brace that closes.          *)
InnerItem(l) == [l EXCEPT !.open = @ /\ ~l.closed, !.closed = FALSE, !.note = FALSE]
CopiedItem(l, loc) == IF loc.single THEN ThreadLine(l, loc) ELSE InnerItem(l)

CopiedHead(l, target) == [RuleLine(target, l.cpus) EXCEPT !.closed = l.closed]

CopiedLines(f, locs) ==
  Replace(f, [i \in DOMAIN f |->
                IF i \in Ats(locs) THEN <<CopiedItem(f[i], LocAt(locs, i))>> ELSE <<>>])

(* s, t: where the source and the target are mentioned.                    *)
CloneInto(f, s, t, target, kinds) ==
  LET threads == CopiedLines(f, s.locs)
      hasPkg == s.first.kind \in {"Standalone", "OpenInline"} IN
  CASE Unterminated(s) -> Refused("malformed")
    [] ~Unterminated(s) /\ AnyLine(t) -> Refused("conflict")
    [] ~Unterminated(s) /\ ~AnyLine(t)
         /\ (("pkg" \in kinds /\ ~hasPkg) \/ ("thr" \in kinds /\ threads = <<>>)) ->
         Refused("missing")
    [] OTHER -> Ok(CloneAppend(f,
                     IF "pkg" \in kinds THEN CopiedHead(f[s.first.at], target)
                     ELSE BareOpen(target),
                     IF "thr" \in kinds THEN threads ELSE <<>>))

RuleClone(f, source, target, kinds) ==
  LET g == NormalizeSingles(NormalizeSingles(f, source), target) IN
  CloneInto(g, Scan(g, source), Scan(g, target), target, kinds)

-----------------------------------------------------------------------------
Init ==
  /\ \/ file \in Files /\ edits = 0
     \/ file \in AnyFiles /\ edits = MaxEdits - 1
  /\ loaded = Affinity(file)
  /\ last = [req |-> [op |-> "none"], answer |-> "none"]

(* file_write: the lines replace the file and it is loaded at once, or     *)
(* writing them fails.                                                     *)
Answer(req, result) ==
  /\ edits < MaxEdits /\ edits' = edits + 1
  /\ \/ /\ result.answer = "ok"
        /\ file' = result.file /\ loaded' = Affinity(file')
        /\ last' = [req |-> req, answer |-> "ok"]
     \/ /\ UNCHANGED <<file, loaded>>
        /\ last' = [req |-> req,
                    answer |-> IF result.answer = "ok" THEN "io" ELSE result.answer]

Upsert(p, t, c) ==
  Answer([op |-> "upsert", pkg |-> p, thread |-> t, cpus |-> c], RuleUpsert(file, p, t, c))
Delete(p, t) ==
  Answer([op |-> "delete", pkg |-> p, thread |-> t], RuleDelete(file, p, t))
DeletePkg(p) == Answer([op |-> "deleteAll", pkg |-> p], RuleDeletePkg(file, p))
Rename(p, q) == Answer([op |-> "rename", pkg |-> p, to |-> q], RuleRename(file, p, q))
Clone(p, q, kinds) ==
  Answer([op |-> "clone", pkg |-> p, to |-> q, kinds |-> kinds],
         RuleClone(file, p, q, kinds))

Next ==
  \E p \in Pkgs :
    \/ \E t \in Threads \cup {NoName}, c \in NewSpecs : Upsert(p, t, c)
    \/ \E t \in Threads \cup {NoName} : Delete(p, t)
    \/ DeletePkg(p)
    \/ \E q \in Pkgs \ {p} :
         Rename(p, q) \/ \E kinds \in (SUBSET {"pkg", "thr"}) \ {{}} : Clone(p, q, kinds)

Spec == Init /\ [][Next]_vars

-----------------------------------------------------------------------------
(* PROPERTIES                                                              *)

(* Type: the file stays a sequence of lines.                               *)
TypeOK == file \in Seq(Lines) /\ edits \in 0..MaxEdits

(* A package whose first line is a rule with a comment behind it, and      *)
(* opens no block: a brace put there is lost.                              *)
Trap(f) ==
  \E p \in Names :
    LET t == Scan(f, p) IN t.first.kind = "Standalone" /\ f[t.first.at].note

(* The files of the format as it is meant: the loader has nothing to       *)
(* complain of, and a package that has a rule of its own has one, on the   *)
(* first line that names it.                                               *)
FirstOnly(f, p) ==
  {i \in DOMAIN f : /\ f[i].kind \in {"rule", "pend"} /\ f[i].name = p
                    /\ ~ReadFrom(Start, f)[i - 1].block}
Tidy(f) ==
  /\ Clean(f) /\ ~Trap(f)
  /\ \A p \in Names :
       LET t == Scan(f, p) IN
       \A i \in FirstOnly(f, p) : i = t.first.at /\ (t.open = 0 \/ i <= t.open)

(* Every request on a tidy file is a step of the table of rules that       *)
(* load_config reads: it changes what it names and nothing else, and what  *)
(* it answers is true of the rules.                                        *)
Table == INSTANCE RuleTable WITH
  table <- loaded, last <- last, PkgNames <- Names,
  ThreadNames <- Names, None <- NoName, CpuSets <- Specs
EditsKeepPromises == [][Tidy(file) => Table!Next]_vars

(* A request leaves a tidy file tidy, so that the next one finds what it   *)
(* needs: no edit brings a line that the loader cannot read.               *)
StaysTidy == [][Tidy(file) => Tidy(file')]_vars

(* A request never touches the rules of a package it does not name.        *)
Named(req) == {req.pkg} \cup (IF req.op \in {"rename", "clone"} THEN {req.to} ELSE {})
NothingElse == \A p \in Names \ Named(last'.req) : loaded'[p] = loaded[p]
OnlyNamed == [][NothingElse]_vars

(* A brace alone on its line that opens nothing, as no name stands before  *)
(* it: an edit that takes out what is in between makes it open a block.    *)
StrayLine(s, l) ==
  l.kind = "bare" /\ l.name = NoName /\ ~s.block /\ s.pending = NoName
Stray(f) == \E i \in DOMAIN f : StrayLine(ReadFrom(Start, f)[i - 1], f[i])

(* A single line that a closing brace stands behind: the loader refuses    *)
(* it, and moved into a block it ends the block.                           *)
Shut(f, p) ==
  \E i \in DOMAIN f : /\ f[i].kind = "single" /\ f[i].name = p /\ f[i].closed
                      /\ ~ReadFrom(Start, f)[i - 1].block

(* Nor does one on a file that is broken in other ways: without a comment  *)
(* that would swallow a brace, without a brace that opens nothing, and     *)
(* without a brace that closes behind a single line of a package it names. *)
OthersKept ==
  [][~Trap(file) /\ ~Stray(file) /\ (\A p \in Named(last'.req) : ~Shut(file, p))
       => NothingElse]_vars

(* An answer that there is no such rule is true of the rules in the file.  *)
MissingIsTrue ==
  [][last'.answer = "missing" => Table!Missing(loaded, last'.req)]_vars
=============================================================================
