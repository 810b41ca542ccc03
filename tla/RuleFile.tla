------------------------------ MODULE RuleFile ------------------------------
(***************************************************************************)
(* The text of applist.conf and the rules load_config reads from it.       *)
(*                                                                         *)
(* A line is what its two readers can tell apart, parse_outer outside a    *)
(* block and split_rule_line inside one:                                   *)
(*    rule    name=cpus     with a brace behind it, { (open) or } (closed) *)
(*    single  name{thread}=cpus      possibly with { behind it (open)      *)
(*    bare    name {        or { alone, when name is NoName                *)
(*    pend    name          close   }          blank   nothing, a comment  *)
(* note says that a comment stands behind the text.  cpus is the set of    *)
(* CPUs the spec stands for, {} when the loader refuses it; the braces,    *)
(* the spec and the comment are all that an edit may change in a line.     *)
(***************************************************************************)
EXTENDS Integers, FiniteSets, SequencesExt

CONSTANTS
  Pkgs,     \* names of packages
  Threads,  \* names of threads
  Cpus,     \* the CPUs
  NoName,   \* the empty string
  Braced    \* name{thread}, which is a name when read inside a block

ASSUME NamesAssumption ==
  NoName \notin Pkgs \cup Threads \cup {Braced} /\ Braced \notin Pkgs \cup Threads

Names == Pkgs \cup Threads \cup {Braced}
Specs == SUBSET Cpus

Lines ==
  {l \in [kind : {"rule", "single", "bare", "pend", "close", "blank"},
          name : Names \cup {NoName}, thread : Threads \cup {NoName},
          cpus : Specs, open : BOOLEAN, closed : BOOLEAN, note : BOOLEAN] :
     /\ l.kind \in {"rule", "single", "pend"} => l.name # NoName
     /\ l.kind = "single" => l.thread # NoName}

Text(kind, name) ==
  [kind |-> kind, name |-> name, thread |-> NoName, cpus |-> {},
   open |-> FALSE, closed |-> FALSE, note |-> FALSE]
RuleLine(name, cpus) == [Text("rule", name) EXCEPT !.cpus = cpus]
BareOpen(name) == Text("bare", name)
CloseLine == Text("close", NoName)
BlankLine == Text("blank", NoName)

HasSpec(l) == l.kind \in {"rule", "single"}

(* with_comment: a line written in the place of another keeps its comment. *)
WithComment(l, old) == [l EXCEPT !.note = old.note]

-----------------------------------------------------------------------------
(* split_rule_line: what a line says inside a block.  A brace that opens   *)
(* is part of the spec there, a brace that closes is not.                  *)
InnerName(l) == IF l.kind = "single" THEN Braced ELSE l.name
InnerCpus(l) == IF l.open /\ ~l.closed THEN {} ELSE l.cpus
Ends(l) == l.kind = "close" \/ (HasSpec(l) /\ l.closed)

(* parse_outer: outside a block it is the other way round.                 *)
OuterCpus(l) == IF l.closed THEN {} ELSE l.cpus

(* Whose block a line opens, NoName when it opens none.                    *)
Opens(l, pending) ==
  CASE HasSpec(l) /\ l.open -> l.name
    [] l.kind = "bare" -> IF l.name = NoName THEN pending ELSE l.name
    [] OTHER -> NoName

-----------------------------------------------------------------------------
(* load_config: one line after the other.  clean says that no line has     *)
(* been counted in PARSE_FAILS.                                            *)
Start == [block |-> FALSE, owner |-> NoName, pending |-> NoName,
          rules |-> {}, clean |-> TRUE]

AddRule(s, pkg, thread, cpus) ==
  IF cpus = {} THEN s
  ELSE [s EXCEPT !.rules = @ \cup {[pkg |-> pkg, thread |-> thread, cpus |-> cpus]}]

ReadInner(s, l) ==
  LET cpus == IF HasSpec(l) THEN InnerCpus(l) ELSE {} IN
  [AddRule(s, s.owner, InnerName(l), cpus) EXCEPT
     !.clean = @ /\ (l.kind = "close" \/ cpus # {}),
     !.block = ~Ends(l),
     !.owner = IF Ends(l) THEN NoName ELSE @]

ReadOuter(s, l) ==
  LET cpus == IF HasSpec(l) THEN OuterCpus(l) ELSE {}
      owner == Opens(l, s.pending)
      lost == s.pending # NoName /\ ~(l.kind = "bare" /\ l.name = NoName) IN
  [AddRule(s, l.name, l.thread, cpus) EXCEPT
     !.clean = /\ @ /\ ~lost /\ l.kind # "close"
               /\ HasSpec(l) => cpus # {}
               /\ l.kind = "bare" => owner # NoName,
     !.block = owner # NoName,
     !.owner = owner,
     !.pending = IF l.kind = "pend" THEN l.name ELSE NoName]

ReadLine(s, l) ==
  IF l.kind = "blank" THEN s
  ELSE IF s.block THEN ReadInner(s, l) ELSE ReadOuter(s, l)

(* After each line, when the lines before f have left the reader at s.     *)
ReadFrom(s, f) ==
  LET read[i \in 0..Len(f)] == IF i = 0 THEN s ELSE ReadLine(read[i - 1], f[i]) IN
  read

Read(f) == ReadFrom(Start, f)[Len(f)]

(* What load_config publishes, and whether it has counted a failure.       *)
Rules(f) == Read(f).rules
Clean(f) == LET s == Read(f) IN s.clean /\ ~s.block /\ s.pending = NoName

(* The CPUs of a package (thread NoName) or of a thread of it: all rules   *)
(* of the same name count together, {} when there is none.                 *)
Affinity(f) ==
  LET rules == Rules(f) IN
  [p \in Names |-> [t \in Names \cup {NoName} |->
     UNION {r.cpus : r \in {r \in rules : r.pkg = p /\ r.thread = t}}]]
=============================================================================
