----------------------------- MODULE MCRuleEdit -----------------------------
(* Small files for RuleEdit.  The spec on the i-th line is the set {i}, so *)
(* that no two rules of a file have the same CPUs.                         *)
EXTENDS RuleEdit, TLC

CONSTANTS Length, Entered

Filled(lines) ==
  [i \in DOMAIN lines |->
     IF lines[i].cpus = {} THEN lines[i] ELSE [lines[i] EXCEPT !.cpus = {i}]]

Rule(n) == RuleLine(n, {1})
OneLine(p, n) == [Rule(p) EXCEPT !.kind = "single", !.thread = n]
Opening(l) == [l EXCEPT !.open = TRUE]
Closing(l) == [l EXCEPT !.closed = TRUE]
Noted(l) == [l EXCEPT !.note = TRUE]
Owned == Pkgs \cup Threads

(* Every file of up to Length lines, whatever they say.                    *)
AnyLines ==
  UNION {{Rule(n), Opening(Rule(n)), Closing(Rule(n)), Noted(Rule(n)), RuleLine(n, {})} :
           n \in Owned}
    \cup UNION {{OneLine(p, n), Opening(OneLine(p, n)), Closing(OneLine(p, n)),
                 Opening(Closing(OneLine(p, n)))} : p \in Pkgs, n \in Threads}
    \cup {BareOpen(n) : n \in Pkgs \cup {NoName}}
    \cup {Text("pend", p) : p \in Pkgs}
    \cup {CloseLine}

(* And those one line longer in which a brace can come to stand behind a   *)
(* name that it did not belong to.                                         *)
BraceLines ==
  {Rule(n) : n \in Owned} \cup {Text("pend", p) : p \in Pkgs} \cup {BareOpen(NoName)}
BraceFiles == [1..Length + 1 -> BraceLines]
MCAnyFiles == {Filled(f) : f \in BoundedSeq(AnyLines, Length) \cup BraceFiles}

CleanFiles == {f \in MCAnyFiles : Clean(f)}

(* Broken by a brace behind a single line only.                            *)
ShutFiles == {f \in MCAnyFiles : ~Trap(f) /\ ~Stray(f)}

(* The files the format is meant for: up to two entries of packages, each  *)
(* a rule, a thread rule or a block in one of the ways to write it.        *)
Heads(p) ==
  {<<Opening(Rule(p))>>, <<Noted(Opening(Rule(p)))>>, <<BareOpen(p)>>,
   <<Text("pend", p), BareOpen(NoName)>>}
    \cup {<<Opening(OneLine(p, n))>> : n \in Threads}
Bodies ==
  {<<CloseLine>>}
    \cup {<<Rule(n), CloseLine>> : n \in Owned}
    \cup {<<Closing(Rule(n))>> : n \in Threads}
    \cup {<<Rule(m), Noted(Closing(Rule(n)))>> : m, n \in Threads}
Entries ==
  UNION {{<<Rule(p)>>} \cup {<<OneLine(p, n)>> : n \in Threads}
           \cup {h \o b : h \in Heads(p), b \in Bodies} : p \in Pkgs}
MCFiles ==
  {f \in {Filled(d \o e) : d, e \in Entries \cup {<<>>}} : Len(f) <= Entered /\ Tidy(f)}

MCCpus == 1..10
MCSpecs == {{10}}
Symmetry == Permutations(Pkgs)
=============================================================================
