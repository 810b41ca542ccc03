------------------------------- MODULE CpuSet --------------------------------
(***************************************************************************)
(* CPU sets (cpuset.rs): the text a set is written as, which is also the   *)
(* name of its cpuset directory, how such texts and the specifications of  *)
(* rules are read, and the tiers of cores.  A set of CPUs is the set of    *)
(* their numbers; its words matter where they are looked at one by one.    *)
(* A text is the sequence of its parts between commas; a part is <<n>>, or *)
(* <<lo, hi>> with a dash, or the name of a tier.                          *)
(***************************************************************************)
EXTENDS Integers, Sequences, SequencesExt

CONSTANTS
  WordBits,     \* CPU_WORD_BITS
  CpuWords,     \* CPU_WORDS
  Junk          \* a number that does not parse

ASSUME WordsAssumption == WordBits \in Nat \ {0} /\ CpuWords \in Nat \ {0}
ASSUME JunkAssumption == Junk \in Int \ Nat

SetSize == WordBits * CpuWords
Cpus == 0..SetSize - 1
Word(i) == i * WordBits..(i + 1) * WordBits - 1

-----------------------------------------------------------------------------
(* A fold over numbers, the lowest first.                                  *)
Ascending(op(_, _), base, S) ==
  MapThenFoldSet(LAMBDA n, r : op(r, n), base, LAMBDA n : n, Max, S)

(* to_range_string.  open is the range being extended, <<>> when there is  *)
(* none.                                                                   *)

(* push_range                                                              *)
Push(r) ==
  IF r.open = <<>> THEN r
  ELSE [out |-> Append(r.out, IF r.open[1] = r.open[2] THEN <<r.open[1]>> ELSE r.open),
        open |-> <<>>]

(* Mutant: a range ends with its word.                                     *)
ExtendsInWord(r, cpu) ==
  r.open # <<>> /\ cpu = r.open[2] + 1 /\ cpu % WordBits # 0

Extends(r, cpu) == r.open # <<>> /\ cpu = r.open[2] + 1

AddCpu(r, cpu) ==
  IF Extends(r, cpu) THEN [r EXCEPT !.open[2] = cpu]
  ELSE [Push(r) EXCEPT !.open = <<cpu, cpu>>]

AddCpus(r, bits) == Ascending(AddCpu, r, bits)

AddWord(S, r, i) ==
  LET bits == S \cap Word(i) IN
  IF bits = {} THEN Push(r) ELSE AddCpus(r, bits)

AddWords(S) ==
  Ascending(LAMBDA r, i : AddWord(S, r, i), [out |-> <<>>, open |-> <<>>], 0..CpuWords - 1)

ToRangeString == [S \in SUBSET Cpus |-> Push(AddWords(S)).out]

-----------------------------------------------------------------------------
(* parse_cpu_ranges: a first number that is none skips the part, a second  *)
(* one that is none counts as the first, the two may be in either order.   *)

PartCpus(part) ==
  LET a == part[1]
      b == IF part[Len(part)] = Junk THEN a ELSE part[Len(part)] IN
  IF a = Junk THEN {} ELSE Cpus \cap (a..b \cup b..a)

ParseCpuRanges(text, present) ==
  (UNION {PartCpus(text[i]) : i \in DOMAIN text}) \cap present

(* parse_cpu_spec.  A part is [tier, range], the one that it is not empty. *)
Tiers == {"e-core", "p-core", "hp-core", "all-core"}

ParseCpuSpec(spec, topo) ==
  UNION {IF spec[i].tier \in Tiers THEN topo[spec[i].tier]
         ELSE ParseCpuRanges(<<spec[i].range>>, topo["all-core"]) : i \in DOMAIN spec}

(* detect_core_types: the lowest frequency, the highest if it is another,  *)
(* and what is between.  policies: those with a frequency and CPUs.        *)
DetectCoreTypes(policies) ==
  LET of(S) == UNION {p.cpus : p \in S}
      slowest == {p \in policies : \A q \in policies : p.freq <= q.freq}
      fastest == {p \in policies : \A q \in policies : p.freq >= q.freq} \ slowest IN
  ("e-core" :> of(slowest)) @@ ("hp-core" :> of(fastest))
    @@ ("p-core" :> of(policies \ (slowest \cup fastest)))

-----------------------------------------------------------------------------
(* A set is the one its text is read as, whichever end of a range comes    *)
(* first, and no two ranges of a text touch.                               *)
EveryTextReadsBack ==
  \A S \in SUBSET Cpus :
    LET text == ToRangeString[S] IN
    /\ ParseCpuRanges(text, Cpus) = S
    /\ ParseCpuRanges([i \in DOMAIN text |-> Reverse(text[i])], Cpus) = S
    /\ \A i \in 1..Len(text) - 1 : text[i][Len(text[i])] + 1 < text[i + 1][1]
=============================================================================
