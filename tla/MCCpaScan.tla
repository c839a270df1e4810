----------------------------- MODULE MCCpaScan -----------------------------
(* Instances of CpaScan for TLC. *)
EXTENDS CpaScan, TLC

CONSTANTS a, b, t1, t2

MCItems      == {a, b}
MCThreads    == {t1, t2}
MCSelections == {{a, b}}
Symmetry     == Permutations(MCThreads) \cup Permutations(MCItems)

(* The properties promise nothing once two scans have overlapped: states after *)
(* that point are not explored by the runs that check them.                   *)
Serial == ~overlapped
=============================================================================
