--------------------------- MODULE MCRegisterJob ---------------------------
(* Instances of RegisterJob for TLC. *)
EXTENDS RegisterJob

CONSTANTS j1, j2

\* One job: two more accounts with mint workers, or a ledger of one, minted inline.
OneJob     == {j1}
AllOptions == {[extra |-> TRUE, n |-> 2, inline |-> FALSE],
               [extra |-> FALSE, n |-> 1, inline |-> TRUE]}

\* Two jobs of one account each.
TwoJobs   == {j1, j2}
OneOption == {[extra |-> TRUE, n |-> 1, inline |-> FALSE]}
=============================================================================
