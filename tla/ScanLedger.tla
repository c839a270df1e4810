----------------------------- MODULE ScanLedger -----------------------------
(***************************************************************************)
(* What the persisted state of the account-pool scan promises to a reader   *)
(* that sees the files only, for instance a service that has just           *)
(* restarted: at most one scan is open, its completed accounts are never    *)
(* forgotten while it is open, whatever crashes, and a scan that has been   *)
(* closed or replaced is never opened again.                                *)
(***************************************************************************)
EXTENDS Naturals

VARIABLES
  current,    \* the open scan, or 0
  completed,  \* the accounts that need no further probe in it
  last        \* the scan opened last

vars == <<current, completed, last>>

Init == current = 0 /\ completed = {} /\ last = 0

\* A scan that is closed before it is first written only leaves its id.
Open ==
  /\ last' > last /\ current' \in {0, last'}
  /\ completed' = {}

Checkpoint ==
  /\ current # 0
  /\ completed \subseteq completed'
  /\ UNCHANGED <<current, last>>

Close ==
  /\ current # 0
  /\ current' = 0 /\ completed' = {}
  /\ UNCHANGED last

Next == Open \/ Checkpoint \/ Close

Spec == Init /\ [][Next]_vars
=============================================================================
