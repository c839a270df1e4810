---------------------------- MODULE MCCpaAccount ----------------------------
(* Instances of CpaAccount for TLC. *)
EXTENDS CpaAccount

(* A file fresh from registration, one disabled by hand, and managed ones. *)
MCStartFiles == {f \in NewFiles : f.priority = 0}
                \cup {f \in ManagedFiles : f.mark \in {"main", "quarantine"}}

(* At most this many scans, rounds and manual actions together. *)
MaxTurns == 5
Unused == left["scan"] + left["gov"] + left["op"]

(* Most properties promise less after a race, and some after a lost change:     *)
(* such states are explored only until the scheduler or the operator has used   *)
(* its turns up, or the scan all but one.                                       *)
Bounds ==
  /\ MaxProbes + MaxRounds + MaxManual - Unused <= MaxTurns
  /\ raced \/ undone \/ cut => left["scan"] > 1 /\ left["gov"] > 0 /\ left["op"] > 0
=============================================================================
