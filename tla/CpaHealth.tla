----------------------------- MODULE CpaHealth -----------------------------
(***************************************************************************)
(* The health of one account of the CPA pool, as a function: what one       *)
(* observation does to the stored state of an account.                      *)
(* src/webui/cpa_health.py (transition_state) and its caller                *)
(* _update_health_state in src/webui/cpa_pool.py.                           *)
(*                                                                          *)
(* Times are abstracted: a failure is "spaced" when it comes at least the   *)
(* independent-failure interval after the last one that was counted, and a  *)
(* cool-down is in the future or in the past.  Streaks saturate at          *)
(* MaxStreak, above every threshold they are compared with.                 *)
(***************************************************************************)
EXTENDS Naturals

CONSTANTS
  RecoveryThreshold,   \* successes before an account is routed again
  NoModelThreshold,    \* failures before a missing model isolates an account
  TransientThreshold,  \* spaced transient failures before it is only observed
  MaxStreak            \* bound: where streaks saturate

ASSUME ThresholdsAssumption ==
  /\ MaxStreak \in Nat /\ MaxStreak >= 2
  /\ RecoveryThreshold  \in 1 .. MaxStreak
  /\ NoModelThreshold   \in 1 .. MaxStreak
  /\ TransientThreshold \in 1 .. MaxStreak

MAIN_PRIORITY    == 100
RESERVE_PRIORITY == 50
OBSERVE_PRIORITY == 10
Priorities == {MAIN_PRIORITY, RESERVE_PRIORITY, OBSERVE_PRIORITY}

ROUTABLE_TIERS     == {"main", "reserve"}
NON_ROUTABLE_TIERS == {"candidate", "observe", "cooling", "quarantine",
                       "malformed", "manual_disabled"}
Tiers == ROUTABLE_TIERS \cup NON_ROUTABLE_TIERS
\* An observed account stays enabled, at the lowest priority.
Enabled == ROUTABLE_TIERS \cup {"observe"}

\* What is known to be in effect for an account: nothing, or a schedule.
Unknown   == [known |-> FALSE, priority |-> 0, disabled |-> TRUE]
InEffect(p, d) == [known |-> TRUE, priority |-> p, disabled |-> d]
Actuals   == [known : BOOLEAN, priority : Priorities \cup {0}, disabled : BOOLEAN]

States == [tier : Tiers, priority : Priorities, disabled : BOOLEAN,
           health : {"unchecked", "healthy", "other"},
           failures : 0 .. MaxStreak, independent : 0 .. MaxStreak,
           successes : 0 .. MaxStreak, failedBefore : BOOLEAN,
           manual : BOOLEAN, eligible : BOOLEAN,
           cool : {"none", "future", "past"}, actual : Actuals]

default_state ==
  [tier |-> "candidate", priority |-> OBSERVE_PRIORITY, disabled |-> TRUE,
   health |-> "unchecked", failures |-> 0, independent |-> 0, successes |-> 0,
   failedBefore |-> FALSE, manual |-> FALSE, eligible |-> FALSE,
   cool |-> "none", actual |-> Unknown]

\* What a probe reports.  The note tells apart what transition_state does: a
\* busy upstream after a successful models request, a definitive rejection, a
\* failure spaced from the last one.
Row(s, n) == [status |-> s, note |-> n]
Rows ==
  {Row(s, "") : s \in {"ok", "request_error", "account_quota", "no_grok45", "cooling",
                       "disabled", "upstream_busy", "invalid_auth", "transient_error",
                       "soft_fail"}}
  \cup {Row("upstream_busy", "models_ok"), Row("invalid_auth", "definitive"),
        Row("malformed", "definitive"), Row("transient_error", "spaced"),
        Row("soft_fail", "spaced")}

Neutral == {"upstream_busy", "request_error"}   \* say nothing of the account

Up(n) == IF n < MaxStreak THEN n + 1 ELSE MaxStreak

Route(s, tier) ==
  [s EXCEPT !.tier = tier, !.disabled = FALSE,
            !.priority = IF tier = "main" THEN MAIN_PRIORITY
                         ELSE IF tier = "reserve" THEN RESERVE_PRIORITY
                         ELSE OBSERVE_PRIORITY]
Shut(s, tier) ==
  [s EXCEPT !.tier = tier, !.disabled = TRUE, !.priority = OBSERVE_PRIORITY]
Eligible(s) == [s EXCEPT !.eligible = TRUE]

-----------------------------------------------------------------------------
(***************************************************************************)
(* transition_state, one operator per group of statuses.                    *)
(***************************************************************************)

Success(s) ==
  LET n == Up(s.successes)
      h == [s EXCEPT !.health = "healthy", !.failures = 0, !.independent = 0,
                     !.successes = n, !.eligible = TRUE]
  IN  IF s.tier \in NON_ROUTABLE_TIERS /\ n < RecoveryThreshold
      THEN Shut(h, "candidate") ELSE Route(h, "main")

Inconclusive(s, row) ==
  LET h == [s EXCEPT !.health = "other", !.successes = 0]
  IN  IF row.note = "models_ok" /\ s.tier = "candidate" /\ ~s.manual
      THEN Eligible(Route(h, "reserve")) ELSE h

\* mutant: the run of successes goes on
FailedKeepsSuccesses(s) == [s EXCEPT !.health = "other", !.failures = Up(@)]
Failed(s) == [s EXCEPT !.health = "other", !.successes = 0, !.failures = Up(@)]

Quota(s) == [Eligible(Shut(Failed(s), "cooling")) EXCEPT !.cool = "future"]

\* mutant: the first rejection counts as definitive
RejectedAtOnce(s, row) ==
  Eligible(Shut(Failed(s), IF row.status = "malformed" THEN "malformed" ELSE "quarantine"))
Rejected(s, row) ==
  LET f == Failed(s) IN
  IF f.failures >= (IF row.note = "definitive" THEN 1 ELSE 2)
  THEN Eligible(Shut(f, IF row.status = "malformed" THEN "malformed" ELSE "quarantine"))
  ELSE Shut(f, "candidate")

DemotedAlways(s) == Eligible(Route(s, "reserve"))  \* mutant: any tier is
DemotedTierOnly(s) ==                              \* mutant: the schedule is left alone
  IF s.tier \in ROUTABLE_TIERS THEN [s EXCEPT !.tier = "reserve", !.eligible = TRUE] ELSE s
\* A routable account that fails is kept in reserve; another stays as it is.
Demoted(s) == IF s.tier \in ROUTABLE_TIERS THEN Eligible(Route(s, "reserve")) ELSE s

NoModel(s) ==
  LET f == Failed(s) IN
  IF f.failures >= NoModelThreshold THEN Eligible(Shut(f, "quarantine")) ELSE Demoted(f)

Transient(s, row) ==
  LET f == Failed(s)
      g == IF ~s.failedBefore \/ row.note = "spaced"
           THEN [f EXCEPT !.independent = Up(@), !.failedBefore = TRUE] ELSE f
  IN  IF g.independent >= TransientThreshold
      THEN Eligible(Route(g, "observe")) ELSE Demoted(g)

transition_state(s, row) ==
  CASE row.status = "ok"            -> Success(s)
    [] row.status \in Neutral       -> Inconclusive(s, row)
    [] row.status = "account_quota" -> Quota(s)
    [] row.status \in {"invalid_auth", "malformed"} -> Rejected(s, row)
    [] row.status = "no_grok45"     -> NoModel(s)
    [] OTHER                        -> Transient(s, row)

\* _update_health_state: two rows are not observations of the upstream.
Updated(s, row) ==
  CASE row.status = "cooling" ->
         [Eligible(Shut(s, "cooling")) EXCEPT !.health = "other"]
    [] row.status = "disabled" ->
         [s EXCEPT !.tier = "manual_disabled", !.disabled = TRUE, !.health = "other",
                   !.manual = TRUE, !.eligible = FALSE]
    [] OTHER -> transition_state(s, row)
=============================================================================
