----------------------------- MODULE CpaAccount -----------------------------
(***************************************************************************)
(* The life of one account of the CPA pool: its row in the pool database,   *)
(* its auth file, and the three actors of CpaPoolMonitor                    *)
(* (src/webui/cpa_pool.py) that change them without a common lock:          *)
(*   "scan"  the scan thread, which probes the account and governs it;      *)
(*   "gov"   the scheduler, which repairs drift and rebalances the tiers    *)
(*           (the scan thread rebalances too, after its last account);      *)
(*   "op"    the operator, who enables, disables, quarantines or restores.  *)
(* Each reads the row, works on its copy, and later writes the whole copy   *)
(* back.  The scan does the same to the file: a probe that refreshes the    *)
(* token writes back the whole payload it loaded before it asked upstream.  *)
(* The process may die, and a write may fail, between any two steps.  The   *)
(* management API is not configured (the default), so schedules are put     *)
(* into effect by patching the auth file.                                   *)
(***************************************************************************)
EXTENDS CpaHealth

CONSTANTS
  StartFiles,  \* the auth files an account may start with
  MaxProbes,   \* bound: times the account is listed by a scan
  MaxRounds,   \* bound: times the scheduler picks the account
  MaxManual    \* bound: actions of the operator

\* A file that a registration or an import has just written, or one that an
\* earlier installation has managed.
NewFiles ==
  [place : {"active"}, disabled : BOOLEAN, priority : {0, MAIN_PRIORITY},
   managed : {FALSE}, mark : {""}, cool : {"none"}]
ManagedFiles ==
  {[place |-> "active", disabled |-> m \notin Enabled, priority |-> OBSERVE_PRIORITY,
    managed |-> TRUE, mark |-> m, cool |-> IF m = "cooling" THEN "past" ELSE "none"] :
      m \in Tiers}

ASSUME StartAssumption  == StartFiles \subseteq NewFiles \cup ManagedFiles
ASSUME RoundsAssumption == MaxProbes \in Nat /\ MaxRounds \in Nat /\ MaxManual \in Nat

Actors == {"scan", "gov", "op"}

VARIABLES
  db,       \* the account's row: PoolStateDB, table account_state
  file,     \* the auth file
  at,       \* where each actor is; "idle" when it holds no copy
  mine,     \* the copy of the row each actor works on
  taken,    \* the payload the scan's probe has loaded from the file
  row,      \* what the scan's probe reported
  intent,   \* what the operator asked for
  left,     \* bound: how often each actor may still begin
  \* history variables, read by properties only
  raced,    \* have two actors held copies of the row at the same time?
  undone,   \* has a refreshed payload been written over a change of the file?
  cut,      \* has a row never been written whose file had been changed?
  off,      \* has the operator disabled the account, and not enabled it since?
  seen      \* the evidence: failures since the last success, and the last rows

histories == <<raced, undone, cut, off, seen>>
vars == <<db, file, at, mine, taken, row, intent, left, histories>>

\* The auth file, as far as governance reads it.  The mark is the tier in its
\* _cpa_pool section, or the status when there is no tier.
Files == [place : {"active", "quarantine"}, disabled : BOOLEAN,
          priority : Priorities \cup {0}, managed : BOOLEAN,
          mark : Tiers \cup {""}, cool : {"none", "future", "past"}]

\* What taken and row are while no probe has anything in its hands.
NoPayload == [place |-> "quarantine", disabled |-> FALSE, priority |-> 0,
              managed |-> FALSE, mark |-> "", cool |-> "none"]
NoRow == Row("ok", "")

NoEvidence == [failures |-> 0, rejected |-> FALSE, marked |-> FALSE,
               last |-> "", run |-> 0]
\* What is left of it when the operator enables or restores the account.
Cleared(e) == [e EXCEPT !.failures = 0, !.rejected = FALSE, !.marked = FALSE]
JudgedTiers == {"quarantine", "malformed"}

\* While the scan probes the account, it has no copy of the row yet.
NoCopy == {"idle", "listed", "loaded", "refreshed", "probed"}
Holding(p) == at[p] \notin NoCopy
Step(p, from, to) == at[p] = from /\ at' = [at EXCEPT ![p] = to]
\* The actor is done with the account, and forgets its copy.
Leave(p, from) == Step(p, from, "idle") /\ mine' = [mine EXCEPT ![p] = default_state]
\* Reading the row starts an actor's hold on it.
Read(p) == /\ mine' = [mine EXCEPT ![p] = db]
           /\ raced' = (raced \/ \E q \in Actors \ {p} : Holding(q))

\* The priority a file has been given, or p.
RawPriority(f, p) == f.priority                    \* mutant: p is forgotten
OwnPriority(f, p) == IF f.priority = 0 THEN p ELSE f.priority

-----------------------------------------------------------------------------
(***************************************************************************)
(* Taking an auth file into the inventory: _bootstrap_inventory_state, for  *)
(* a row that has never been checked.  A managed file brings its tier along.*)
(***************************************************************************)
Bootstrap(s, f) ==
  LET known == [s EXCEPT !.actual = InEffect(f.priority, f.disabled)]
      managed == [known EXCEPT !.manual = f.mark = "manual_disabled",
                               !.eligible = f.mark # "manual_disabled",
                               !.cool = IF f.cool # "none" THEN f.cool ELSE @]
      byHand == [known EXCEPT !.tier = "manual_disabled", !.disabled = TRUE,
                              !.priority = OwnPriority(f, OBSERVE_PRIORITY),
                              !.manual = TRUE, !.eligible = FALSE]
  IN  IF s.health # "unchecked" THEN s
      ELSE IF f.managed /\ f.mark # ""
           THEN IF f.mark \in Enabled THEN Route(managed, f.mark) ELSE Shut(managed, f.mark)
      ELSE IF f.disabled THEN byHand
      ELSE [Route(known, "reserve") EXCEPT !.eligible = FALSE]

ScanList ==
  /\ Step("scan", "idle", "listed")
  /\ left["scan"] > 0 /\ left' = [left EXCEPT !["scan"] = @ - 1]
  /\ file.place = "active"
  /\ db' = Bootstrap(db, file)
  /\ raced' = (raced \/ (db' # db /\ \E q \in Actors : Holding(q)))
  /\ off' = (off /\ db' = db)
  /\ seen' = IF db' = db THEN seen ELSE [seen EXCEPT !.marked = db'.tier \in JudgedTiers]
  /\ UNCHANGED <<file, mine, taken, row, intent, undone, cut>>

\* What _scan_one reports without asking upstream: the file has gone, or it says
\* that it is not to be asked about.
Local ==
  IF file.place # "active" THEN {Row("malformed", "definitive")}
  ELSE IF file.disabled /\ file.managed /\ file.cool = "future" THEN {Row("cooling", "")}
  ELSE IF file.disabled
          /\ ~(file.managed /\ (file.cool = "past" \/ file.mark \in {"candidate", "observe"}))
       THEN {Row("disabled", "")}
  ELSE {}

Verdict ==
  /\ Step("scan", "listed", "probed")
  /\ row' \in Local
  /\ UNCHANGED <<db, file, mine, taken, intent, left, histories>>

Load ==
  /\ Step("scan", "listed", "loaded")
  /\ Local = {}
  /\ taken' = file
  /\ UNCHANGED <<db, file, mine, row, intent, left, histories>>

\* refresh_auth_file, before the probe or after a 401, once at most: the payload
\* loaded then is written back with new tokens, whatever the file says by now
\* and whether or not it is still there.
Refresh ==
  /\ Step("scan", "loaded", "refreshed")
  /\ file' = taken
  /\ undone' = (undone \/ taken # file)
  /\ UNCHANGED <<db, mine, taken, row, intent, left, raced, cut, off, seen>>

\* Upstream has answered, or could not be asked.
Probe ==
  /\ \E asked \in {"loaded", "refreshed"} : Step("scan", asked, "probed")
  /\ row' \in Rows \ {Row("cooling", ""), Row("disabled", "")}
  /\ taken' = NoPayload
  /\ UNCHANGED <<db, file, mine, intent, left, histories>>

\* The scan is stopped: its workers finish their probes, and nobody reads them.
Unread ==
  /\ Step("scan", "probed", "idle") /\ row' = NoRow
  /\ UNCHANGED <<db, file, mine, taken, intent, left, histories>>

\* _update_health_state reads the row ...
ScanRead ==
  /\ Step("scan", "probed", "update")
  /\ Read("scan")
  /\ UNCHANGED <<db, file, taken, row, intent, left, undone, cut, off, seen>>

\* "cooling" and "disabled" are read off the file and observe nothing.
Observes == row.status \notin {"cooling", "disabled"}
Failing  == Observes /\ row.status \notin Neutral \cup {"ok"}
\* ... and writes what the observation makes of it.
ScanWrite ==
  /\ Step("scan", "update", "govern")
  /\ mine' = [mine EXCEPT !["scan"] = Updated(@, row)]
  /\ db' = mine'["scan"]
  /\ seen' = IF ~Observes THEN seen ELSE
       [failures |-> IF row.status = "ok" THEN 0
                     ELSE IF Failing THEN Up(seen.failures) ELSE seen.failures,
        rejected |-> row.note = "definitive" \/ (seen.rejected /\ row.status # "ok"),
        marked   |-> seen.marked /\ db'.tier \in JudgedTiers,
        last     |-> row.status,
        run      |-> IF row.status = seen.last THEN Up(seen.run) ELSE 1]
  /\ UNCHANGED <<file, taken, row, intent, left, raced, undone, cut, off>>

(***************************************************************************)
(* _apply_policy, after the update.                                         *)
(***************************************************************************)
Unsettled == {"transient_error", "request_error", "no_grok45"}
LeftAloneUnlessManual(s) ==              \* mutant: the operator is not asked
  \/ ~s.eligible
  \/ row.status = "upstream_busy"
  \/ row.status \in Unsettled /\ s.tier # "observe"
LeftAlone(s) ==
  \/ s.manual \/ ~s.eligible
  \/ row.status = "upstream_busy"
  \/ row.status \in Unsettled /\ s.tier # "observe"
ToQuarantine(s) == s.tier \in JudgedTiers

\* The account is left alone: by policy, by an open breaker, by the limit on
\* downgrades, or because its file is gone.
Spare ==
  /\ Leave("scan", "govern")
  /\ UNCHANGED <<db, file, taken, row, intent, left, histories>>

Isolate ==
  /\ ~LeftAlone(mine["scan"]) /\ ToQuarantine(mine["scan"])
  /\ file.place = "active"
  /\ Step("scan", "govern", "finish")
  /\ file' = [file EXCEPT !.place = "quarantine"]
  /\ mine' = [mine EXCEPT !["scan"].actual = InEffect(OBSERVE_PRIORITY, TRUE)]
  /\ UNCHANGED <<db, taken, row, intent, left, histories>>

Govern ==
  /\ ~LeftAlone(mine["scan"]) /\ ~ToQuarantine(mine["scan"])
  /\ Step("scan", "govern", "reconcile")
  /\ UNCHANGED <<db, file, mine, taken, row, intent, left, histories>>

(***************************************************************************)
(* _reconcile_schedule_state, on behalf of the scan or the scheduler.       *)
(***************************************************************************)
InForce(s) == s.actual = InEffect(s.priority, s.disabled)
ByHand(s) == file.disabled /\ ~file.managed /\ ~s.disabled

\* Nothing to do, nothing to do it to, too many downgrades, or a failed write.
NotPatched(p) ==
  /\ Leave(p, "reconcile")
  /\ UNCHANGED <<db, file, taken, row, intent, left, histories>>

Patch(p) ==
  /\ ~InForce(mine[p]) /\ file.place = "active"
  /\ Step(p, "reconcile", "finish")
  /\ IF ByHand(mine[p])
     THEN /\ mine' = [mine EXCEPT ![p].manual = TRUE]
          /\ UNCHANGED file
     ELSE /\ file' = [file EXCEPT
                        !.priority = mine[p].priority, !.disabled = mine[p].disabled,
                        !.managed = TRUE, !.mark = mine[p].tier,
                        !.cool = IF mine[p].disabled THEN mine[p].cool ELSE "none"]
          /\ mine' = [mine EXCEPT ![p].actual = InEffect(mine[p].priority, mine[p].disabled)]
  /\ UNCHANGED <<db, taken, row, intent, left, histories>>

Finish(p) ==
  /\ Leave(p, "finish")
  /\ db' = mine[p]
  /\ UNCHANGED <<file, taken, row, intent, left, histories>>

-----------------------------------------------------------------------------
(***************************************************************************)
(* The scheduler: _reconcile_drift and _rebalance_tiers.                    *)
(***************************************************************************)
GovRead ==
  /\ Step("gov", "idle", "choose")
  /\ left["gov"] > 0 /\ left' = [left EXCEPT !["gov"] = @ - 1]
  /\ file.place = "active"
  /\ Read("gov")
  /\ UNCHANGED <<db, file, taken, row, intent, undone, cut, off, seen>>

GovDrift ==
  /\ ~mine["gov"].manual /\ mine["gov"].eligible /\ ~InForce(mine["gov"])
  /\ Step("gov", "choose", "reconcile")
  /\ UNCHANGED <<db, file, mine, taken, row, intent, left, histories>>

\* Promotion below the target, demotion above it.  Unlike the other paths it
\* does not ask whether the operator has taken the account in hand.
GovRebalance ==
  /\ mine["gov"].health = "healthy" /\ ~mine["gov"].disabled
  /\ mine["gov"].tier \in ROUTABLE_TIERS
  /\ Step("gov", "choose", "reconcile")
  /\ mine' = [mine EXCEPT !["gov"] =
                Route(@, IF @.tier = "main" THEN "reserve" ELSE "main")]
  /\ db' = mine'["gov"]
  /\ off' = FALSE
  /\ UNCHANGED <<file, taken, row, intent, left, raced, undone, cut, seen>>

GovNothing ==
  /\ Leave("gov", "choose")
  /\ UNCHANGED <<db, file, taken, row, intent, left, histories>>

(***************************************************************************)
(* The operator: manual_action and restore_quarantine.                      *)
(***************************************************************************)
OpStart ==
  /\ Step("op", "idle", "file")
  /\ left["op"] > 0 /\ left' = [left EXCEPT !["op"] = @ - 1]
  /\ intent' \in IF file.place = "active" THEN {"enable", "disable", "quarantine"}
                 ELSE {"restore"}
  /\ Read("op")
  /\ UNCHANGED <<db, file, taken, row, undone, cut, off, seen>>

OpEnable ==
  /\ intent = "enable" /\ file.place = "active"
  /\ file' = [file EXCEPT !.disabled = FALSE,
                          !.cool = IF file.managed THEN "none" ELSE file.cool]
  /\ mine' = [mine EXCEPT !["op"] =
       [@ EXCEPT !.tier = "reserve", !.disabled = FALSE, !.manual = TRUE,
                 !.priority = OwnPriority(file, RESERVE_PRIORITY),
                 !.actual.disabled = FALSE]]
  /\ off' = FALSE

OpDisableFileOnly ==    \* mutant: the row keeps what was in effect before
  /\ intent = "disable" /\ file.place = "active"
  /\ file' = [file EXCEPT !.disabled = TRUE, !.managed = TRUE,
                          !.mark = IF @ = "" THEN "manual_disabled" ELSE @]
  /\ mine' = [mine EXCEPT !["op"] =
       [@ EXCEPT !.tier = "manual_disabled", !.disabled = TRUE, !.manual = TRUE]]
  /\ UNCHANGED off

OpDisable ==
  /\ intent = "disable" /\ file.place = "active"
  /\ file' = [file EXCEPT !.disabled = TRUE, !.managed = TRUE,
                          !.mark = IF @ = "" THEN "manual_disabled" ELSE @]
  /\ mine' = [mine EXCEPT !["op"] =
       [@ EXCEPT !.tier = "manual_disabled", !.disabled = TRUE, !.manual = TRUE,
                 !.actual.disabled = TRUE]]
  /\ UNCHANGED off

OpQuarantine ==
  /\ intent = "quarantine" /\ file.place = "active"
  /\ file' = [file EXCEPT !.place = "quarantine"]
  /\ mine' = [mine EXCEPT !["op"] =
       [@ EXCEPT !.tier = "quarantine", !.disabled = TRUE, !.manual = TRUE,
                 !.actual.disabled = TRUE]]
  /\ off' = FALSE

OpRestore ==
  /\ intent = "restore" /\ file.place = "quarantine"
  /\ file' = [place |-> "active", disabled |-> TRUE, priority |-> OBSERVE_PRIORITY,
              managed |-> TRUE, mark |-> "candidate", cool |-> "none"]
  /\ mine' = [mine EXCEPT !["op"] =
       [default_state EXCEPT !.health = "other",
                             !.actual = InEffect(OBSERVE_PRIORITY, TRUE)]]
  /\ off' = FALSE

OpFile ==
  /\ Step("op", "file", "finish")
  /\ OpEnable \/ OpDisable \/ OpQuarantine \/ OpRestore
  /\ UNCHANGED <<db, taken, row, intent, left, raced, undone, cut, seen>>

\* The file has moved in the meantime, or cannot be written: an error is reported.
OpGone ==
  /\ Leave("op", "file")
  /\ UNCHANGED <<db, file, taken, row, intent, left, histories>>

OpWrite ==
  /\ Leave("op", "finish")
  /\ db' = mine["op"]
  /\ off' = (off \/ intent = "disable")
  /\ seen' = IF intent \in {"enable", "restore"} THEN Cleared(seen) ELSE seen
  /\ UNCHANGED <<file, taken, row, intent, left, raced, undone, cut>>

-----------------------------------------------------------------------------
(***************************************************************************)
(* Faults: a row that cannot be written, and the death of the process.      *)
(***************************************************************************)
\* The actor's file is changed; its row would have been written next.
Unwritten(p) == at[p] = "finish"

\* upsert_account raises: the scan ends, the tick ends, the operator is told.
WriteFails(p) ==
  /\ Leave(p, "update") \/ Leave(p, "finish")
  /\ cut' = (cut \/ Unwritten(p))
  /\ UNCHANGED <<db, file, taken, row, intent, left, raced, undone, off, seen>>

\* The row and the file are all that outlives the process.
Crash ==
  /\ \E p \in Actors : at[p] # "idle"
  /\ at' = [p \in Actors |-> "idle"] /\ mine' = [p \in Actors |-> default_state]
  /\ taken' = NoPayload /\ row' = NoRow
  /\ cut' = (cut \/ \E p \in Actors : Unwritten(p))
  /\ UNCHANGED <<db, file, intent, left, raced, undone, off, seen>>

\* A cool-down ends.
CoolPasses ==
  LET past(x) == IF x.cool = "future" THEN [x EXCEPT !.cool = "past"] ELSE x IN
  /\ db' = past(db) /\ file' = past(file) /\ taken' = past(taken)
  /\ mine' = [p \in Actors |-> past(mine[p])]
  /\ <<db', file', taken', mine'>> # <<db, file, taken, mine>>
  /\ UNCHANGED <<at, row, intent, left, histories>>

-----------------------------------------------------------------------------
Init ==
  /\ db = default_state /\ file \in StartFiles
  /\ at = [p \in Actors |-> "idle"] /\ mine = [p \in Actors |-> default_state]
  /\ taken = NoPayload /\ row = NoRow /\ intent = "enable"
  /\ left = [p \in Actors |-> CASE p = "scan" -> MaxProbes
                               [] p = "gov" -> MaxRounds [] p = "op" -> MaxManual]
  /\ raced = FALSE /\ undone = FALSE /\ cut = FALSE /\ off = FALSE /\ seen = NoEvidence

Scan == \/ ScanList \/ Verdict \/ Load \/ Refresh \/ Probe \/ Unread
        \/ ScanRead \/ ScanWrite
        \/ Spare \/ Isolate \/ Govern
Gov  == GovRead \/ GovDrift \/ GovRebalance \/ GovNothing
Op   == OpStart \/ OpFile \/ OpGone \/ OpWrite

Next == \/ Scan \/ Gov \/ Op \/ CoolPasses \/ Crash
        \/ \E p \in Actors : WriteFails(p)
        \/ \E p \in {"scan", "gov"} : NotPatched(p) \/ Patch(p) \/ Finish(p)

Spec == Init /\ [][Next]_vars

-----------------------------------------------------------------------------
(***************************************************************************)
(* Properties.                                                              *)
(***************************************************************************)
Schedule(s) ==
  /\ s.disabled <=> s.tier \notin Enabled
  /\ s.manual \/ s.priority = (IF s.tier = "main" THEN MAIN_PRIORITY
                               ELSE IF s.tier = "reserve" THEN RESERVE_PRIORITY
                               ELSE OBSERVE_PRIORITY)

Stages == {"idle", "listed", "loaded", "refreshed", "probed", "update", "govern", "reconcile",
           "finish", "choose", "file"}
Seen == [failures : 0 .. MaxStreak, rejected : BOOLEAN, marked : BOOLEAN,
         last : {r.status : r \in Rows} \cup {""}, run : 0 .. MaxStreak]

\* Types of the row, its copies, the file and the actors.
TypeOK ==
  /\ db \in States /\ file \in Files
  /\ at \in [Actors -> Stages] /\ mine \in [Actors -> States]
  /\ taken \in Files /\ row \in Rows /\ intent \in {"enable", "disable", "quarantine", "restore"}
  /\ left \in [Actors -> Nat]
  /\ raced \in BOOLEAN /\ undone \in BOOLEAN /\ cut \in BOOLEAN /\ off \in BOOLEAN
  /\ seen \in Seen

\* The tier of a row and its schedule agree, in the database and in every copy,
\* however the actors race: whole rows are written back, never single columns.
TierMatchesSchedule == Schedule(db) /\ \A p \in Actors : Schedule(mine[p])

\* What the operator has disabled stays disabled: no probe result and no drift
\* repair enables the file again, and no crash does.  Two paths are left out, see
\* README.md: a rebalance, and taking the file into the inventory again.  And it
\* holds only until a refresh writes a payload back over a change of the file: the
\* one that was loaded before the operator came enables the account again.
OperatorDisableHolds ==
  off => raced \/ undone \/ file.disabled \/ file.place = "quarantine"

\* The scan moves a file to the quarantine directory only on evidence: a
\* rejection of the credentials that is definitive in itself, two failures since
\* the last success, or the mark of an earlier judgement on the file, as long as
\* the row is in the tier that the inventory took over with it.  (It does so for a
\* file that an earlier installation has managed, and the first soft failure after
\* that isolates it.)  A crash between a change of the file and that of the row
\* takes nothing away from it, nor does an old payload that is written back.
QuarantineHasEvidence ==
  [][(at["scan"] = "govern" /\ at'["scan"] = "finish") =>
       raced \/ row.note = "definitive" \/ seen.failures >= 2 \/ seen.marked]_vars

\* Definitively rejected credentials keep an account from being routed until a
\* probe succeeds or the operator steps in, whatever is observed in between.
RejectedNotRouted ==
  seen.rejected => raced \/ db.manual \/ db.tier \notin ROUTABLE_TIERS

\* When nobody is at work on the account, what the row says is in effect is what
\* the file says; drift repair relies on it, as it never reads the file.  Three
\* things set the two at odds for good, and nothing repairs them: a race of two
\* actors, a refresh that writes an old payload over a change of the file, and a
\* crash or a failed write between the change of the file and that of the row.
ActualTruthful ==
  /\ ~raced /\ ~undone /\ ~cut
  /\ db.actual.known /\ file.place = "active" /\ \A p \in Actors : ~Holding(p)
  => db.actual = InEffect(file.priority, file.disabled)

\* An account that is out of rotation becomes main only after as many
\* successes in a row as recovery asks for.
RecoveryTakesSuccesses ==
  [][(at["scan"] = "update" /\ db.disabled /\ db'.tier = "main") =>
       raced \/ (seen'.last = "ok" /\ seen'.run >= RecoveryThreshold)]_vars

\* An account is isolated for a missing model only after as many such results
\* in a row as the threshold says: config.example.json promises it of every
\* threshold.
IsolationNeedsRun ==
  [][(at["scan"] = "update" /\ row.status = "no_grok45"
       /\ db.tier # "quarantine" /\ db'.tier = "quarantine") =>
       seen'.run >= NoModelThreshold]_vars
=============================================================================
