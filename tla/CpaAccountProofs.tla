-------------------------- MODULE CpaAccountProofs --------------------------
(***************************************************************************)
(* Proofs about CpaAccount: its rows are well-typed, and no row, in the      *)
(* database or in the hands of an actor, ever says a tier and a schedule     *)
(* that disagree, however the actors race and wherever the process dies.     *)
(* Where no two actors have held copies of the row at once, rejected         *)
(* credentials are not routed and isolation and recovery have the evidence   *)
(* for them; and as long as no old payload has been written over a change of *)
(* the file either, what the operator has disabled stays so, and the row     *)
(* knows what its file says, unless a crash came between the two writes.     *)
(***************************************************************************)
EXTENDS CpaAccount, TLAPS

USE DEF histories

\* The rows whose tier and schedule agree.
Sound(s) == s \in States /\ Schedule(s)

-----------------------------------------------------------------------------
\* What the helpers of transition_state give.

LEMMA UpType == \A n \in 0 .. MaxStreak : Up(n) \in 0 .. MaxStreak
  BY ThresholdsAssumption DEF Up

LEMMA RouteSound ==
  ASSUME NEW s \in States, NEW tier \in Enabled
  PROVE  Sound(Route(s, tier)) /\ Route(s, tier).manual = s.manual
<1> DEFINE p == IF tier = "main" THEN MAIN_PRIORITY
                ELSE IF tier = "reserve" THEN RESERVE_PRIORITY ELSE OBSERVE_PRIORITY
           q == Route(s, tier)
<1>1. p \in Priorities /\ tier \in Tiers
  BY DEF Priorities, Enabled, ROUTABLE_TIERS, Tiers, NON_ROUTABLE_TIERS
<1> HIDE DEF p
<1>2. q = [s EXCEPT !.tier = tier, !.disabled = FALSE, !.priority = p]
  BY DEF Route, p
<1>3. q \in States
  BY <1>1, <1>2 DEF States
<1>4. q.tier = tier /\ q.disabled = FALSE /\ q.priority = p /\ q.manual = s.manual
  BY <1>2 DEF States
<1>5. Schedule(q)
  BY <1>4 DEF Schedule, p
<1>6. QED
  BY <1>3, <1>4, <1>5 DEF Sound

LEMMA ShutSound ==
  ASSUME NEW s \in States, NEW tier \in Tiers \ Enabled
  PROVE  Sound(Shut(s, tier))
<1> DEFINE q == Shut(s, tier)
<1>1. q \in States
  BY DEF Shut, States, Priorities
<1>2. q.tier = tier /\ q.disabled = TRUE /\ q.priority = OBSERVE_PRIORITY
  BY DEF Shut, States
<1>3. Schedule(q)
  BY <1>2 DEF Schedule, Enabled, ROUTABLE_TIERS
<1>4. QED
  BY <1>1, <1>3 DEF Sound

LEMMA EligibleSound ==
  ASSUME NEW s, Sound(s)
  PROVE  Sound(Eligible(s))
  BY DEF Sound, Eligible, Schedule, States

LEMMA FailedSound ==
  ASSUME NEW s \in States
  PROVE  /\ Failed(s) \in States
         /\ Failed(s).tier = s.tier
         /\ Schedule(s) => Schedule(Failed(s))
<1> DEFINE n == Up(s.failures)
<1>1. n \in 0 .. MaxStreak /\ 0 \in 0 .. MaxStreak
  BY UpType, ThresholdsAssumption DEF States
<1> HIDE DEF n
<1>2. Failed(s) = [s EXCEPT !.health = "other", !.successes = 0, !.failures = n]
  BY DEF Failed, n, States
<1>3. Failed(s) \in States
  BY <1>1, <1>2 DEF States
<1>4. /\ Failed(s).tier = s.tier /\ Failed(s).priority = s.priority
      /\ Failed(s).disabled = s.disabled /\ Failed(s).manual = s.manual
  BY <1>2 DEF States
<1>5. QED
  BY <1>3, <1>4 DEF Schedule

LEMMA DemotedSound ==
  ASSUME NEW s, Sound(s)
  PROVE  Sound(Demoted(s))
  BY RouteSound, EligibleSound DEF Demoted, Sound, Enabled, ROUTABLE_TIERS

-----------------------------------------------------------------------------
\* transition_state, and the update around it, keep a sound row sound.

LEMMA SuccessSound ==
  ASSUME NEW s, Sound(s)
  PROVE  Sound(Success(s))
<1> DEFINE n == Up(s.successes)
           h == [s EXCEPT !.health = "healthy", !.failures = 0, !.independent = 0,
                          !.successes = n, !.eligible = TRUE]
<1>1. s \in States /\ 0 \in 0 .. MaxStreak /\ n \in 0 .. MaxStreak
  BY UpType, ThresholdsAssumption DEF Sound, States
<1> HIDE DEF n
<1>2. h \in States
  BY <1>1 DEF States
<1> HIDE DEF h
<1>3. Sound(Shut(h, "candidate")) /\ Sound(Route(h, "main"))
  BY <1>2, ShutSound, RouteSound
     DEF Enabled, ROUTABLE_TIERS, NON_ROUTABLE_TIERS, Tiers
<1>4. QED
  BY <1>3 DEF Success, h, n

LEMMA InconclusiveSound ==
  ASSUME NEW s, Sound(s), NEW r
  PROVE  Sound(Inconclusive(s, r))
<1> DEFINE h == [s EXCEPT !.health = "other", !.successes = 0]
<1>0. s \in States /\ 0 \in 0 .. MaxStreak
  BY ThresholdsAssumption DEF Sound
<1>1. h \in States
  BY <1>0 DEF States
<1>2. /\ h.tier = s.tier /\ h.priority = s.priority
      /\ h.disabled = s.disabled /\ h.manual = s.manual
  BY DEF Sound, States
<1> HIDE DEF h
<1>3. Sound(h)
  BY <1>1, <1>2 DEF Sound, Schedule
<1>4. Sound(Eligible(Route(h, "reserve")))
  BY <1>1, RouteSound, EligibleSound DEF Sound, Enabled, ROUTABLE_TIERS
<1>5. QED
  BY <1>3, <1>4 DEF Inconclusive, h

LEMMA QuotaSound ==
  ASSUME NEW s, Sound(s)
  PROVE  Sound(Quota(s))
<1>1. Sound(Eligible(Shut(Failed(s), "cooling")))
  BY FailedSound, ShutSound, EligibleSound
     DEF Sound, Enabled, ROUTABLE_TIERS, NON_ROUTABLE_TIERS, Tiers
<1>2. QED
  BY <1>1 DEF Quota, Sound, Schedule, States

LEMMA RejectedSound ==
  ASSUME NEW s, Sound(s), NEW r
  PROVE  Sound(Rejected(s, r))
<1>1. Failed(s) \in States
  BY FailedSound DEF Sound
<1>2. \A tier \in {"malformed", "quarantine", "candidate"} :
         Sound(Shut(Failed(s), tier)) /\ Sound(Eligible(Shut(Failed(s), tier)))
  BY <1>1, ShutSound, EligibleSound
     DEF Enabled, ROUTABLE_TIERS, NON_ROUTABLE_TIERS, Tiers
<1>3. QED
  BY <1>2 DEF Rejected

LEMMA NoModelSound ==
  ASSUME NEW s, Sound(s)
  PROVE  Sound(NoModel(s))
<1>1. Sound(Failed(s))
  BY FailedSound DEF Sound
<1>2. Sound(Eligible(Shut(Failed(s), "quarantine")))
  BY <1>1, ShutSound, EligibleSound
     DEF Sound, Enabled, ROUTABLE_TIERS, NON_ROUTABLE_TIERS, Tiers
<1>3. QED
  BY <1>1, <1>2, DemotedSound DEF NoModel

LEMMA TransientSound ==
  ASSUME NEW s, Sound(s), NEW r
  PROVE  Sound(Transient(s, r))
<1> DEFINE f == Failed(s)
           g == IF ~s.failedBefore \/ r.note = "spaced"
                THEN [f EXCEPT !.independent = Up(@), !.failedBefore = TRUE] ELSE f
<1>1. Sound(f)
  BY FailedSound DEF Sound
<1> HIDE DEF f
<1>2. Up(f.independent) \in 0 .. MaxStreak
  BY <1>1, UpType DEF Sound, States
<1>3. Sound(g)
  BY <1>1, <1>2 DEF Sound, Schedule, States
<1> HIDE DEF g
<1>4. Sound(Eligible(Route(g, "observe"))) /\ Sound(Demoted(g))
  BY <1>3, RouteSound, EligibleSound, DemotedSound DEF Sound, Enabled
<1>5. QED
  BY <1>4 DEF Transient, f, g

LEMMA UpdatedSound ==
  ASSUME NEW s, Sound(s), NEW r \in Rows
  PROVE  Sound(Updated(s, r))
<1>1. Sound(transition_state(s, r))
  BY SuccessSound, InconclusiveSound, QuotaSound, RejectedSound, NoModelSound,
     TransientSound DEF transition_state
<1>2. Sound([Eligible(Shut(s, "cooling")) EXCEPT !.health = "other"])
  <2>1. Sound(Eligible(Shut(s, "cooling")))
    BY ShutSound, EligibleSound
       DEF Sound, Enabled, ROUTABLE_TIERS, NON_ROUTABLE_TIERS, Tiers
  <2>2. QED
    BY <2>1 DEF Sound, Schedule, States
<1>3. Sound([s EXCEPT !.tier = "manual_disabled", !.disabled = TRUE, !.health = "other",
                      !.manual = TRUE, !.eligible = FALSE])
  BY DEF Sound, Schedule, States, Tiers, NON_ROUTABLE_TIERS, Enabled, ROUTABLE_TIERS
<1>4. QED
  BY <1>1, <1>2, <1>3 DEF Updated

-----------------------------------------------------------------------------
\* What the other writers of a row give.

LEMMA DefaultSound == Sound(default_state)
  BY ThresholdsAssumption
     DEF Sound, Schedule, default_state, States, Unknown, Actuals, Tiers, Enabled,
         ROUTABLE_TIERS, NON_ROUTABLE_TIERS, Priorities, OBSERVE_PRIORITY

LEMMA InEffectType ==
  ASSUME NEW p \in Priorities \cup {0}, NEW d \in BOOLEAN
  PROVE  InEffect(p, d) \in Actuals
  BY DEF InEffect, Actuals

\* A row stays sound when only what is known to be in effect changes.
LEMMA ActualSound ==
  ASSUME NEW s, Sound(s), NEW a \in Actuals
  PROVE  Sound([s EXCEPT !.actual = a])
<1>1. [s EXCEPT !.actual = a] \in States
  BY DEF Sound, States
<1>2. QED
  BY <1>1 DEF Sound, Schedule, States

LEMMA MarkedType ==
  ASSUME NEW s \in States, NEW f \in Files
  PROVE  [s EXCEPT !.manual = f.mark = "manual_disabled",
                   !.eligible = f.mark # "manual_disabled",
                   !.cool = IF f.cool # "none" THEN f.cool ELSE @] \in States
<1> DEFINE m1 == [s EXCEPT !.manual = f.mark = "manual_disabled"]
           m2 == [m1 EXCEPT !.eligible = f.mark # "manual_disabled"]
           c  == IF f.cool # "none" THEN f.cool ELSE s.cool
<1>1. m1 \in States
  BY DEF States
<1>2. m2 \in States /\ m2.cool = s.cool
  <2> HIDE DEF m1
  <2>1. m2 \in States
    BY <1>1 DEF States
  <2>2. QED
    BY <1>1, <2>1 DEF m1, States
<1>3. c \in {"none", "future", "past"}
  BY DEF States, Files
<1>4. [m2 EXCEPT !.cool = c] \in States
  <2> HIDE DEF m2, c
  <2>1. QED
    BY <1>2, <1>3 DEF States
<1>5. QED
  BY <1>4

LEMMA BootstrapSound ==
  ASSUME NEW s, Sound(s), NEW f \in Files
  PROVE  Sound(Bootstrap(s, f))
<1> DEFINE k == [s EXCEPT !.actual = InEffect(f.priority, f.disabled)]
           m == [k EXCEPT !.manual = f.mark = "manual_disabled",
                          !.eligible = f.mark # "manual_disabled",
                          !.cool = IF f.cool # "none" THEN f.cool ELSE @]
           h == [k EXCEPT !.tier = "manual_disabled", !.disabled = TRUE,
                          !.priority = OwnPriority(f, OBSERVE_PRIORITY),
                          !.manual = TRUE, !.eligible = FALSE]
<1>1. Sound(k)
  BY InEffectType, ActualSound DEF Files
<1> HIDE DEF k
<1>2. m \in States
  BY <1>1, MarkedType DEF Sound
<1>3. f.managed /\ f.mark # "" =>
        Sound(Route(m, f.mark)) \/ f.mark \notin Enabled
  BY <1>2, RouteSound
<1>4. f.managed /\ f.mark # "" =>
        Sound(Shut(m, f.mark)) \/ f.mark \in Enabled
  BY <1>2, ShutSound DEF Files
<1> HIDE DEF m
<1>5. Sound(h)
  <2> DEFINE q == OwnPriority(f, OBSERVE_PRIORITY)
  <2>1. q \in Priorities
    BY DEF OwnPriority, Files, Priorities
  <2> HIDE DEF q
  <2>2. h = [k EXCEPT !.tier = "manual_disabled", !.disabled = TRUE, !.priority = q,
                      !.manual = TRUE, !.eligible = FALSE]
    BY DEF q
  <2> HIDE DEF h
  <2>3. h \in States
    <3>1. k \in States /\ "manual_disabled" \in Tiers
      BY <1>1 DEF Sound, Tiers, NON_ROUTABLE_TIERS
    <3>2. QED
      BY <2>1, <2>2, <3>1 DEF States
  <2>4. h.tier = "manual_disabled" /\ h.disabled /\ h.manual
    BY <1>1, <2>2 DEF Sound, States
  <2>5. QED
    BY <2>3, <2>4 DEF Sound, Schedule, Enabled, ROUTABLE_TIERS
<1> HIDE DEF h
<1>6. Sound([Route(k, "reserve") EXCEPT !.eligible = FALSE])
  <2>1. Sound(Route(k, "reserve"))
    BY <1>1, RouteSound DEF Sound, Enabled, ROUTABLE_TIERS
  <2> DEFINE r == Route(k, "reserve")
  <2> HIDE DEF r
  <2>2. Sound(r) => Sound([r EXCEPT !.eligible = FALSE])
    BY DEF Sound, Schedule, States
  <2>3. QED
    BY <2>1, <2>2 DEF r
<1>7. Bootstrap(s, f) =
        IF s.health # "unchecked" THEN s
        ELSE IF f.managed /\ f.mark # ""
             THEN IF f.mark \in Enabled THEN Route(m, f.mark) ELSE Shut(m, f.mark)
        ELSE IF f.disabled THEN h
        ELSE [Route(k, "reserve") EXCEPT !.eligible = FALSE]
  BY DEF Bootstrap, k, m, h
<1>8. QED
  BY <1>3, <1>4, <1>5, <1>6, <1>7

-----------------------------------------------------------------------------
\* The inductive invariant, and the parts of a step that several actions share.

Inv == TypeOK /\ TierMatchesSchedule

LEMMA StepType ==
  ASSUME Inv, NEW p \in Actors, NEW from, NEW to \in Stages, Step(p, from, to)
  PROVE  at' \in [Actors -> Stages]
  BY DEF Inv, TypeOK, Step

\* One actor's copy is replaced by a sound row.
LEMMA CopySound ==
  ASSUME Inv, NEW p \in Actors, NEW s, Sound(s), mine' = [mine EXCEPT ![p] = s]
  PROVE  mine' \in [Actors -> States] /\ \A q \in Actors : Schedule(mine'[q])
<1>1. mine' \in [Actors -> States]
  BY DEF Inv, TypeOK, Sound
<1>2. ASSUME NEW q \in Actors PROVE Schedule(mine'[q])
  <2>1. mine'[q] = s \/ mine'[q] = mine[q]
    BY DEF Inv, TypeOK
  <2>2. QED
    BY <2>1 DEF Inv, TierMatchesSchedule, Sound
<1>3. QED
  BY <1>1, <1>2

LEMMA LeaveSound ==
  ASSUME Inv, NEW p \in Actors, NEW from, Leave(p, from)
  PROVE  /\ at' \in [Actors -> Stages]
         /\ mine' \in [Actors -> States] /\ \A q \in Actors : Schedule(mine'[q])
  BY StepType, CopySound, DefaultSound DEF Leave, Stages

LEMMA ReadSound ==
  ASSUME Inv, NEW p \in Actors, Read(p)
  PROVE  /\ mine' \in [Actors -> States] /\ \A q \in Actors : Schedule(mine'[q])
         /\ raced' \in BOOLEAN
<1>1. Sound(db)
  BY DEF Inv, TypeOK, TierMatchesSchedule, Sound
<1>2. QED
  BY <1>1, CopySound DEF Read, Inv, TypeOK

\* The copies the actors hold are sound.
LEMMA HeldSound ==
  ASSUME Inv, NEW p \in Actors
  PROVE  Sound(mine[p])
  BY DEF Inv, TypeOK, TierMatchesSchedule, Sound

LEMMA LeftType ==
  ASSUME Inv, NEW p \in Actors, left[p] > 0, left' = [left EXCEPT ![p] = @ - 1]
  PROVE  left' \in [Actors -> Nat]
  BY DEF Inv, TypeOK

-----------------------------------------------------------------------------
\* The actions of the scan.

LEMMA ScanListInv == Inv /\ ScanList => Inv'
<1> SUFFICES ASSUME Inv, ScanList PROVE Inv'
  OBVIOUS
<1>1. Sound(db')
  BY BootstrapSound DEF ScanList, Inv, TypeOK, TierMatchesSchedule, Sound
<1>2. at' \in [Actors -> Stages] /\ left' \in [Actors -> Nat]
  BY StepType, LeftType DEF ScanList, Actors, Stages
<1>3. raced' \in BOOLEAN /\ off' \in BOOLEAN /\ seen' \in Seen
  <2>1. raced' \in BOOLEAN /\ off' \in BOOLEAN
    BY DEF ScanList, Inv, TypeOK
  <2>2. seen' = seen \/ seen' = [seen EXCEPT !.marked = db'.tier \in JudgedTiers]
    BY DEF ScanList
  <2>3. seen' \in Seen
    <3>1. seen \in Seen /\ (db'.tier \in JudgedTiers) \in BOOLEAN
      BY DEF Inv, TypeOK
    <3>2. \A b \in BOOLEAN : [seen EXCEPT !.marked = b] \in Seen
      BY <3>1 DEF Seen
    <3>3. QED
      BY <2>2, <3>1, <3>2
  <2>4. QED
    BY <2>1, <2>3
<1>4. QED
  BY <1>1, <1>2, <1>3 DEF ScanList, Inv, TypeOK, TierMatchesSchedule, Sound

LEMMA VerdictInv == Inv /\ Verdict => Inv'
<1> SUFFICES ASSUME Inv, Verdict PROVE Inv'
  OBVIOUS
<1>1. row' \in Rows
  <2>1. /\ Row("malformed", "definitive") \in Rows
        /\ Row("cooling", "") \in Rows
        /\ Row("disabled", "") \in Rows
    BY DEF Rows
  <2>2. Local \subseteq Rows
    BY <2>1 DEF Local
  <2>3. QED
    BY <2>2 DEF Verdict
<1>2. at' \in [Actors -> Stages]
  BY StepType DEF Verdict, Actors, Stages
<1>3. QED
  BY <1>1, <1>2 DEF Verdict, Inv, TypeOK, TierMatchesSchedule

LEMMA LoadInv == Inv /\ Load => Inv'
<1> SUFFICES ASSUME Inv, Load PROVE Inv'
  OBVIOUS
<1>1. at' \in [Actors -> Stages]
  BY StepType DEF Load, Actors, Stages
<1>2. QED
  BY <1>1 DEF Load, Inv, TypeOK, TierMatchesSchedule

LEMMA RefreshInv == Inv /\ Refresh => Inv'
<1> SUFFICES ASSUME Inv, Refresh PROVE Inv'
  OBVIOUS
<1>1. at' \in [Actors -> Stages]
  BY StepType DEF Refresh, Actors, Stages
<1>2. file' \in Files /\ undone' \in BOOLEAN
  BY DEF Refresh, Inv, TypeOK
<1>3. QED
  BY <1>1, <1>2 DEF Refresh, Inv, TypeOK, TierMatchesSchedule

LEMMA NoPayloadType == NoPayload \in Files
  BY DEF NoPayload, Files

LEMMA NoRowType == NoRow \in Rows
  BY DEF NoRow, Rows

LEMMA ProbeInv == Inv /\ Probe => Inv'
<1> SUFFICES ASSUME Inv, Probe PROVE Inv'
  OBVIOUS
<1>1. row' \in Rows /\ taken' \in Files
  BY NoPayloadType DEF Probe
<1>2. at' \in [Actors -> Stages]
  BY StepType DEF Probe, Actors, Stages
<1>3. QED
  BY <1>1, <1>2 DEF Probe, Inv, TypeOK, TierMatchesSchedule

LEMMA UnreadInv == Inv /\ Unread => Inv'
<1> SUFFICES ASSUME Inv, Unread PROVE Inv'
  OBVIOUS
<1>1. at' \in [Actors -> Stages]
  BY StepType DEF Unread, Actors, Stages
<1>2. QED
  BY <1>1, NoRowType DEF Unread, Inv, TypeOK, TierMatchesSchedule

LEMMA ScanReadInv == Inv /\ ScanRead => Inv'
<1> SUFFICES ASSUME Inv, ScanRead PROVE Inv'
  OBVIOUS
<1>1. at' \in [Actors -> Stages]
  BY StepType DEF ScanRead, Actors, Stages
<1>2. /\ mine' \in [Actors -> States] /\ \A q \in Actors : Schedule(mine'[q])
      /\ raced' \in BOOLEAN
  BY ReadSound DEF ScanRead, Actors
<1>3. QED
  BY <1>1, <1>2 DEF ScanRead, Inv, TypeOK, TierMatchesSchedule

\* The evidence an observation leaves is well-typed.
LEMMA SeenType ==
  ASSUME Inv, ScanWrite
  PROVE  seen' \in Seen
<1>1. seen \in Seen /\ row \in Rows
  BY DEF Inv, TypeOK
<1>2. 0 \in 0 .. MaxStreak /\ 1 \in 0 .. MaxStreak
  BY ThresholdsAssumption
<1>3. Up(seen.failures) \in 0 .. MaxStreak /\ Up(seen.run) \in 0 .. MaxStreak
  BY <1>1, UpType DEF Seen
<1>4. row.status \in {r.status : r \in Rows} \cup {""}
  BY <1>1
<1>5. /\ (row.note = "definitive" \/ (seen.rejected /\ row.status # "ok")) \in BOOLEAN
      /\ (seen.marked /\ db'.tier \in JudgedTiers) \in BOOLEAN
  BY <1>1 DEF Seen
<1>6. QED
  BY <1>1, <1>2, <1>3, <1>4, <1>5 DEF ScanWrite, Seen

LEMMA ScanWriteInv == Inv /\ ScanWrite => Inv'
<1> SUFFICES ASSUME Inv, ScanWrite PROVE Inv'
  OBVIOUS
<1>1. at' \in [Actors -> Stages]
  BY StepType DEF ScanWrite, Actors, Stages
<1>2. Sound(Updated(mine["scan"], row))
  BY HeldSound, UpdatedSound DEF Actors, Inv, TypeOK
<1>3. mine' \in [Actors -> States] /\ \A q \in Actors : Schedule(mine'[q])
  BY <1>2, CopySound DEF ScanWrite, Actors
<1>4. Sound(db')
  BY <1>3 DEF ScanWrite, Sound, Actors
<1>5. QED
  BY <1>1, <1>3, <1>4, SeenType
     DEF ScanWrite, Inv, TypeOK, TierMatchesSchedule, Sound

LEMMA SpareInv == Inv /\ Spare => Inv'
<1> SUFFICES ASSUME Inv, Spare PROVE Inv'
  OBVIOUS
<1>1. /\ at' \in [Actors -> Stages]
      /\ mine' \in [Actors -> States] /\ \A q \in Actors : Schedule(mine'[q])
  BY LeaveSound DEF Spare, Actors
<1>2. QED
  BY <1>1 DEF Spare, Inv, TypeOK, TierMatchesSchedule

LEMMA IsolateInv == Inv /\ Isolate => Inv'
<1> SUFFICES ASSUME Inv, Isolate PROVE Inv'
  OBVIOUS
<1> DEFINE a == InEffect(OBSERVE_PRIORITY, TRUE)
<1>1. at' \in [Actors -> Stages]
  BY StepType DEF Isolate, Actors, Stages
<1>2. a \in Actuals
  BY InEffectType DEF Priorities
<1> HIDE DEF a
<1>3. Sound([mine["scan"] EXCEPT !.actual = a])
  BY <1>2, HeldSound, ActualSound DEF Actors
<1>4. mine' = [mine EXCEPT !["scan"] = [mine["scan"] EXCEPT !.actual = a]]
  BY DEF Isolate, a
<1>5. mine' \in [Actors -> States] /\ \A q \in Actors : Schedule(mine'[q])
  BY <1>3, <1>4, CopySound DEF Actors
<1>6. file' \in Files
  BY DEF Isolate, Inv, TypeOK, Files
<1>7. QED
  BY <1>1, <1>5, <1>6 DEF Isolate, Inv, TypeOK, TierMatchesSchedule

LEMMA GovernInv == Inv /\ Govern => Inv'
<1> SUFFICES ASSUME Inv, Govern PROVE Inv'
  OBVIOUS
<1>1. at' \in [Actors -> Stages]
  BY StepType DEF Govern, Actors, Stages
<1>2. QED
  BY <1>1 DEF Govern, Inv, TypeOK, TierMatchesSchedule

-----------------------------------------------------------------------------
\* Putting a schedule into effect, for the scan and the scheduler alike.

LEMMA NotPatchedInv == ASSUME NEW p \in Actors PROVE Inv /\ NotPatched(p) => Inv'
<1> SUFFICES ASSUME Inv, NotPatched(p) PROVE Inv'
  OBVIOUS
<1>1. /\ at' \in [Actors -> Stages]
      /\ mine' \in [Actors -> States] /\ \A q \in Actors : Schedule(mine'[q])
  BY LeaveSound DEF NotPatched
<1>2. QED
  BY <1>1 DEF NotPatched, Inv, TypeOK, TierMatchesSchedule

LEMMA PatchInv == ASSUME NEW p \in Actors PROVE Inv /\ Patch(p) => Inv'
<1> SUFFICES ASSUME Inv, Patch(p) PROVE Inv'
  OBVIOUS
<1> DEFINE a == InEffect(mine[p].priority, mine[p].disabled)
<1>1. at' \in [Actors -> Stages]
  BY StepType DEF Patch, Stages
<1>2. Sound(mine[p])
  BY HeldSound
<1>3. a \in Actuals
  BY <1>2, InEffectType DEF Sound, States
<1>4. Sound([mine[p] EXCEPT !.actual = a])
  BY <1>2, <1>3, ActualSound
<1>5. Sound([mine[p] EXCEPT !.manual = TRUE])
  BY <1>2 DEF Sound, States, Schedule
<1> HIDE DEF a
<1>6. \/ mine' = [mine EXCEPT ![p] = [mine[p] EXCEPT !.manual = TRUE]]
      \/ mine' = [mine EXCEPT ![p] = [mine[p] EXCEPT !.actual = a]]
  BY DEF Patch, a
<1>7. mine' \in [Actors -> States] /\ \A q \in Actors : Schedule(mine'[q])
  BY <1>4, <1>5, <1>6, CopySound
<1>8. file' \in Files
  <2>1. file \in Files
    BY DEF Inv, TypeOK
  <2>2. /\ mine[p].priority \in Priorities /\ mine[p].disabled \in BOOLEAN
        /\ mine[p].tier \in Tiers /\ mine[p].cool \in {"none", "future", "past"}
    BY <1>2 DEF Sound, States
  <2>3. CASE UNCHANGED file
    BY <2>1, <2>3
  <2>4. CASE file' = [file EXCEPT
                        !.priority = mine[p].priority, !.disabled = mine[p].disabled,
                        !.managed = TRUE, !.mark = mine[p].tier,
                        !.cool = IF mine[p].disabled THEN mine[p].cool ELSE "none"]
    BY <2>1, <2>2, <2>4 DEF Files
  <2>5. QED
    BY <2>3, <2>4 DEF Patch
<1>9. QED
  BY <1>1, <1>7, <1>8 DEF Patch, Inv, TypeOK, TierMatchesSchedule

LEMMA FinishInv == ASSUME NEW p \in Actors PROVE Inv /\ Finish(p) => Inv'
<1> SUFFICES ASSUME Inv, Finish(p) PROVE Inv'
  OBVIOUS
<1>1. /\ at' \in [Actors -> Stages]
      /\ mine' \in [Actors -> States] /\ \A q \in Actors : Schedule(mine'[q])
  BY LeaveSound DEF Finish
<1>2. Sound(db')
  BY HeldSound DEF Finish
<1>3. QED
  BY <1>1, <1>2 DEF Finish, Inv, TypeOK, TierMatchesSchedule, Sound

-----------------------------------------------------------------------------
\* The actions of the scheduler.

LEMMA GovReadInv == Inv /\ GovRead => Inv'
<1> SUFFICES ASSUME Inv, GovRead PROVE Inv'
  OBVIOUS
<1>1. at' \in [Actors -> Stages] /\ left' \in [Actors -> Nat]
  BY StepType, LeftType DEF GovRead, Actors, Stages
<1>2. /\ mine' \in [Actors -> States] /\ \A q \in Actors : Schedule(mine'[q])
      /\ raced' \in BOOLEAN
  BY ReadSound DEF GovRead, Actors
<1>3. QED
  BY <1>1, <1>2 DEF GovRead, Inv, TypeOK, TierMatchesSchedule

LEMMA GovDriftInv == Inv /\ GovDrift => Inv'
<1> SUFFICES ASSUME Inv, GovDrift PROVE Inv'
  OBVIOUS
<1>1. at' \in [Actors -> Stages]
  BY StepType DEF GovDrift, Actors, Stages
<1>2. QED
  BY <1>1 DEF GovDrift, Inv, TypeOK, TierMatchesSchedule

LEMMA GovRebalanceInv == Inv /\ GovRebalance => Inv'
<1> SUFFICES ASSUME Inv, GovRebalance PROVE Inv'
  OBVIOUS
<1> DEFINE tier == IF mine["gov"].tier = "main" THEN "reserve" ELSE "main"
<1>1. at' \in [Actors -> Stages]
  BY StepType DEF GovRebalance, Actors, Stages
<1>2. Sound(Route(mine["gov"], tier))
  BY HeldSound, RouteSound DEF Sound, Actors, Enabled, ROUTABLE_TIERS
<1>3. mine' = [mine EXCEPT !["gov"] = Route(mine["gov"], tier)]
  BY DEF GovRebalance
<1> HIDE DEF tier
<1>4. mine' \in [Actors -> States] /\ \A q \in Actors : Schedule(mine'[q])
  BY <1>2, <1>3, CopySound DEF Actors
<1>5. Sound(db')
  BY <1>4 DEF GovRebalance, Sound, Actors
<1>6. QED
  BY <1>1, <1>4, <1>5 DEF GovRebalance, Inv, TypeOK, TierMatchesSchedule, Sound

LEMMA GovNothingInv == Inv /\ GovNothing => Inv'
<1> SUFFICES ASSUME Inv, GovNothing PROVE Inv'
  OBVIOUS
<1>1. /\ at' \in [Actors -> Stages]
      /\ mine' \in [Actors -> States] /\ \A q \in Actors : Schedule(mine'[q])
  BY LeaveSound DEF GovNothing, Actors
<1>2. QED
  BY <1>1 DEF GovNothing, Inv, TypeOK, TierMatchesSchedule

-----------------------------------------------------------------------------
\* The actions of the operator.

LEMMA OpStartInv == Inv /\ OpStart => Inv'
<1> SUFFICES ASSUME Inv, OpStart PROVE Inv'
  OBVIOUS
<1>1. at' \in [Actors -> Stages] /\ left' \in [Actors -> Nat]
  BY StepType, LeftType DEF OpStart, Actors, Stages
<1>2. /\ mine' \in [Actors -> States] /\ \A q \in Actors : Schedule(mine'[q])
      /\ raced' \in BOOLEAN
  BY ReadSound DEF OpStart, Actors
<1>3. intent' \in {"enable", "disable", "quarantine", "restore"}
  BY DEF OpStart
<1>4. QED
  BY <1>1, <1>2, <1>3 DEF OpStart, Inv, TypeOK, TierMatchesSchedule

\* A row that the operator has taken in hand, with its file updated in place.
LEMMA InHandSound ==
  ASSUME NEW s, Sound(s), NEW tier \in Tiers, NEW prio \in Priorities,
         NEW d \in BOOLEAN, d <=> tier \notin Enabled
  PROVE  Sound([s EXCEPT !.tier = tier, !.disabled = d, !.manual = TRUE,
                         !.priority = prio, !.actual.disabled = d])
<1> DEFINE a == [s.actual EXCEPT !.disabled = d]
           q == [s EXCEPT !.tier = tier, !.disabled = d, !.manual = TRUE,
                          !.priority = prio, !.actual = a]
<1>1. a \in Actuals
  BY DEF Sound, States, Actuals
<1> HIDE DEF a
<1>2. q \in States
  BY <1>1 DEF Sound, States
<1>3. q.tier = tier /\ q.disabled = d /\ q.manual = TRUE
  BY DEF Sound, States
<1>4. Sound(q)
  BY <1>2, <1>3 DEF Sound, Schedule
<1>5. QED
  BY <1>4 DEF a

LEMMA OpFileInv == Inv /\ OpFile => Inv'
<1> SUFFICES ASSUME Inv, OpFile PROVE Inv'
  OBVIOUS
<1> DEFINE s == mine["op"]
<1>1. at' \in [Actors -> Stages]
  BY StepType DEF OpFile, Actors, Stages
<1>2. Sound(s) /\ s.priority \in Priorities /\ file \in Files
  BY HeldSound DEF Actors, Sound, States, Inv, TypeOK
<1>4. CASE OpEnable
  <2> DEFINE prio == OwnPriority(file, RESERVE_PRIORITY)
  <2>1. prio \in Priorities
    BY <1>2 DEF OwnPriority, Files, Priorities
  <2> HIDE DEF prio
  <2>2. Sound([s EXCEPT !.tier = "reserve", !.disabled = FALSE, !.manual = TRUE,
                        !.priority = prio, !.actual.disabled = FALSE])
    BY <1>2, <2>1, InHandSound DEF Tiers, ROUTABLE_TIERS, Enabled
  <2>3. mine' \in [Actors -> States] /\ \A q \in Actors : Schedule(mine'[q])
    BY <1>4, <2>2, CopySound DEF OpEnable, Actors, prio
  <2>4. file' \in Files /\ off' \in BOOLEAN
    BY <1>2, <1>4 DEF OpEnable, Files
  <2>5. QED
    BY <1>1, <2>3, <2>4 DEF OpFile, Inv, TypeOK, TierMatchesSchedule
<1>5. CASE OpDisable
  <2>1. Sound([s EXCEPT !.tier = "manual_disabled", !.disabled = TRUE, !.manual = TRUE,
                        !.priority = s.priority, !.actual.disabled = TRUE])
    BY <1>2, InHandSound DEF Tiers, NON_ROUTABLE_TIERS, ROUTABLE_TIERS, Enabled
  <2>2. [s EXCEPT !.tier = "manual_disabled", !.disabled = TRUE, !.manual = TRUE,
                  !.priority = s.priority, !.actual.disabled = TRUE]
        = [s EXCEPT !.tier = "manual_disabled", !.disabled = TRUE, !.manual = TRUE,
                    !.actual.disabled = TRUE]
    BY <1>2 DEF Sound, States
  <2>3. mine' \in [Actors -> States] /\ \A q \in Actors : Schedule(mine'[q])
    BY <1>5, <2>1, <2>2, CopySound DEF OpDisable, Actors
  <2>4. file' \in Files /\ off' \in BOOLEAN
    BY <1>2, <1>5 DEF OpDisable, Files, Tiers, NON_ROUTABLE_TIERS, Inv, TypeOK
  <2>5. QED
    BY <1>1, <2>3, <2>4 DEF OpFile, Inv, TypeOK, TierMatchesSchedule
<1>6. CASE OpQuarantine
  <2>1. Sound([s EXCEPT !.tier = "quarantine", !.disabled = TRUE, !.manual = TRUE,
                        !.priority = s.priority, !.actual.disabled = TRUE])
    BY <1>2, InHandSound DEF Tiers, NON_ROUTABLE_TIERS, ROUTABLE_TIERS, Enabled
  <2>2. [s EXCEPT !.tier = "quarantine", !.disabled = TRUE, !.manual = TRUE,
                  !.priority = s.priority, !.actual.disabled = TRUE]
        = [s EXCEPT !.tier = "quarantine", !.disabled = TRUE, !.manual = TRUE,
                    !.actual.disabled = TRUE]
    BY <1>2 DEF Sound, States
  <2>3. mine' \in [Actors -> States] /\ \A q \in Actors : Schedule(mine'[q])
    BY <1>6, <2>1, <2>2, CopySound DEF OpQuarantine, Actors
  <2>4. file' \in Files /\ off' \in BOOLEAN
    BY <1>2, <1>6 DEF OpQuarantine, Files
  <2>5. QED
    BY <1>1, <2>3, <2>4 DEF OpFile, Inv, TypeOK, TierMatchesSchedule
<1>7. CASE OpRestore
  <2> DEFINE a == InEffect(OBSERVE_PRIORITY, TRUE)
             d == default_state
             h == [d EXCEPT !.health = "other"]
  <2>1. a \in Actuals
    BY InEffectType DEF Priorities
  <2>2. Sound(d)
    BY DefaultSound
  <2> HIDE DEF a, d
  <2>3. Sound(h)
    BY <2>2 DEF Sound, Schedule, States
  <2> HIDE DEF h
  <2>4. Sound([h EXCEPT !.actual = a])
    BY <2>1, <2>3, ActualSound
  <2>5. mine' = [mine EXCEPT !["op"] = [h EXCEPT !.actual = a]]
    BY <1>7 DEF OpRestore, h, d, a
  <2>6. mine' \in [Actors -> States] /\ \A q \in Actors : Schedule(mine'[q])
    BY <2>4, <2>5, CopySound DEF Actors
  <2>7. file' \in Files /\ off' \in BOOLEAN
    BY <1>7 DEF OpRestore, Files, Tiers, NON_ROUTABLE_TIERS, Priorities
  <2>8. QED
    BY <1>1, <2>6, <2>7 DEF OpFile, Inv, TypeOK, TierMatchesSchedule
<1>8. QED
  BY <1>4, <1>5, <1>6, <1>7 DEF OpFile

LEMMA OpGoneInv == Inv /\ OpGone => Inv'
<1> SUFFICES ASSUME Inv, OpGone PROVE Inv'
  OBVIOUS
<1>1. /\ at' \in [Actors -> Stages]
      /\ mine' \in [Actors -> States] /\ \A q \in Actors : Schedule(mine'[q])
  BY LeaveSound DEF OpGone, Actors
<1>2. QED
  BY <1>1 DEF OpGone, Inv, TypeOK, TierMatchesSchedule

LEMMA OpWriteInv == Inv /\ OpWrite => Inv'
<1> SUFFICES ASSUME Inv, OpWrite PROVE Inv'
  OBVIOUS
<1>1. /\ at' \in [Actors -> Stages]
      /\ mine' \in [Actors -> States] /\ \A q \in Actors : Schedule(mine'[q])
  BY LeaveSound DEF OpWrite, Actors
<1>2. Sound(db') /\ off' \in BOOLEAN
  BY HeldSound DEF OpWrite, Actors, Inv, TypeOK
<1>3. seen' \in Seen
  <2>1. seen \in Seen /\ 0 \in 0 .. MaxStreak
    BY ThresholdsAssumption DEF Inv, TypeOK
  <2>2. Cleared(seen) \in Seen
    BY <2>1 DEF Seen, Cleared
  <2>3. QED
    BY <2>1, <2>2 DEF OpWrite
<1>4. QED
  BY <1>1, <1>2, <1>3 DEF OpWrite, Inv, TypeOK, TierMatchesSchedule, Sound

-----------------------------------------------------------------------------
LEMMA CoolPassesInv == Inv /\ CoolPasses => Inv'
<1> SUFFICES ASSUME Inv, CoolPasses PROVE Inv'
  OBVIOUS
<1> DEFINE past(x) == IF x.cool = "future" THEN [x EXCEPT !.cool = "past"] ELSE x
<1>1. ASSUME NEW s, Sound(s) PROVE Sound(past(s))
  BY <1>1 DEF Sound, States, Schedule
<1>2. past(file) \in Files /\ past(taken) \in Files
  <2>1. \A f \in Files : past(f) \in Files
    BY DEF Files
  <2> HIDE DEF past
  <2>2. QED
    BY <2>1 DEF Inv, TypeOK
<1>3. db' = past(db) /\ file' = past(file) /\ taken' = past(taken) /\ mine' = [p \in Actors |-> past(mine[p])]
  BY DEF CoolPasses
<1> HIDE DEF past
<1>4. Sound(db') /\ \A p \in Actors : Sound(mine'[p])
  BY <1>1, <1>3, HeldSound DEF Inv, TypeOK, TierMatchesSchedule, Sound
<1>5. mine' \in [Actors -> States]
  BY <1>3, <1>4 DEF Sound
<1>6. QED
  BY <1>2, <1>3, <1>4, <1>5 DEF CoolPasses, Inv, TypeOK, TierMatchesSchedule, Sound

\* The faults.
LEMMA WriteFailsInv == ASSUME NEW p \in Actors PROVE Inv /\ WriteFails(p) => Inv'
<1> SUFFICES ASSUME Inv, WriteFails(p) PROVE Inv'
  OBVIOUS
<1>1. /\ at' \in [Actors -> Stages]
      /\ mine' \in [Actors -> States] /\ \A q \in Actors : Schedule(mine'[q])
  BY LeaveSound DEF WriteFails
<1>2. cut' \in BOOLEAN
  BY DEF WriteFails, Unwritten, Inv, TypeOK
<1>3. QED
  BY <1>1, <1>2 DEF WriteFails, Inv, TypeOK, TierMatchesSchedule

LEMMA CrashInv == Inv /\ Crash => Inv'
<1> SUFFICES ASSUME Inv, Crash PROVE Inv'
  OBVIOUS
<1>1. /\ at' \in [Actors -> Stages]
      /\ mine' \in [Actors -> States] /\ \A q \in Actors : Schedule(mine'[q])
  BY DefaultSound DEF Crash, Stages, Sound
<1>2. cut' \in BOOLEAN
  BY DEF Crash, Unwritten, Inv, TypeOK
<1>3. QED
  BY <1>1, <1>2, NoPayloadType, NoRowType DEF Crash, Inv, TypeOK, TierMatchesSchedule

LEMMA InitInv == Init => Inv
<1> SUFFICES ASSUME Init PROVE Inv
  OBVIOUS
<1>1. Sound(db) /\ mine \in [Actors -> States] /\ \A p \in Actors : Sound(mine[p])
  BY DefaultSound DEF Init, Sound
<1>2. file \in Files
  <2>1. NewFiles \subseteq Files
    BY DEF NewFiles, Files, Priorities
  <2>2. ManagedFiles \subseteq Files
    <3>1. ASSUME NEW f \in ManagedFiles PROVE f \in Files
      <4>1. PICK m \in Tiers :
              f = [place |-> "active", disabled |-> m \notin Enabled,
                   priority |-> OBSERVE_PRIORITY, managed |-> TRUE, mark |-> m,
                   cool |-> IF m = "cooling" THEN "past" ELSE "none"]
        BY DEF ManagedFiles
      <4>2. OBSERVE_PRIORITY \in Priorities \cup {0}
        BY DEF Priorities
      <4>3. QED
        BY <4>1, <4>2 DEF Files
    <3>2. QED
      BY <3>1
  <2>3. QED
    BY <2>1, <2>2, StartAssumption DEF Init
<1>3. at \in [Actors -> Stages] /\ left \in [Actors -> Nat]
  BY RoundsAssumption DEF Init, Actors, Stages
<1>4. row \in Rows
  BY NoRowType DEF Init
<1>5. seen \in Seen
  <2>1. 0 \in 0 .. MaxStreak
    BY ThresholdsAssumption
  <2>2. QED
    BY <2>1 DEF Init, Seen, NoEvidence
<1>6. QED
  BY <1>1, <1>2, <1>3, <1>4, <1>5, NoPayloadType
     DEF Init, Inv, TypeOK, TierMatchesSchedule, Sound

LEMMA NextInv == Inv /\ [Next]_vars => Inv'
<1> SUFFICES ASSUME Inv, [Next]_vars PROVE Inv'
  OBVIOUS
<1>1. CASE Scan
  BY <1>1, ScanListInv, VerdictInv, LoadInv, RefreshInv, ProbeInv, UnreadInv,
     ScanReadInv, ScanWriteInv, SpareInv, IsolateInv, GovernInv DEF Scan
<1>2. CASE Gov
  BY <1>2, GovReadInv, GovDriftInv, GovRebalanceInv, GovNothingInv DEF Gov
<1>3. CASE Op
  BY <1>3, OpStartInv, OpFileInv, OpGoneInv, OpWriteInv DEF Op
<1>4. CASE CoolPasses
  BY <1>4, CoolPassesInv
<1>5. CASE \E p \in {"scan", "gov"} : NotPatched(p) \/ Patch(p) \/ Finish(p)
  BY <1>5, NotPatchedInv, PatchInv, FinishInv DEF Actors
<1>6. CASE UNCHANGED vars
  BY <1>6 DEF vars, Inv, TypeOK, TierMatchesSchedule
<1>7. CASE Crash \/ \E p \in Actors : WriteFails(p)
  BY <1>7, CrashInv, WriteFailsInv
<1>8. QED
  BY <1>1, <1>2, <1>3, <1>4, <1>5, <1>6, <1>7 DEF Next

\* The types of the row, its copies, the file and the actors hold throughout, for
\* any thresholds and any number of probes, scheduler rounds and manual actions.
THEOREM TypeCorrect == Spec => []TypeOK
<1>1. Inv => TypeOK
  BY DEF Inv
<1>2. QED
  BY <1>1, InitInv, NextInv, PTL DEF Spec

\* Whatever the probes report and however the scan, the scheduler and the operator
\* interleave their whole-row writes, no row ever pairs a tier with the schedule
\* (enabled, priority) of another: transition_state, the bootstrap, the
\* rebalance and the manual actions each write a consistent pair, and no path
\* splits it.
THEOREM TierMatchesScheduleAlways == Spec => []TierMatchesSchedule
<1>1. Inv => TierMatchesSchedule
  BY DEF Inv
<1>2. QED
  BY <1>1, InitInv, NextInv, PTL DEF Spec

-----------------------------------------------------------------------------
\* What an observation does to the parts of a row the evidence is about.

\* The parts that no change of the schedule touches.
Carries(q, s) ==
  /\ q.health = s.health /\ q.failures = s.failures /\ q.successes = s.successes
  /\ q.manual = s.manual /\ q.actual = s.actual

\* A row is kept as the operator and the file have it.
Keeps(q, s) == q.manual = s.manual /\ q.actual = s.actual /\ q.health # "unchecked"

Firm == Tiers \ (ROUTABLE_TIERS \cup {"candidate"})

LEMMA RouteCarries ==
  ASSUME NEW s \in States, NEW tier
  PROVE  Route(s, tier).tier = tier /\ Carries(Route(s, tier), s)
  BY DEF Route, States, Carries

LEMMA ShutCarries ==
  ASSUME NEW s \in States, NEW tier
  PROVE  Shut(s, tier).tier = tier /\ Carries(Shut(s, tier), s)
  BY DEF Shut, States, Carries

LEMMA EligibleCarries ==
  ASSUME NEW s \in States
  PROVE  Eligible(s).tier = s.tier /\ Carries(Eligible(s), s)
  BY DEF Eligible, States, Carries

LEMMA FailedCounts ==
  ASSUME NEW s \in States
  PROVE  /\ Failed(s) \in States /\ Failed(s).tier = s.tier /\ Keeps(Failed(s), s)
         /\ Failed(s).failures = Up(s.failures) /\ Failed(s).successes = 0
<1>1. Failed(s) \in States
  BY FailedSound
<1>2. QED
  BY <1>1 DEF Failed, States, Keeps

\* A failure: it is counted, and where the row goes with it is up to the status.
Fails(u, s, tiers) ==
  /\ Keeps(u, s) /\ u.failures = Up(s.failures) /\ u.successes = 0
  /\ u.tier \in tiers

LEMMA ShutFails ==
  ASSUME NEW s \in States, NEW f \in States, Fails(f, s, {f.tier}), NEW tier \in Tiers \ Enabled
  PROVE  Fails(Shut(f, tier), s, {tier}) /\ Fails(Eligible(Shut(f, tier)), s, {tier})
<1>1. Shut(f, tier) \in States
  BY ShutSound DEF Sound
<1>2. QED
  BY <1>1, ShutCarries, EligibleCarries DEF Fails, Keeps, Carries

LEMMA RouteFails ==
  ASSUME NEW s \in States, NEW f \in States, Fails(f, s, {f.tier}), NEW tier \in Enabled
  PROVE  Fails(Eligible(Route(f, tier)), s, {tier})
<1>1. Route(f, tier) \in States
  BY RouteSound DEF Sound
<1>2. QED
  BY <1>1, RouteCarries, EligibleCarries DEF Fails, Keeps, Carries

LEMMA DemotedFails ==
  ASSUME NEW s \in States, NEW f \in States, Fails(f, s, {f.tier})
  PROVE  Fails(Demoted(f), s, IF f.tier \in ROUTABLE_TIERS THEN {"reserve"} ELSE {f.tier})
  BY RouteFails DEF Demoted, Enabled, ROUTABLE_TIERS

LEMMA FailedFails ==
  ASSUME NEW s \in States
  PROVE  Fails(Failed(s), s, {s.tier}) /\ Failed(s) \in States /\ Failed(s).tier = s.tier
  BY FailedCounts DEF Fails

LEMMA QuotaEffect ==
  ASSUME NEW s \in States
  PROVE  Fails(Quota(s), s, {"cooling"})
<1> DEFINE q == Eligible(Shut(Failed(s), "cooling"))
<1>1. Fails(q, s, {"cooling"})
  BY FailedFails, ShutFails DEF Tiers, NON_ROUTABLE_TIERS, Enabled, ROUTABLE_TIERS
<1>2. q \in States
  <2>1. "cooling" \in Tiers \ Enabled
    BY DEF Tiers, NON_ROUTABLE_TIERS, Enabled, ROUTABLE_TIERS
  <2>2. Sound(Shut(Failed(s), "cooling"))
    BY <2>1, FailedFails, ShutSound
  <2>3. QED
    BY <2>2, EligibleSound DEF Sound
<1> HIDE DEF q
<1>3. Fails([q EXCEPT !.cool = "future"], s, {"cooling"})
  BY <1>1, <1>2 DEF Fails, Keeps, States
<1>4. QED
  BY <1>3 DEF Quota, q

LEMMA RejectedEffect ==
  ASSUME NEW s \in States, NEW r
  PROVE  /\ Fails(Rejected(s, r), s, {"malformed", "quarantine", "candidate"})
         /\ IF Up(s.failures) >= (IF r.note = "definitive" THEN 1 ELSE 2)
            THEN Rejected(s, r).tier \in JudgedTiers ELSE Rejected(s, r).tier = "candidate"
<1>1. Failed(s).failures = Up(s.failures)
  BY FailedCounts
<1>2. \A tier \in {"malformed", "quarantine", "candidate"} :
        Fails(Shut(Failed(s), tier), s, {tier}) /\ Fails(Eligible(Shut(Failed(s), tier)), s, {tier})
  BY FailedFails, ShutFails DEF Tiers, NON_ROUTABLE_TIERS, Enabled, ROUTABLE_TIERS
<1>3. QED
  BY <1>1, <1>2 DEF Rejected, Fails, JudgedTiers

LEMMA NoModelEffect ==
  ASSUME NEW s \in States
  PROVE  \/ Fails(NoModel(s), s, {"quarantine"})
         \/ Fails(NoModel(s), s, IF s.tier \in ROUTABLE_TIERS THEN {"reserve"} ELSE {s.tier})
<1>1. Fails(Eligible(Shut(Failed(s), "quarantine")), s, {"quarantine"})
  BY FailedFails, ShutFails DEF Tiers, NON_ROUTABLE_TIERS, Enabled, ROUTABLE_TIERS
<1>2. Fails(Demoted(Failed(s)), s, IF s.tier \in ROUTABLE_TIERS THEN {"reserve"} ELSE {s.tier})
  BY FailedFails, DemotedFails
<1>3. QED
  BY <1>1, <1>2 DEF NoModel

LEMMA TransientEffect ==
  ASSUME NEW s \in States, NEW r
  PROVE  \/ Fails(Transient(s, r), s, {"observe"})
         \/ Fails(Transient(s, r), s, IF s.tier \in ROUTABLE_TIERS THEN {"reserve"} ELSE {s.tier})
<1> DEFINE f == Failed(s)
           g == IF ~s.failedBefore \/ r.note = "spaced"
                THEN [f EXCEPT !.independent = Up(@), !.failedBefore = TRUE] ELSE f
<1>1. Fails(f, s, {s.tier}) /\ f \in States /\ f.tier = s.tier
  BY FailedFails
<1> HIDE DEF f
<1>2. Up(f.independent) \in 0 .. MaxStreak
  BY <1>1, UpType DEF States
<1>3. Fails(g, s, {s.tier}) /\ g \in States /\ g.tier = s.tier
  BY <1>1, <1>2 DEF Fails, Keeps, States
<1> HIDE DEF g
<1>4. Fails(Eligible(Route(g, "observe")), s, {"observe"})
  BY <1>3, RouteFails DEF Enabled
<1>5. Fails(Demoted(g), s, IF s.tier \in ROUTABLE_TIERS THEN {"reserve"} ELSE {s.tier})
  BY <1>3, DemotedFails
<1>6. QED
  BY <1>4, <1>5 DEF Transient, f, g

LEMMA SuccessEffect ==
  ASSUME NEW s \in States
  PROVE  /\ Keeps(Success(s), s)
         /\ Success(s).failures = 0 /\ Success(s).successes = Up(s.successes)
         /\ Success(s).tier \in {"candidate", "main"}
         /\ Success(s).tier = "main" /\ s.tier \in NON_ROUTABLE_TIERS =>
              Up(s.successes) >= RecoveryThreshold
<1> DEFINE n == Up(s.successes)
           h == [s EXCEPT !.health = "healthy", !.failures = 0, !.independent = 0,
                          !.successes = n, !.eligible = TRUE]
<1>1. n \in 0 .. MaxStreak /\ 0 \in 0 .. MaxStreak
  BY UpType, ThresholdsAssumption DEF States
<1> HIDE DEF n
<1>2. h \in States /\ Keeps(h, s) /\ h.failures = 0 /\ h.successes = n
  BY <1>1 DEF States, Keeps
<1> HIDE DEF h
<1>3. /\ Carries(Shut(h, "candidate"), h) /\ Shut(h, "candidate").tier = "candidate"
      /\ Carries(Route(h, "main"), h) /\ Route(h, "main").tier = "main"
  BY <1>2, ShutCarries, RouteCarries
<1>4. Success(s) = IF s.tier \in NON_ROUTABLE_TIERS /\ n < RecoveryThreshold
                   THEN Shut(h, "candidate") ELSE Route(h, "main")
  BY DEF Success, h, n
<1>5. n \in Nat /\ RecoveryThreshold \in Nat
  BY <1>1, ThresholdsAssumption
<1>6. QED
  BY <1>2, <1>3, <1>4, <1>5 DEF Keeps, Carries, n

LEMMA InconclusiveEffect ==
  ASSUME NEW s \in States, NEW r
  PROVE  /\ Keeps(Inconclusive(s, r), s)
         /\ Inconclusive(s, r).failures = s.failures /\ Inconclusive(s, r).successes = 0
         /\ \/ Inconclusive(s, r).tier = s.tier
            \/ Inconclusive(s, r).tier = "reserve" /\ s.tier = "candidate"
<1> DEFINE h == [s EXCEPT !.health = "other", !.successes = 0]
<1>1. 0 \in 0 .. MaxStreak
  BY ThresholdsAssumption
<1>2. /\ h \in States /\ Keeps(h, s) /\ h.failures = s.failures /\ h.successes = 0
      /\ h.tier = s.tier
  BY <1>1 DEF States, Keeps
<1> HIDE DEF h
<1>3. Route(h, "reserve") \in States
  BY <1>2, RouteSound DEF Sound, Enabled, ROUTABLE_TIERS
<1>4. /\ Carries(Eligible(Route(h, "reserve")), Route(h, "reserve"))
      /\ Carries(Route(h, "reserve"), h)
      /\ Eligible(Route(h, "reserve")).tier = "reserve"
  BY <1>2, <1>3, RouteCarries, EligibleCarries
<1>5. Inconclusive(s, r) = IF r.note = "models_ok" /\ s.tier = "candidate" /\ ~s.manual
                           THEN Eligible(Route(h, "reserve")) ELSE h
  BY DEF Inconclusive, h
<1>6. QED
  BY <1>2, <1>4, <1>5 DEF Keeps, Carries

\* The two rows that observe nothing.
LEMMA UnobservedEffect ==
  ASSUME NEW s \in States, NEW r, r.status \in {"cooling", "disabled"}
  PROVE  LET u == Updated(s, r) IN
         /\ u.actual = s.actual /\ u.health # "unchecked"
         /\ u.failures = s.failures /\ u.successes = s.successes
         /\ s.manual => u.manual
         /\ u.manual \/ u.tier = "cooling"
         /\ u.tier \in {"cooling", "manual_disabled"}
<1>1. CASE r.status = "cooling"
  <2> DEFINE q == Eligible(Shut(s, "cooling"))
  <2>1. Shut(s, "cooling") \in States
    BY ShutSound DEF Sound, Tiers, NON_ROUTABLE_TIERS, Enabled, ROUTABLE_TIERS
  <2>2. q \in States /\ Carries(q, s) /\ q.tier = "cooling"
    <3>1. Sound(Shut(s, "cooling"))
      BY ShutSound DEF Tiers, NON_ROUTABLE_TIERS, Enabled, ROUTABLE_TIERS
    <3>2. Sound(q)
      BY <3>1, EligibleSound
    <3>3. QED
      BY <2>1, <3>2, ShutCarries, EligibleCarries DEF Carries, Sound
  <2> HIDE DEF q
  <2>3. Updated(s, r) = [q EXCEPT !.health = "other"]
    BY <1>1 DEF Updated, q
  <2>4. QED
    BY <2>2, <2>3 DEF States, Carries
<1>2. CASE r.status = "disabled"
  <2>1. Updated(s, r) = [s EXCEPT !.tier = "manual_disabled", !.disabled = TRUE,
                                  !.health = "other", !.manual = TRUE, !.eligible = FALSE]
    BY <1>2 DEF Updated
  <2>2. QED
    BY <2>1 DEF States
<1>3. QED
  BY <1>1, <1>2

-----------------------------------------------------------------------------
\* The evidence behind a row.

\* What a row that reports r adds to the evidence e, where the account is judged by it
\* or not.
Added(e, r, judged) ==
  IF r.status \in {"cooling", "disabled"} THEN e ELSE
  [failures |-> IF r.status = "ok" THEN 0
                ELSE IF r.status \notin Neutral THEN Up(e.failures) ELSE e.failures,
   rejected |-> r.note = "definitive" \/ (e.rejected /\ r.status # "ok"),
   marked   |-> e.marked /\ judged,
   last     |-> r.status,
   run      |-> IF r.status = e.last THEN Up(e.run) ELSE 1]

\* Rejected credentials: no observation but a success leads back to rotation, as
\* neither a firm tier nor a first failure is.
Barred(s, e) == e.rejected => s.manual \/ (s.tier \in Firm /\ s.failures >= 1)

\* The evidence e bears out what the row s says.
Backed(s, e) ==
  /\ s.successes = 0 \/ (e.last = "ok" /\ e.run >= s.successes)
  /\ s.health = "unchecked" => s.failures = 0 /\ e.failures = 0 /\ ~e.rejected
  /\ s.manual \/ s.failures = e.failures
  /\ s.manual \/ s.tier \notin JudgedTiers \/ e.failures >= 1 \/ e.marked
  /\ Barred(s, e)

LEMMA UpCounts ==
  \A n \in 0 .. MaxStreak : /\ Up(n) \in 1 .. MaxStreak /\ Up(n) >= n
                            /\ n >= 1 => Up(n) >= 2
                            /\ \A k \in 0 .. MaxStreak : n >= k => Up(n) >= Up(k)
  BY ThresholdsAssumption DEF Up

LEMMA RowShapes ==
  ASSUME NEW r \in Rows
  PROVE  /\ r.status \in {"ok", "request_error", "account_quota", "no_grok45", "cooling",
                          "disabled", "upstream_busy", "invalid_auth", "malformed",
                          "transient_error", "soft_fail"}
         /\ r.note = "definitive" => r.status \in {"invalid_auth", "malformed"}
         /\ r.status = "malformed" => r.note = "definitive"
<1> DEFINE plain == {"ok", "request_error", "account_quota", "no_grok45", "cooling",
                     "disabled", "upstream_busy", "invalid_auth", "transient_error",
                     "soft_fail"}
<1>1. CASE \E t \in plain : r = Row(t, "")
  <2>1. PICK t \in plain : r = Row(t, "")
    BY <1>1
  <2>2. r.status = t /\ r.note = ""
    BY <2>1 DEF Row
  <2>3. QED
    BY <2>2
<1>2. CASE \/ r = Row("upstream_busy", "models_ok") \/ r = Row("invalid_auth", "definitive")
           \/ r = Row("malformed", "definitive") \/ r = Row("transient_error", "spaced")
           \/ r = Row("soft_fail", "spaced")
  BY <1>2 DEF Row
<1>3. QED
  BY <1>1, <1>2 DEF Rows

LEMMA SeenFields ==
  ASSUME NEW e \in Seen
  PROVE  e.failures \in 0 .. MaxStreak /\ e.run \in 0 .. MaxStreak
         /\ e.rejected \in BOOLEAN /\ e.marked \in BOOLEAN
  BY DEF Seen

LEMMA AddedFields ==
  ASSUME NEW e \in Seen, NEW r \in Rows, r.status \notin {"cooling", "disabled"},
         NEW judged
  PROVE  /\ Added(e, r, judged).failures = IF r.status = "ok" THEN 0
                ELSE IF r.status \notin Neutral THEN Up(e.failures) ELSE e.failures
         /\ Added(e, r, judged).rejected =
              (r.note = "definitive" \/ (e.rejected /\ r.status # "ok"))
         /\ Added(e, r, judged).marked = (e.marked /\ judged)
         /\ Added(e, r, judged).last = r.status
         /\ Added(e, r, judged).run = IF r.status = e.last THEN Up(e.run) ELSE 1
  BY DEF Added

LEMMA StateFields ==
  ASSUME NEW s \in States
  PROVE  /\ s.failures \in 0 .. MaxStreak /\ s.successes \in 0 .. MaxStreak
         /\ s.manual \in BOOLEAN /\ s.tier \in Tiers
  BY DEF States

\* A status that counts as a failure.
LEMMA FailingEffect ==
  ASSUME NEW s \in States, NEW r \in Rows,
         r.status \notin Neutral \cup {"ok", "cooling", "disabled"}
  PROVE  LET u == Updated(s, r) IN
         /\ Fails(u, s, Tiers)
         /\ r.note = "definitive" => u.tier \in JudgedTiers
         /\ s.tier \in Firm /\ s.failures >= 1 => u.tier \in Firm
         /\ s.tier # "main" => u.tier # "main"
         /\ u.tier \in JudgedTiers =>
              r.note = "definitive" \/ Up(s.failures) >= 2 \/ r.status = "no_grok45"
              \/ (s.tier \in JudgedTiers /\ r.status \in {"transient_error", "soft_fail"})
<1> DEFINE u == Updated(s, r)
<1>0. /\ \A t \in {"malformed", "quarantine", "candidate", "reserve", "observe", "cooling"} :
            t \in Tiers
      /\ JudgedTiers \subseteq Firm /\ "cooling" \in Firm /\ "observe" \in Firm
      /\ "candidate" \notin JudgedTiers /\ "reserve" \notin JudgedTiers
      /\ "observe" \notin JudgedTiers /\ "cooling" \notin JudgedTiers
      /\ "main" \notin JudgedTiers
  BY DEF Tiers, ROUTABLE_TIERS, NON_ROUTABLE_TIERS, JudgedTiers, Firm
<1>1. Up(s.failures) \in Nat /\ Up(s.failures) >= 1 /\ (s.failures >= 1 => Up(s.failures) >= 2)
  BY UpCounts, StateFields
<1>2. u = transition_state(s, r)
  BY DEF Updated
<1>3. s.tier \in Firm => s.tier \notin ROUTABLE_TIERS
  BY DEF Firm
<1>4. CASE r.status = "account_quota"
  <2>1. u = Quota(s)
    BY <1>2, <1>4 DEF transition_state, Neutral
  <2>2. r.note # "definitive"
    BY <1>4, RowShapes
  <2>3. QED
    BY <1>0, <2>1, <2>2, QuotaEffect DEF Fails
<1>5. CASE r.status \in {"invalid_auth", "malformed"}
  <2>1. u = Rejected(s, r)
    BY <1>2, <1>5 DEF transition_state, Neutral
  <2>2. Fails(u, s, Tiers)
    BY <2>1, <1>0, RejectedEffect DEF Fails
  <2>3. IF Up(s.failures) >= (IF r.note = "definitive" THEN 1 ELSE 2)
        THEN u.tier \in JudgedTiers ELSE u.tier = "candidate"
    BY <2>1, RejectedEffect
  <2>4. QED
    BY <2>2, <2>3, <1>0, <1>1
<1>6. CASE r.status = "no_grok45"
  <2>1. u = NoModel(s)
    BY <1>2, <1>6 DEF transition_state, Neutral
  <2>2. r.note # "definitive"
    BY <1>6, RowShapes
  <2>3. \/ Fails(u, s, {"quarantine"})
        \/ Fails(u, s, IF s.tier \in ROUTABLE_TIERS THEN {"reserve"} ELSE {s.tier})
    BY <2>1, NoModelEffect
  <2>4. QED
    BY <2>2, <2>3, <1>0, <1>3, <1>6, StateFields DEF Fails, JudgedTiers
<1>7. CASE r.status \in {"transient_error", "soft_fail"}
  <2>1. u = Transient(s, r)
    BY <1>2, <1>7 DEF transition_state, Neutral
  <2>2. r.note # "definitive"
    BY <1>7, RowShapes
  <2>3. \/ Fails(u, s, {"observe"})
        \/ Fails(u, s, IF s.tier \in ROUTABLE_TIERS THEN {"reserve"} ELSE {s.tier})
    BY <2>1, TransientEffect
  <2>4. QED
    BY <2>2, <2>3, <1>0, <1>3, <1>7, StateFields DEF Fails
<1>8. QED
  BY <1>4, <1>5, <1>6, <1>7, RowShapes DEF Neutral

\* The operator's hand on a row, and what is known to be in effect, outlast an
\* observation.
LEMMA UpdatedKeeps ==
  ASSUME NEW s \in States, NEW r \in Rows
  PROVE  LET u == Updated(s, r) IN
         /\ u.actual = s.actual /\ u.health # "unchecked"
         /\ s.manual => u.manual
<1>1. CASE r.status = "ok"
  <2>1. Updated(s, r) = Success(s)
    BY <1>1 DEF Updated, transition_state, Neutral
  <2>2. QED
    BY <2>1, SuccessEffect DEF Keeps
<1>2. CASE r.status \in Neutral
  <2>1. Updated(s, r) = Inconclusive(s, r)
    BY <1>2 DEF Updated, transition_state, Neutral
  <2>2. QED
    BY <2>1, InconclusiveEffect DEF Keeps
<1>3. CASE r.status \in {"cooling", "disabled"}
  BY <1>3, UnobservedEffect
<1>4. CASE r.status \notin Neutral \cup {"ok", "cooling", "disabled"}
  BY <1>4, FailingEffect DEF Fails, Keeps
<1>5. QED
  BY <1>1, <1>2, <1>3, <1>4

\* What was borne out before an observation is borne out after it.
LEMMA UpdatedBacked ==
  ASSUME NEW s \in States, NEW e \in Seen, NEW r \in Rows, Backed(s, e)
  PROVE  Backed(Updated(s, r), Added(e, r, Updated(s, r).tier \in JudgedTiers))
<1> DEFINE u == Updated(s, r)
           f == Added(e, r, u.tier \in JudgedTiers)
<1>1. /\ s.failures \in 0 .. MaxStreak /\ s.successes \in 0 .. MaxStreak
      /\ e.failures \in 0 .. MaxStreak /\ e.run \in 0 .. MaxStreak
      /\ Up(s.failures) \in 1 .. MaxStreak /\ Up(e.failures) \in 1 .. MaxStreak
      /\ Up(e.run) >= 1
      /\ e.run >= s.successes => Up(e.run) >= Up(s.successes)
      /\ MaxStreak \in Nat
  BY StateFields, SeenFields, UpCounts, ThresholdsAssumption
<1>2. CASE r.status = "ok"
  <2>1. u = Success(s)
    BY <1>2 DEF Updated, transition_state, Neutral
  <2>2. /\ Keeps(u, s) /\ u.failures = 0 /\ u.successes = Up(s.successes)
        /\ u.tier \in {"candidate", "main"}
    BY <2>1, SuccessEffect
  <2>3. r.note # "definitive"
    BY <1>2, RowShapes
  <2>4. /\ f.failures = 0 /\ ~f.rejected /\ f.last = "ok"
        /\ f.run = IF e.last = "ok" THEN Up(e.run) ELSE 1
    BY <1>2, <2>3 DEF Added
  <2>5. f.run >= u.successes
    <3>1. CASE s.successes = 0
      <4>1. Up(0) = 1
        BY ThresholdsAssumption DEF Up
      <4>2. QED
        BY <1>1, <2>2, <2>4, <3>1, <4>1
    <3>2. CASE e.last = "ok" /\ e.run >= s.successes
      BY <1>1, <2>2, <2>4, <3>2
    <3>3. QED
      BY <3>1, <3>2 DEF Backed
  <2>6. QED
    BY <2>2, <2>4, <2>5 DEF Backed, Barred, Keeps, JudgedTiers
<1>3. CASE r.status \in Neutral
  <2>1. u = Inconclusive(s, r)
    BY <1>3 DEF Updated, transition_state, Neutral
  <2>2. /\ Keeps(u, s) /\ u.failures = s.failures /\ u.successes = 0
        /\ u.tier = s.tier \/ (u.tier = "reserve" /\ s.tier = "candidate")
    BY <2>1, InconclusiveEffect
  <2>3. r.note # "definitive" /\ r.status \notin {"ok", "cooling", "disabled"}
    BY <1>3, RowShapes DEF Neutral
  <2>4. /\ f.failures = e.failures /\ f.rejected = e.rejected
        /\ f.marked = (e.marked /\ u.tier \in JudgedTiers)
    <3> DEFINE judged == u.tier \in JudgedTiers
    <3> HIDE DEF judged
    <3>1. /\ Added(e, r, judged).failures = e.failures
          /\ Added(e, r, judged).rejected = e.rejected
          /\ Added(e, r, judged).marked = (e.marked /\ judged)
      BY <1>3, <2>3, SeenFields DEF Added
    <3>2. QED
      BY <3>1 DEF judged
  <2>5. "candidate" \notin Firm /\ "reserve" \notin JudgedTiers
    BY DEF Firm, JudgedTiers
  <2>6. QED
    BY <2>2, <2>4, <2>5 DEF Backed, Barred, Keeps
<1>4. CASE r.status \in {"cooling", "disabled"}
  <2>1. f = e
    BY <1>4 DEF Added
  <2>2. /\ u.health # "unchecked" /\ u.failures = s.failures /\ u.successes = s.successes
        /\ s.manual => u.manual
        /\ u.manual \/ u.tier = "cooling"
    BY <1>4, UnobservedEffect
  <2>3. "cooling" \in Firm /\ "cooling" \notin JudgedTiers
    BY DEF Firm, JudgedTiers, Tiers, NON_ROUTABLE_TIERS, ROUTABLE_TIERS
  <2>4. QED
    BY <2>1, <2>2, <2>3 DEF Backed, Barred
<1>5. CASE r.status \notin Neutral \cup {"ok", "cooling", "disabled"}
  <2>1. /\ Fails(u, s, Tiers)
        /\ r.note = "definitive" => u.tier \in JudgedTiers
        /\ s.tier \in Firm /\ s.failures >= 1 => u.tier \in Firm
    BY <1>5, FailingEffect
  <2>2. /\ u.failures = Up(s.failures) /\ u.successes = 0
        /\ u.manual = s.manual /\ u.health # "unchecked"
    BY <2>1 DEF Fails, Keeps
  <2>3. /\ f.failures = Up(e.failures)
        /\ f.rejected = (r.note = "definitive" \/ e.rejected)
    BY <1>5, AddedFields, SeenFields
  <2>4. JudgedTiers \subseteq Firm
    BY DEF Firm, JudgedTiers, Tiers, NON_ROUTABLE_TIERS, ROUTABLE_TIERS
  <2>5. ASSUME f.rejected PROVE u.manual \/ (u.tier \in Firm /\ u.failures >= 1)
    <3>1. CASE r.note = "definitive"
      BY <1>1, <2>1, <2>2, <2>4, <3>1
    <3>2. CASE e.rejected
      <4>1. s.manual \/ (s.tier \in Firm /\ s.failures >= 1)
        BY <3>2 DEF Backed, Barred
      <4>2. QED
        BY <1>1, <2>1, <2>2, <4>1
    <3>3. QED
      BY <2>3, <2>5, <3>1, <3>2
  <2>6. QED
    BY <1>1, <2>2, <2>3, <2>5 DEF Backed, Barred
<1>6. QED
  BY <1>2, <1>3, <1>4, <1>5

\* A row that an observation leaves to be isolated has the evidence for it, where the
\* policy goes on from that observation.
LEMMA UpdatedJudged ==
  ASSUME NEW s \in States, NEW e \in Seen, NEW r \in Rows, Backed(s, e),
         Updated(s, r).tier \in JudgedTiers, ~Updated(s, r).manual,
         r.status \notin {"upstream_busy", "transient_error", "request_error", "no_grok45"}
  PROVE  LET f == Added(e, r, Updated(s, r).tier \in JudgedTiers) IN
         r.note = "definitive" \/ f.failures >= 2 \/ f.marked
<1> DEFINE u == Updated(s, r)
           f == Added(e, r, u.tier \in JudgedTiers)
<1>1. r.status # "ok"
  <2>1. r.status = "ok" => u = Success(s)
    BY DEF Updated, transition_state, Neutral
  <2>2. QED
    BY <2>1, SuccessEffect DEF JudgedTiers
<1>2. r.status \notin {"cooling", "disabled"}
  BY UnobservedEffect DEF JudgedTiers
<1>3. r.status \notin Neutral \cup {"ok", "cooling", "disabled"}
  BY <1>1, <1>2 DEF Neutral
<1>4. /\ Fails(u, s, Tiers)
      /\ r.note = "definitive" \/ Up(s.failures) >= 2 \/ s.tier \in JudgedTiers
  BY <1>3, FailingEffect
<1>5. ~s.manual /\ s.failures = e.failures
  BY <1>4 DEF Fails, Keeps, Backed
<1>6. s.tier \in JudgedTiers => e.failures >= 1 \/ e.marked
  BY <1>5 DEF Backed
<1>7. f.failures = Up(e.failures) /\ f.marked = (e.marked /\ u.tier \in JudgedTiers)
  BY <1>3, AddedFields
<1>8. QED
  BY <1>4, <1>5, <1>6, <1>7, UpCounts, SeenFields

\* A row out of rotation becomes main by a run of successes only.
LEMMA UpdatedRecovers ==
  ASSUME NEW s \in States, NEW e \in Seen, NEW r \in Rows, Backed(s, e),
         s.tier \in NON_ROUTABLE_TIERS, Updated(s, r).tier = "main"
  PROVE  LET f == Added(e, r, Updated(s, r).tier \in JudgedTiers) IN
         f.last = "ok" /\ f.run >= RecoveryThreshold
<1> DEFINE f == Added(e, r, Updated(s, r).tier \in JudgedTiers)
<1>1. r.status = "ok"
  <2>1. CASE r.status \in Neutral
    <3>1. Updated(s, r) = Inconclusive(s, r)
      BY <2>1 DEF Updated, transition_state, Neutral
    <3>2. QED
      BY <3>1, InconclusiveEffect DEF NON_ROUTABLE_TIERS
  <2>2. CASE r.status \in {"cooling", "disabled"}
    BY <2>2, UnobservedEffect
  <2>3. CASE r.status \notin Neutral \cup {"ok", "cooling", "disabled"}
    BY <2>3, FailingEffect DEF NON_ROUTABLE_TIERS
  <2>4. QED
    BY <2>1, <2>2, <2>3
<1>2. Updated(s, r) = Success(s)
  BY <1>1 DEF Updated, transition_state, Neutral
<1>3. Up(s.successes) >= RecoveryThreshold
  BY <1>2, SuccessEffect
<1>4. Backed(Updated(s, r), f)
  BY UpdatedBacked
<1>5. Updated(s, r).successes = Up(s.successes) /\ Up(s.successes) \in 1 .. MaxStreak
  BY <1>2, SuccessEffect, StateFields, UpCounts
<1>6. f.last = "ok" /\ f.run >= Up(s.successes)
  BY <1>4, <1>5 DEF Backed
<1>7. f.run \in 0 .. MaxStreak
  <2>1. f.run = IF r.status = e.last THEN Up(e.run) ELSE 1
    BY <1>1, AddedFields
  <2>2. QED
    BY <2>1, SeenFields, UpCounts, ThresholdsAssumption
<1>8. QED
  BY <1>3, <1>5, <1>6, <1>7, ThresholdsAssumption

-----------------------------------------------------------------------------
\* The inductive invariant of a history in which no two actors held copies at once.

\* Where the file is in use, what the row says is in effect is what the file says.
Truth(s, f) == s.actual.known /\ f.place = "active" => s.actual = InEffect(f.priority, f.disabled)

\* The row and the file have been set at odds, and nothing mends that.
Astray == undone \/ cut

\* The row s has evidence behind it, and unless the two went astray it knows the file.
Good(s, e, f, lost) == Backed(s, e) /\ (lost \/ Truth(s, f))

\* The evidence as it stands once p has written its copy.
Evidence(p) == IF p = "op" /\ intent \in {"enable", "restore"} THEN Cleared(seen) ELSE seen

Away(f) == f.disabled \/ f.place # "active"

\* One actor at a time holds a copy.
Alone == \A p, q \in Actors : Holding(p) /\ Holding(q) => p = q

\* Until its holder has changed the file, a copy is what the database has.
Copied == \A p \in Actors : Holding(p) /\ at[p] # "finish" => mine[p] = db

\* The last word on the account is in the database, or in the copy of an actor that
\* has changed the file and is about to write the row.
Latest ==
  /\ \A p \in Actors : at[p] = "finish" => Good(mine[p], Evidence(p), file, Astray)
  /\ (\A p \in Actors : at[p] # "finish") => Good(db, seen, file, Astray)

\* What the operator has disabled is in the operator's hand, and nobody is about to
\* put another schedule into effect.
Obeyed ==
  /\ at["op"] = "finish" /\ intent = "disable" => mine["op"].manual /\ (undone \/ Away(file))
  /\ off => /\ db.manual /\ (undone \/ Away(file))
            /\ \A p \in {"scan", "gov"} : at[p] \notin {"reconcile", "finish"}
            /\ at["op"] = "finish" => intent = "disable"

\* An account that the scan is about to isolate has the evidence against it.
AtGovern ==
  at["scan"] = "govern" /\ ToQuarantine(mine["scan"]) /\ ~LeftAlone(mine["scan"]) =>
    row.note = "definitive" \/ seen.failures >= 2 \/ seen.marked

\* The database is borne out at all times: a crash may make it the last word again.
Calm == /\ Alone /\ Copied /\ Latest /\ Obeyed /\ AtGovern
        /\ Backed(db, seen)

\* While p holds a copy nobody else does, and nobody else is about to write.
LEMMA OthersAway ==
  ASSUME Alone, NEW p \in Actors, Holding(p), NEW q \in Actors, q # p
  PROVE  ~Holding(q) /\ at[q] \in NoCopy
  BY DEF Alone, Holding

\* The copy of an actor that has changed nothing yet is good.
LEMMA HeldGood ==
  ASSUME Alone, Copied, Latest, NEW p \in Actors, Holding(p), at[p] # "finish"
  PROVE  mine[p] = db /\ Good(mine[p], seen, file, Astray)
<1>1. \A q \in Actors : at[q] # "finish"
  BY OthersAway DEF NoCopy
<1>2. QED
  BY <1>1 DEF Copied, Latest

\* An actor goes on, or gives up, and changes nothing but perhaps the file, and that
\* only as an old payload that is known to have gone over a change.
LEMMA MoveKept ==
  ASSUME Inv, Calm, NEW p \in Actors, NEW from \in Stages \ {"finish"},
         NEW to \in Stages \ {"finish", "govern"}, Step(p, from, to),
         UNCHANGED <<db, intent, off, cut, seen>>,
         (file' = file /\ undone' = undone) \/ undone',
         row' = row \/ p = "scan",
         to \in NoCopy \/ (Holding(p) /\ mine'[p] = mine[p]),
         \A q \in Actors \ {p} : mine'[q] = mine[q],
         to = "reconcile" => ~off
  PROVE  Calm'
<1>1. \A q \in Actors : at'[q] = IF q = p THEN to ELSE at[q]
  BY DEF Step, Inv, TypeOK
<1>2. at[p] = from
  BY DEF Step
<1>3. \A q \in Actors : Holding(q)' => Holding(q)
  BY <1>1 DEF Holding
<1>4. Alone' /\ Copied'
  <2>1. Alone'
    BY <1>3 DEF Alone, Calm
  <2>2. ASSUME NEW q \in Actors, Holding(q)', at'[q] # "finish" PROVE mine'[q] = db'
    <3>1. Holding(q) /\ at[q] # "finish" /\ mine'[q] = mine[q]
      BY <1>1, <1>2, <1>3, <2>2 DEF Holding
    <3>2. QED
      BY <3>1 DEF Calm, Copied
  <2>3. QED
    BY <2>1, <2>2 DEF Copied
<1>5. \A q \in Actors : at'[q] = "finish" => at[q] = "finish" /\ mine'[q] = mine[q]
  BY <1>1
<1>6. \A q \in Actors : at[q] = "finish" => at'[q] = "finish"
  BY <1>1, <1>2
<1>7. Latest'
  <2>1. ASSUME NEW s, NEW e, Good(s, e, file, Astray) PROVE Good(s, e, file', Astray')
    BY <2>1 DEF Good, Astray
  <2>2. \A q : Evidence(q)' = Evidence(q)
    BY DEF Evidence
  <2>3. QED
    BY <1>5, <1>6, <2>1, <2>2 DEF Latest, Calm
<1>8. Obeyed'
  BY <1>1, <1>5 DEF Obeyed, Calm, Actors
<1>9. AtGovern'
  <2>1. ASSUME at'["scan"] = "govern"
        PROVE  at["scan"] = "govern" /\ mine'["scan"] = mine["scan"] /\ row' = row
    BY <1>1, <2>1 DEF Actors
  <2>2. QED
    BY <2>1 DEF AtGovern, Calm, LeftAlone, ToQuarantine
<1>10. Backed(db', seen')
  BY DEF Calm
<1>11. QED
  BY <1>4, <1>7, <1>8, <1>9, <1>10 DEF Calm

\* An actor takes a copy of the row.
LEMMA ReadKept ==
  ASSUME Inv, Calm, NEW p \in Actors, NEW from \in {"idle", "probed"},
         NEW to \in {"update", "choose", "file"}, Step(p, from, to), Read(p), ~raced',
         UNCHANGED <<db, file, row, undone, cut, off, seen>>
  PROVE  Calm'
<1>1. \A q \in Actors : at'[q] = IF q = p THEN to ELSE at[q]
  BY DEF Step, Inv, TypeOK
<1>2. \A q \in Actors \ {p} : ~Holding(q)
  BY DEF Read
<1>3. \A q \in Actors \ {p} : ~Holding(q)'
  BY <1>1, <1>2 DEF Holding
<1>4. at[p] = from /\ mine'[p] = db
  BY DEF Step, Read, Inv, TypeOK
<1>5. \A q \in Actors : at[q] # "finish" /\ at'[q] # "finish"
  BY <1>1, <1>2, <1>4 DEF Holding, NoCopy
<1>6. Alone' /\ Copied'
  BY <1>3, <1>4 DEF Alone, Copied
<1>7. Latest'
  BY <1>5 DEF Latest, Calm, Astray
<1>8. Obeyed'
  <2>1. \A q \in {"scan", "gov"} : at'[q] \notin {"reconcile", "finish"}
    BY <1>1, <1>2 DEF Holding, Actors, NoCopy
  <2>2. QED
    BY <1>5, <2>1 DEF Obeyed, Calm, Actors
<1>9. at'["scan"] # "govern"
  BY <1>1, <1>2 DEF Holding, Actors, NoCopy
<1>10. QED
  BY <1>6, <1>7, <1>8, <1>9 DEF Calm, AtGovern

\* The holder of a copy changes the file, and is about to write the row.
LEMMA ChangeKept ==
  ASSUME Inv, Calm, NEW p \in Actors, NEW from \in Stages \ {"finish"}, Holding(p),
         Step(p, from, "finish"), UNCHANGED <<db, intent, undone, cut, seen>>,
         Good(mine'[p], Evidence(p), file', Astray),
         p = "op" /\ intent = "disable" => mine'["op"].manual /\ (undone \/ Away(file')),
         off' => off /\ p = "op" /\ intent = "disable"
  PROVE  Calm'
<1>1. \A q \in Actors : at'[q] = IF q = p THEN "finish" ELSE at[q]
  BY DEF Step, Inv, TypeOK
<1>2. \A q \in Actors \ {p} : at'[q] \in NoCopy
  BY <1>1, OthersAway DEF Calm
<1>3. Alone' /\ Copied'
  BY <1>1, <1>2 DEF Alone, Copied, Holding
<1>4. Latest'
  <2>1. Evidence(p)' = Evidence(p) /\ Astray' = Astray
    BY DEF Evidence, Astray
  <2>2. QED
    BY <1>1, <1>2, <2>1 DEF Latest, NoCopy
<1>5. Obeyed'
  <2>1. at'["op"] = "finish" => p = "op"
    BY <1>2 DEF Actors, NoCopy
  <2>2. p = "op" => \A q \in {"scan", "gov"} : at'[q] \notin {"reconcile", "finish"}
    BY <1>2 DEF Actors, NoCopy
  <2>3. QED
    BY <2>1, <2>2 DEF Obeyed, Calm
<1>6. AtGovern'
  BY <1>1, <1>2 DEF AtGovern, Actors, NoCopy
<1>7. QED
  BY <1>3, <1>4, <1>5, <1>6 DEF Calm

\* The holder of a copy writes it back.
LEMMA WriteKept ==
  ASSUME Inv, Calm, NEW p \in Actors, Leave(p, "finish"), db' = mine[p],
         UNCHANGED <<file, intent, undone, cut>>, seen' = Evidence(p),
         off' => db'.manual /\ (undone \/ Away(file))
  PROVE  Calm'
<1>1. at[p] = "finish" /\ \A q \in Actors : at'[q] = IF q = p THEN "idle" ELSE at[q]
  BY DEF Leave, Step, Inv, TypeOK
<1>2. \A q \in Actors : at'[q] \in NoCopy
  BY <1>1, OthersAway DEF Calm, Holding, NoCopy
<1>3. Alone' /\ Copied'
  BY <1>2 DEF Alone, Copied, Holding
<1>4. Good(db', seen', file', Astray')
  BY <1>1 DEF Calm, Latest, Astray
<1>5. Latest'
  BY <1>2, <1>4 DEF Latest, NoCopy
<1>6. Obeyed' /\ AtGovern'
  BY <1>2 DEF Obeyed, AtGovern, Actors, NoCopy
<1>7. QED
  BY <1>3, <1>4, <1>5, <1>6 DEF Calm, Good

\* The holder of a copy loses it, and has not written it back.
LEMMA LoseKept ==
  ASSUME Inv, Calm, NEW p \in Actors, Leave(p, "finish"), cut',
         UNCHANGED <<db, file, intent, undone, off, seen>>
  PROVE  Calm'
<1>1. at[p] = "finish" /\ \A q \in Actors : at'[q] = IF q = p THEN "idle" ELSE at[q]
  BY DEF Leave, Step, Inv, TypeOK
<1>2. \A q \in Actors : at'[q] \in NoCopy
  BY <1>1, OthersAway DEF Calm, Holding, NoCopy
<1>3. Alone' /\ Copied'
  BY <1>2 DEF Alone, Copied, Holding
<1>4. Latest'
  BY <1>2 DEF Latest, NoCopy, Good, Astray, Calm
<1>5. Obeyed' /\ AtGovern'
  BY <1>2 DEF Obeyed, AtGovern, Actors, NoCopy, Calm
<1>6. QED
  BY <1>3, <1>4, <1>5 DEF Calm

-----------------------------------------------------------------------------
\* The actions keep it.

\* A row that has been checked is not taken into the inventory again.
LEMMA CheckedKept ==
  ASSUME NEW s, NEW f, s.health # "unchecked" PROVE Bootstrap(s, f) = s
  BY DEF Bootstrap

LEMMA BootstrapBacked ==
  ASSUME NEW s \in States, NEW e \in Seen, NEW f \in Files, s.health = "unchecked",
         Backed(s, e)
  PROVE  LET q == Bootstrap(s, f) IN
         Backed(q, [e EXCEPT !.marked = q.tier \in JudgedTiers]) /\ Truth(q, f)
<1> DEFINE a == InEffect(f.priority, f.disabled)
           k == [s EXCEPT !.actual = a]
           m == [k EXCEPT !.manual = f.mark = "manual_disabled",
                          !.eligible = f.mark # "manual_disabled",
                          !.cool = IF f.cool # "none" THEN f.cool ELSE @]
           h == [k EXCEPT !.tier = "manual_disabled", !.disabled = TRUE,
                          !.priority = OwnPriority(f, OBSERVE_PRIORITY),
                          !.manual = TRUE, !.eligible = FALSE]
           q == Bootstrap(s, f)
<1>1. k \in States /\ k.actual = a /\ k.health = s.health /\ k.failures = s.failures
      /\ k.successes = s.successes
  <2>1. a \in Actuals
    BY InEffectType DEF Files
  <2> HIDE DEF a
  <2>2. QED
    BY <2>1 DEF States
<1> HIDE DEF k
<1>2. m \in States /\ m.actual = a /\ m.health = s.health /\ m.failures = s.failures
      /\ m.successes = s.successes
  <2>1. m \in States
    BY <1>1, MarkedType
  <2>2. QED
    BY <1>1, <2>1 DEF States
<1>3. h.actual = a /\ h.health = s.health /\ h.failures = s.failures
      /\ h.successes = s.successes /\ h.manual
  BY <1>1 DEF States
<1>4. q = IF f.managed /\ f.mark # ""
          THEN IF f.mark \in Enabled THEN Route(m, f.mark) ELSE Shut(m, f.mark)
          ELSE IF f.disabled THEN h ELSE [Route(k, "reserve") EXCEPT !.eligible = FALSE]
  BY DEF Bootstrap, k, m, h
<1> HIDE DEF m, h
<1>5. /\ q.actual = a /\ q.health = s.health /\ q.failures = s.failures
      /\ q.successes = s.successes
  <2>1. /\ Carries(Route(m, f.mark), m) /\ Route(m, f.mark).tier = f.mark
        /\ Carries(Shut(m, f.mark), m) /\ Shut(m, f.mark).tier = f.mark
    BY <1>2, RouteCarries, ShutCarries
  <2>2. Route(k, "reserve") \in States /\ Carries(Route(k, "reserve"), k)
        /\ Route(k, "reserve").tier = "reserve"
    BY <1>1, RouteCarries, RouteSound DEF Sound, Enabled, ROUTABLE_TIERS
  <2> DEFINE g == [Route(k, "reserve") EXCEPT !.eligible = FALSE]
  <2>3. Carries(g, k) /\ g.tier = "reserve"
    BY <2>2 DEF Carries, States
  <2> HIDE DEF g
  <2>4. \/ q = Route(m, f.mark) \/ q = Shut(m, f.mark) \/ q = h \/ q = g
    BY <1>4 DEF g
  <2>5. QED
    BY <1>1, <1>2, <1>3, <2>1, <2>3, <2>4 DEF Carries
<1> DEFINE e2 == [e EXCEPT !.marked = q.tier \in JudgedTiers]
<1>6. /\ e2.marked = (q.tier \in JudgedTiers) /\ e2.failures = e.failures
      /\ e2.rejected = e.rejected /\ e2.last = e.last /\ e2.run = e.run
  BY DEF Seen
<1> HIDE DEF q, e2
<1>7. Backed(q, e2)
  BY <1>5, <1>6 DEF Backed, Barred
<1>8. Truth(q, f)
  BY <1>5 DEF Truth, a
<1>9. QED
  BY <1>7, <1>8 DEF q, e2

LEMMA ScanListCalm == Inv /\ Calm /\ ScanList /\ ~raced' => Calm'
<1> SUFFICES ASSUME Inv, Calm, ScanList, ~raced' PROVE Calm'
  OBVIOUS
<1>1. CASE db' = db
  <2>1. \A q \in Actors \ {"scan"} : mine'[q] = mine[q]
    BY DEF ScanList
  <2>2. /\ "scan" \in Actors /\ "idle" \in Stages \ {"finish"}
        /\ "listed" \in Stages \ {"finish", "govern"}
    BY DEF Actors, Stages
  <2>3. UNCHANGED <<db, file, intent, undone, cut, off, seen>> /\ row' = row
    BY <1>1 DEF ScanList, Inv, TypeOK
  <2>4. Step("scan", "idle", "listed")
    BY DEF ScanList
  <2>5. "listed" \in NoCopy
    BY DEF NoCopy
  <2>6. QED
    BY <2>1, <2>2, <2>3, <2>4, <2>5, MoveKept
<1>2. CASE db' # db
  <2>1. \A q \in Actors : ~Holding(q)
    BY <1>2 DEF ScanList
  <2>2. \A q \in Actors : ~Holding(q)' /\ at'[q] \in NoCopy
    BY <2>1 DEF Holding, NoCopy, ScanList, Step, Inv, TypeOK
  <2>3. Backed(db, seen)
    BY DEF Calm
  <2>4. db.health = "unchecked"
    BY <1>2, CheckedKept DEF ScanList
  <2>5. Backed(db', seen') /\ Truth(db', file')
    <3>1. /\ db' = Bootstrap(db, file) /\ file' = file
          /\ seen' = [seen EXCEPT !.marked = db'.tier \in JudgedTiers]
      BY <1>2 DEF ScanList
    <3>2. QED
      BY <2>3, <2>4, <3>1, BootstrapBacked DEF Inv, TypeOK
  <2>6. ~off'
    BY <1>2 DEF ScanList
  <2>7. Alone' /\ Copied'
    BY <2>2 DEF Alone, Copied
  <2>8. Latest'
    BY <2>2, <2>5 DEF Latest, Good, NoCopy
  <2>9. Obeyed' /\ AtGovern'
    BY <2>2, <2>6 DEF Obeyed, AtGovern, Actors, NoCopy
  <2>10. QED
    BY <2>5, <2>7, <2>8, <2>9 DEF Calm
<1>3. QED
  BY <1>1, <1>2

LEMMA ScanWriteCalm == Inv /\ Calm /\ ScanWrite => Calm'
<1> SUFFICES ASSUME Inv, Calm, ScanWrite PROVE Calm'
  OBVIOUS
<1> DEFINE s == mine["scan"]
           u == Updated(s, row)
<1>1. at["scan"] = "update" /\ \A q \in Actors : at'[q] = IF q = "scan" THEN "govern" ELSE at[q]
  BY DEF ScanWrite, Step, Inv, TypeOK, Actors
<1>2. s \in States /\ seen \in Seen /\ row \in Rows
  BY DEF Inv, TypeOK, Actors
<1>3. s = db /\ Good(s, seen, file, Astray)
  BY <1>1, HeldGood DEF Holding, NoCopy, Calm, Actors
<1>4. mine'["scan"] = u /\ db' = u
  BY DEF ScanWrite, Inv, TypeOK, Actors
<1>5. seen' = Added(seen, row, u.tier \in JudgedTiers)
  BY <1>4 DEF ScanWrite, Added, Observes, Failing, Neutral
<1>6. Backed(u, seen')
  BY <1>2, <1>3, <1>5, UpdatedBacked DEF Good
<1>7. u.actual = s.actual /\ (s.manual => u.manual)
  BY <1>2, UpdatedKeeps
<1>8. Good(db', seen', file', Astray')
  BY <1>3, <1>4, <1>6, <1>7 DEF ScanWrite, Good, Truth, Astray
<1>9. \A q \in Actors \ {"scan"} : at'[q] \in NoCopy
  BY <1>1, OthersAway DEF Calm, Holding, NoCopy, Actors
<1>10. Alone' /\ Copied'
  BY <1>1, <1>4, <1>9 DEF Alone, Copied, Holding
<1>11. Latest'
  BY <1>1, <1>8, <1>9 DEF Latest, NoCopy
<1>12. Obeyed'
  <2>1. at'["op"] # "finish" /\ \A q \in {"scan", "gov"} : at'[q] \notin {"reconcile", "finish"}
    BY <1>1, <1>9 DEF Actors, NoCopy
  <2>2. off' => db'.manual /\ (undone' \/ Away(file'))
    BY <1>3, <1>4, <1>7 DEF ScanWrite, Calm, Obeyed
  <2>3. QED
    BY <2>1, <2>2 DEF Obeyed
<1>13. AtGovern'
  <2>1. ASSUME ToQuarantine(mine["scan"])', ~LeftAlone(mine["scan"])'
        PROVE  row.note = "definitive" \/ seen'.failures >= 2 \/ seen'.marked
    <3>1. u.tier \in JudgedTiers /\ ~u.manual
      BY <1>4, <2>1 DEF ToQuarantine, LeftAlone
    <3>2. row.status # "upstream_busy"
      BY <1>4, <2>1 DEF LeftAlone, ScanWrite
    <3>3. row.status \notin Unsettled
      BY <1>4, <2>1, <3>1 DEF LeftAlone, ScanWrite, JudgedTiers
    <3>4. QED
      BY <1>2, <1>3, <1>5, <3>1, <3>2, <3>3, UpdatedJudged DEF Unsettled, Good
  <2>2. QED
    BY <2>1 DEF AtGovern, ScanWrite
<1>14. QED
  BY <1>8, <1>10, <1>11, <1>12, <1>13 DEF Calm, Good

LEMMA IsolateCalm == Inv /\ Calm /\ Isolate => Calm'
<1> SUFFICES ASSUME Inv, Calm, Isolate PROVE Calm'
  OBVIOUS
<1> DEFINE s == mine["scan"]
           a == InEffect(OBSERVE_PRIORITY, TRUE)
<1>1. at["scan"] = "govern" /\ "scan" \in Actors /\ Holding("scan")
  BY DEF Isolate, Step, Holding, NoCopy, Actors
<1>2. s = db /\ Good(s, seen, file, Astray) /\ s \in States
  BY <1>1, HeldGood DEF Calm, Inv, TypeOK
<1>3. mine'["scan"] = [s EXCEPT !.actual = a]
  BY DEF Isolate, Inv, TypeOK, Actors
<1>4. Backed(mine'["scan"], seen)
  BY <1>2, <1>3 DEF Good, Backed, Barred, States
<1>5. file'.place = "quarantine"
  BY DEF Isolate, Inv, TypeOK, Files
<1>6. Good(mine'["scan"], Evidence("scan"), file', Astray)
  BY <1>4, <1>5 DEF Good, Truth, Evidence
<1>7. ~off
  BY <1>2 DEF Isolate, LeftAlone, Calm, Obeyed
<1>8. "govern" \in Stages \ {"finish"}
  BY DEF Stages
<1>9. QED
  BY <1>1, <1>6, <1>7, <1>8, ChangeKept DEF Isolate

LEMMA PatchCalm ==
  ASSUME NEW p \in {"scan", "gov"} PROVE Inv /\ Calm /\ Patch(p) => Calm'
<1> SUFFICES ASSUME Inv, Calm, Patch(p) PROVE Calm'
  OBVIOUS
<1> DEFINE s == mine[p]
           a == InEffect(s.priority, s.disabled)
<1>1. at[p] = "reconcile" /\ p \in Actors /\ Holding(p)
  BY DEF Patch, Step, Holding, NoCopy, Actors
<1>2. s = db /\ Good(s, seen, file, Astray) /\ s \in States
  BY <1>1, HeldGood DEF Calm, Inv, TypeOK
<1>3. ASSUME ByHand(s) PROVE Good(mine'[p], seen, file', Astray)
  <2>1. mine'[p] = [s EXCEPT !.manual = TRUE] /\ file' = file
    BY <1>1, <1>3 DEF Patch, Inv, TypeOK
  <2>2. QED
    BY <1>2, <2>1 DEF Good, Backed, Barred, Truth, States
<1>4. ASSUME ~ByHand(s) PROVE Good(mine'[p], seen, file', Astray)
  <2>1. mine'[p] = [s EXCEPT !.actual = a]
    BY <1>1, <1>4 DEF Patch, Inv, TypeOK
  <2>2. file'.priority = s.priority /\ file'.disabled = s.disabled
    BY <1>4 DEF Patch, Inv, TypeOK, Files
  <2> HIDE DEF s
  <2>3. /\ mine'[p].actual = a /\ mine'[p].health = s.health /\ mine'[p].manual = s.manual
        /\ mine'[p].failures = s.failures /\ mine'[p].successes = s.successes
        /\ mine'[p].tier = s.tier
    BY <1>2, <2>1 DEF States
  <2>4. QED
    BY <1>2, <2>2, <2>3 DEF Good, Backed, Barred, Truth
<1>5. Good(mine'[p], seen, file', Astray)
  BY <1>3, <1>4
<1>6. ~off
  BY <1>1 DEF Calm, Obeyed
<1>7. "reconcile" \in Stages \ {"finish"}
  BY DEF Stages
<1>8. /\ Step(p, "reconcile", "finish") /\ UNCHANGED <<db, intent, undone, cut, seen>>
      /\ off' = off
  BY DEF Patch
<1>9. p # "op" /\ Evidence(p) = seen
  BY DEF Evidence
<1>10. QED
  BY <1>1, <1>5, <1>6, <1>7, <1>8, <1>9, ChangeKept

LEMMA ActualsEqual ==
  ASSUME NEW x \in Actuals, NEW y \in Actuals, x.known = y.known,
         x.priority = y.priority, x.disabled = y.disabled
  PROVE  x = y
  BY DEF Actuals

LEMMA InEffectDisabled ==
  ASSUME NEW p \in Priorities \cup {0}, NEW c \in BOOLEAN, NEW d \in BOOLEAN
  PROVE  [InEffect(p, c) EXCEPT !.disabled = d] = InEffect(p, d)
<1>1. InEffect(p, c) \in Actuals /\ InEffect(p, d) \in Actuals
  BY InEffectType
<1>2. [InEffect(p, c) EXCEPT !.disabled = d] \in Actuals
  BY <1>1 DEF Actuals
<1>3. QED
  BY <1>1, <1>2, ActualsEqual DEF InEffect

LEMMA OpFileCalm == Inv /\ Calm /\ OpFile => Calm'
<1> SUFFICES ASSUME Inv, Calm, OpFile PROVE Calm'
  OBVIOUS
<1> DEFINE s == mine["op"]
           q == mine'["op"]
           ev == Evidence("op")
           Handled == /\ Good(q, ev, file', Astray)
                      /\ intent = "disable" => q.manual /\ Away(file')
                      /\ off' => off /\ intent = "disable"
<1>1. at["op"] = "file" /\ "op" \in Actors /\ Holding("op")
  BY DEF OpFile, Step, Holding, NoCopy, Actors
<1>2. s = db /\ Good(s, seen, file, Astray) /\ s \in States /\ file \in Files /\ seen \in Seen
  BY <1>1, HeldGood DEF Calm, Inv, TypeOK
<1>4. /\ ev.last = seen.last /\ ev.run = seen.run
      /\ ev.failures \in {0, seen.failures} /\ (ev.rejected => seen.rejected)
      /\ intent \in {"enable", "restore"} => ev.failures = 0 /\ ~ev.rejected
  BY <1>2 DEF Evidence, Cleared, Seen
<1> HIDE DEF ev
\* A row that stays as it is, and is now in the operator's hand, is backed.
<1>5. ASSUME q.manual, q.health = s.health, q.failures = s.failures,
             q.successes = s.successes
      PROVE  Backed(q, ev)
  BY <1>2, <1>4, <1>5 DEF Good, Backed, Barred
<1>6. ASSUME OpEnable PROVE Handled
  <2> DEFINE b == [s.actual EXCEPT !.disabled = FALSE]
  <2>1. q = [s EXCEPT !.tier = "reserve", !.disabled = FALSE, !.manual = TRUE,
                      !.priority = OwnPriority(file, RESERVE_PRIORITY), !.actual = b]
    BY <1>1, <1>6 DEF OpEnable, Inv, TypeOK
  <2> HIDE DEF b
  <2>2. /\ q.manual /\ q.health = s.health /\ q.failures = s.failures
        /\ q.successes = s.successes /\ q.actual = b
    BY <1>2, <2>1 DEF States
  <2>3. Astray \/ Truth(q, file')
    <3>1. file'.place = file.place /\ file'.priority = file.priority /\ ~file'.disabled
          /\ file.place = "active" /\ file'.disabled = FALSE
      BY <1>2, <1>6 DEF OpEnable, Files
    <3>2. s.actual \in Actuals
      BY <1>2 DEF States
    <3>3. b.known = s.actual.known
      BY <3>2 DEF b, Actuals
    <3>4. Astray \/ (s.actual.known => s.actual = InEffect(file.priority, file.disabled))
      BY <1>2, <3>1 DEF Good, Truth
    <3>5. Astray \/ (s.actual.known => b = InEffect(file'.priority, file'.disabled))
      <4>1. file.priority \in Priorities \cup {0} /\ file.disabled \in BOOLEAN
        BY <1>2 DEF Files
      <4>2. QED
        BY <3>1, <3>4, <4>1, InEffectDisabled DEF b
    <3>6. QED
      BY <2>2, <3>3, <3>5 DEF Truth
  <2>4. QED
    BY <1>5, <1>6, <2>2, <2>3 DEF Good, OpEnable
<1>7. ASSUME OpDisable PROVE Handled
  <2> DEFINE b == [s.actual EXCEPT !.disabled = TRUE]
  <2>1. q = [s EXCEPT !.tier = "manual_disabled", !.disabled = TRUE, !.manual = TRUE,
                      !.actual = b]
    BY <1>1, <1>7 DEF OpDisable, Inv, TypeOK
  <2> HIDE DEF b
  <2>2. /\ q.manual /\ q.health = s.health /\ q.failures = s.failures
        /\ q.successes = s.successes /\ q.actual = b
    BY <1>2, <2>1 DEF States
  <2>3. (Astray \/ Truth(q, file')) /\ Away(file')
    <3>1. file'.place = file.place /\ file'.priority = file.priority
          /\ file.place = "active" /\ file'.disabled = TRUE
      BY <1>2, <1>7 DEF OpDisable, Files
    <3>2. s.actual \in Actuals
      BY <1>2 DEF States
    <3>3. b.known = s.actual.known
      BY <3>2 DEF b, Actuals
    <3>4. Astray \/ (s.actual.known => s.actual = InEffect(file.priority, file.disabled))
      BY <1>2, <3>1 DEF Good, Truth
    <3>5. Astray \/ (s.actual.known => b = InEffect(file'.priority, file'.disabled))
      <4>1. file.priority \in Priorities \cup {0} /\ file.disabled \in BOOLEAN
        BY <1>2 DEF Files
      <4>2. Astray \/ (s.actual.known => b = InEffect(file.priority, TRUE))
        <5>1. [InEffect(file.priority, file.disabled) EXCEPT !.disabled = TRUE]
              = InEffect(file.priority, TRUE)
          BY <4>1, InEffectDisabled, Zenon
        <5>2. QED
          BY <3>4, <5>1, Zenon DEF b
      <4>3. InEffect(file.priority, TRUE) = InEffect(file'.priority, file'.disabled)
        BY <3>1
      <4>4. QED
        BY <4>2, <4>3
    <3>6. QED
      BY <2>2, <3>1, <3>3, <3>5 DEF Truth, Away
  <2>4. QED
    BY <1>5, <1>7, <2>2, <2>3 DEF Good, OpDisable
<1>8. ASSUME OpQuarantine PROVE Handled
  <2> DEFINE b == [s.actual EXCEPT !.disabled = TRUE]
  <2>1. q = [s EXCEPT !.tier = "quarantine", !.disabled = TRUE, !.manual = TRUE,
                      !.actual = b]
    BY <1>1, <1>8 DEF OpQuarantine, Inv, TypeOK
  <2> HIDE DEF b
  <2>2. /\ q.manual /\ q.health = s.health /\ q.failures = s.failures
        /\ q.successes = s.successes
    BY <1>2, <2>1 DEF States
  <2>3. file'.place = "quarantine"
    BY <1>2, <1>8 DEF OpQuarantine, Files
  <2>4. QED
    BY <1>5, <1>8, <2>2, <2>3 DEF Good, Truth, OpQuarantine
<1>9. ASSUME OpRestore PROVE Handled
  <2> DEFINE a == InEffect(OBSERVE_PRIORITY, TRUE)
             d == [default_state EXCEPT !.health = "other"]
  <2>1. q = [d EXCEPT !.actual = a]
    BY <1>1, <1>9 DEF OpRestore, Inv, TypeOK
  <2>2. /\ d.tier = "candidate" /\ d.health = "other" /\ d.failures = 0
        /\ d.successes = 0 /\ d.manual = FALSE
    BY DEF default_state
  <2>3. q.actual = a /\ q.tier = "candidate" /\ q.health = "other" /\ q.failures = 0
        /\ q.successes = 0
    BY <2>1 DEF default_state
  <2>4. file'.priority = OBSERVE_PRIORITY /\ file'.disabled = TRUE
    BY <1>9 DEF OpRestore
  <2>5. ev.failures = 0 /\ ~ev.rejected
    BY <1>4, <1>9 DEF OpRestore
  <2>6. QED
    BY <1>9, <2>3, <2>4, <2>5 DEF Good, Backed, Barred, Truth, JudgedTiers, OpRestore
<1>10. Handled
  BY <1>6, <1>7, <1>8, <1>9 DEF OpFile
<1>11. "file" \in Stages \ {"finish"}
  BY DEF Stages
<1>12. /\ Step("op", "file", "finish") /\ UNCHANGED <<db, intent, undone, cut, seen>>
       /\ off' => off /\ intent = "disable"
  BY <1>10 DEF OpFile
<1>13. QED
  BY <1>1, <1>10, <1>11, <1>12, ChangeKept DEF ev

LEMMA GovRebalanceCalm == Inv /\ Calm /\ GovRebalance => Calm'
<1> SUFFICES ASSUME Inv, Calm, GovRebalance PROVE Calm'
  OBVIOUS
<1> DEFINE s == mine["gov"]
           tier == IF s.tier = "main" THEN "reserve" ELSE "main"
           u == Route(s, tier)
<1>1. at["gov"] = "choose" /\ \A q \in Actors : at'[q] = IF q = "gov" THEN "reconcile" ELSE at[q]
  BY DEF GovRebalance, Step, Inv, TypeOK, Actors
<1>2. s = db /\ s \in States /\ Good(s, seen, file, Astray)
  BY <1>1, HeldGood DEF Holding, NoCopy, Calm, Actors, Inv, TypeOK
<1>3. mine'["gov"] = u /\ db' = u
  BY DEF GovRebalance, Inv, TypeOK, Actors
<1>4. Carries(u, s) /\ u.tier \in {"main", "reserve"}
  BY <1>2, RouteCarries
<1>5. s.tier \in ROUTABLE_TIERS /\ s.tier \notin Firm
  BY DEF GovRebalance, Firm
<1> HIDE DEF u
<1>6. Good(db', seen', file', Astray')
  BY <1>2, <1>3, <1>4, <1>5
     DEF GovRebalance, Good, Backed, Barred, Truth, Carries, JudgedTiers, Astray
<1>7. \A q \in Actors \ {"gov"} : at'[q] \in NoCopy
  BY <1>1, OthersAway DEF Calm, Holding, NoCopy, Actors
<1>8. Alone' /\ Copied'
  BY <1>1, <1>3, <1>7 DEF Alone, Copied, Holding
<1>9. Latest'
  BY <1>1, <1>6, <1>7 DEF Latest, NoCopy
<1>10. Obeyed'
  <2>1. at'["op"] # "finish" /\ ~off'
    BY <1>7 DEF GovRebalance, Actors, NoCopy
  <2>2. QED
    BY <2>1 DEF Obeyed
<1>11. AtGovern'
  BY <1>7 DEF AtGovern, Actors, NoCopy
<1>12. QED
  BY <1>6, <1>8, <1>9, <1>10, <1>11 DEF Calm, Good

LEMMA FinishCalm ==
  ASSUME NEW p \in {"scan", "gov"} PROVE Inv /\ Calm /\ Finish(p) => Calm'
<1> SUFFICES ASSUME Inv, Calm, Finish(p) PROVE Calm'
  OBVIOUS
<1>1. ~off /\ off' = off /\ p \in Actors /\ seen' = Evidence(p)
  BY DEF Finish, Leave, Step, Calm, Obeyed, Actors, Evidence
<1>2. QED
  BY <1>1, WriteKept DEF Finish

LEMMA OpWriteCalm == Inv /\ Calm /\ OpWrite => Calm'
<1> SUFFICES ASSUME Inv, Calm, OpWrite PROVE Calm'
  OBVIOUS
<1>1. at["op"] = "finish" /\ "op" \in Actors
  BY DEF OpWrite, Leave, Step, Actors
<1>2. off' => intent = "disable"
  BY <1>1 DEF OpWrite, Calm, Obeyed
<1>3. off' => db'.manual /\ (undone \/ Away(file))
  BY <1>1, <1>2 DEF OpWrite, Calm, Obeyed
<1>4. Leave("op", "finish") /\ db' = mine["op"] /\ seen' = Evidence("op")
      /\ UNCHANGED <<file, intent, undone, cut>>
  BY DEF OpWrite, Evidence
<1>5. QED
  BY <1>1, <1>3, <1>4, WriteKept

\* An actor that gives up its copy.
LEMMA LeaveCalm ==
  ASSUME Inv, Calm, NEW p \in Actors, NEW from \in Stages \ {"finish"}, Leave(p, from),
         UNCHANGED <<db, file, row, intent, undone, cut, off, seen>>
  PROVE  Calm'
<1>1. \A q \in Actors \ {p} : mine'[q] = mine[q]
  BY DEF Leave, Inv, TypeOK
<1>2. "idle" \in Stages \ {"finish", "govern"} /\ "idle" \in NoCopy
  BY DEF Stages, NoCopy
<1>3. QED
  BY <1>1, <1>2, MoveKept DEF Leave

\* A probe holds no copy of the row, whatever it does to the file.
LEMMA ProbeCalm == Inv /\ Calm /\ (Verdict \/ Load \/ Refresh \/ Probe \/ Unread) => Calm'
<1> SUFFICES ASSUME Inv, Calm, Verdict \/ Load \/ Refresh \/ Probe \/ Unread PROVE Calm'
  OBVIOUS
<1>1. /\ "scan" \in Actors
      /\ {"listed", "loaded", "refreshed", "probed"} \subseteq Stages \ {"finish"}
      /\ {"loaded", "refreshed", "probed", "idle"} \subseteq
           (Stages \ {"finish", "govern"}) \cap NoCopy
      /\ "reconcile" \notin NoCopy
  BY DEF Actors, Stages, NoCopy
<1>2. /\ UNCHANGED <<db, intent, off, cut, seen>> /\ mine' = mine
      /\ (file' = file /\ undone' = undone) \/ undone'
  <2>1. CASE Verdict \/ Load \/ Probe \/ Unread
    BY <2>1 DEF Verdict, Load, Probe, Unread
  <2>2. CASE Refresh
    <3>1. UNCHANGED <<db, intent, off, cut, seen>> /\ mine' = mine
      BY <2>2 DEF Refresh
    <3>2. undone \in BOOLEAN
      BY DEF Inv, TypeOK
    <3>3. taken = file => file' = file /\ undone' = undone
      BY <2>2, <3>2 DEF Refresh
    <3>4. taken # file => undone'
      BY <2>2 DEF Refresh
    <3>5. QED
      BY <3>1, <3>3, <3>4
  <2>3. QED
    BY <2>1, <2>2
<1>3. \E from \in {"listed", "loaded", "refreshed", "probed"},
         to \in {"loaded", "refreshed", "probed", "idle"} : Step("scan", from, to)
  BY DEF Verdict, Load, Refresh, Probe, Unread
<1>4. QED
  BY <1>1, <1>2, <1>3, MoveKept

LEMMA ScanMovesCalm == Inv /\ Calm /\ ~raced' /\ (ScanRead \/ Spare \/ Govern) => Calm'
<1> SUFFICES ASSUME Inv, Calm, ~raced', ScanRead \/ Spare \/ Govern PROVE Calm'
  OBVIOUS
<1>0. /\ "scan" \in Actors /\ "govern" \in Stages \ {"finish"}
      /\ "reconcile" \in Stages \ {"finish", "govern"}
  BY DEF Actors, Stages
<1>2. ASSUME ScanRead PROVE Calm'
  BY <1>0, <1>2, ReadKept DEF ScanRead
<1>3. ASSUME Spare PROVE Calm'
  BY <1>0, <1>3, LeaveCalm DEF Spare
<1>4. ASSUME Govern PROVE Calm'
  <2>1. /\ Step("scan", "govern", "reconcile")
        /\ UNCHANGED <<db, file, intent, undone, cut, off, seen>>
        /\ mine' = mine /\ row' = row
    BY <1>4 DEF Govern
  <2>2. Holding("scan") /\ at["scan"] = "govern"
    BY <2>1 DEF Step, Holding, NoCopy
  <2>3. ~db.manual
    BY <1>0, <1>4, <2>2 DEF Govern, LeftAlone, Calm, Copied
  <2>4. ~off
    BY <2>3 DEF Calm, Obeyed
  <2>5. QED
    BY <1>0, <2>1, <2>2, <2>4, MoveKept
<1>5. QED
  BY <1>2, <1>3, <1>4

LEMMA GovMovesCalm == Inv /\ Calm /\ ~raced' /\ (GovRead \/ GovDrift \/ GovNothing) => Calm'
<1> SUFFICES ASSUME Inv, Calm, ~raced', GovRead \/ GovDrift \/ GovNothing PROVE Calm'
  OBVIOUS
<1>0. /\ "gov" \in Actors /\ "choose" \in Stages \ {"finish"}
      /\ "reconcile" \in Stages \ {"finish", "govern"}
  BY DEF Actors, Stages
<1>1. ASSUME GovRead PROVE Calm'
  BY <1>0, <1>1, ReadKept DEF GovRead
<1>2. ASSUME GovDrift PROVE Calm'
  <2>1. /\ Step("gov", "choose", "reconcile") /\ UNCHANGED <<db, file, intent, undone, cut, off, seen>>
        /\ mine' = mine /\ row' = row
    BY <1>2 DEF GovDrift
  <2>2. Holding("gov") /\ at["gov"] = "choose"
    BY <2>1 DEF Step, Holding, NoCopy
  <2>3. ~db.manual
    BY <1>0, <1>2, <2>2 DEF GovDrift, Calm, Copied
  <2>4. ~off
    BY <2>3 DEF Calm, Obeyed
  <2>5. QED
    BY <1>0, <2>1, <2>2, <2>4, MoveKept
<1>3. ASSUME GovNothing PROVE Calm'
  BY <1>0, <1>3, LeaveCalm DEF GovNothing
<1>4. QED
  BY <1>1, <1>2, <1>3

LEMMA OpMovesCalm == Inv /\ Calm /\ ~raced' /\ (OpStart \/ OpGone) => Calm'
<1> SUFFICES ASSUME Inv, Calm, ~raced', OpStart \/ OpGone PROVE Calm'
  OBVIOUS
<1>0. "op" \in Actors /\ "file" \in Stages \ {"finish"}
  BY DEF Actors, Stages
<1>1. ASSUME OpStart PROVE Calm'
  BY <1>0, <1>1, ReadKept DEF OpStart
<1>2. ASSUME OpGone PROVE Calm'
  BY <1>0, <1>2, LeaveCalm DEF OpGone
<1>3. QED
  BY <1>1, <1>2

LEMMA NotPatchedCalm ==
  ASSUME NEW p \in {"scan", "gov"} PROVE Inv /\ Calm /\ NotPatched(p) => Calm'
<1>1. p \in Actors /\ "reconcile" \in Stages \ {"finish"}
  BY DEF Actors, Stages
<1>2. QED
  BY <1>1, LeaveCalm DEF NotPatched

\* The end of a cool-down changes nothing that the invariant reads.
LEMMA CoolPassesCalm == Inv /\ Calm /\ CoolPasses => Calm'
<1> SUFFICES ASSUME Inv, Calm, CoolPasses PROVE Calm'
  OBVIOUS
<1> DEFINE past(x) == IF x.cool = "future" THEN [x EXCEPT !.cool = "past"] ELSE x
           Same(q, s) == /\ q.health = s.health /\ q.failures = s.failures
                         /\ q.successes = s.successes /\ q.manual = s.manual
                         /\ q.actual = s.actual /\ q.tier = s.tier
                         /\ q.eligible = s.eligible
<1>1. \A s \in States : Same(past(s), s)
  BY DEF States
<1>2. /\ past(file).place = file.place /\ past(file).priority = file.priority
      /\ past(file).disabled = file.disabled
  BY DEF Inv, TypeOK, Files
<1>3. /\ db' = past(db) /\ file' = past(file) /\ \A p \in Actors : mine'[p] = past(mine[p])
      /\ UNCHANGED <<at, row, intent, undone, cut, off, seen>>
  BY DEF CoolPasses
<1> HIDE DEF past
<1>4. Same(db', db) /\ \A p \in Actors : Same(mine'[p], mine[p])
  BY <1>1, <1>3 DEF Inv, TypeOK
<1>5. ASSUME NEW q, NEW s, NEW e, Same(q, s), Good(s, e, file, Astray)
      PROVE  Good(q, e, file', Astray')
  BY <1>2, <1>3, <1>5 DEF Good, Backed, Barred, Truth, Astray
<1>6. Alone' /\ Copied'
  BY <1>3 DEF Calm, Alone, Copied, Holding
<1>7. Latest'
  <2>1. \A p : Evidence(p)' = Evidence(p)
    BY <1>3 DEF Evidence
  <2>2. QED
    BY <1>3, <1>4, <1>5, <2>1 DEF Calm, Latest
<1>8. Obeyed'
  BY <1>2, <1>3, <1>4 DEF Calm, Obeyed, Away, Actors
<1>9. AtGovern'
  BY <1>2, <1>3, <1>4 DEF Calm, AtGovern, ToQuarantine, LeftAlone, Actors
<1>10. Backed(db', seen')
  BY <1>3, <1>4 DEF Calm, Backed, Barred
<1>11. QED
  BY <1>6, <1>7, <1>8, <1>9, <1>10 DEF Calm

\* A row that cannot be written, and the death of the process.
LEMMA WriteFailsCalm ==
  ASSUME NEW p \in Actors PROVE Inv /\ Calm /\ WriteFails(p) => Calm'
<1> SUFFICES ASSUME Inv, Calm, WriteFails(p) PROVE Calm'
  OBVIOUS
<1>1. UNCHANGED <<db, file, row, intent, undone, off, seen>> /\ cut' = (cut \/ Unwritten(p))
  BY DEF WriteFails
<1>2. ASSUME Leave(p, "update") PROVE Calm'
  <2>1. "update" \in Stages \ {"finish"}
    BY DEF Stages
  <2>2. ~Unwritten(p)
    BY <1>2 DEF Leave, Step, Unwritten
  <2>3. cut \in BOOLEAN
    BY DEF Inv, TypeOK
  <2>4. cut' = cut
    BY <1>1, <2>2, <2>3, Zenon
  <2>5. QED
    BY <1>1, <1>2, <2>1, <2>4, LeaveCalm
<1>3. ASSUME Leave(p, "finish") PROVE Calm'
  <2>1. Unwritten(p)
    BY <1>3 DEF Leave, Step, Unwritten
  <2>2. cut'
    BY <1>1, <2>1
  <2>3. QED
    BY <1>1, <1>3, <2>2, LoseKept
<1>4. QED
  BY <1>2, <1>3 DEF WriteFails

LEMMA CrashCalm == Inv /\ Calm /\ Crash => Calm'
<1> SUFFICES ASSUME Inv, Calm, Crash PROVE Calm'
  OBVIOUS
<1>1. /\ \A p \in Actors : at'[p] = "idle"
      /\ UNCHANGED <<db, file, intent, undone, off, seen>>
      /\ cut' = (cut \/ \E p \in Actors : at[p] = "finish")
  BY DEF Crash, Unwritten
<1>2. \A p \in Actors : ~Holding(p)'
  BY <1>1 DEF Holding, NoCopy
<1>3. Alone' /\ Copied' /\ Obeyed' /\ AtGovern'
  BY <1>1, <1>2 DEF Alone, Copied, Obeyed, AtGovern, Actors, Calm
<1>4. Good(db', seen', file', Astray')
  <2>1. CASE \E p \in Actors : at[p] = "finish"
    BY <1>1, <2>1 DEF Good, Astray, Calm
  <2>2. CASE \A p \in Actors : at[p] # "finish"
    BY <1>1, <2>2 DEF Good, Astray, Calm, Latest
  <2>3. QED
    BY <2>1, <2>2
<1>5. Latest'
  BY <1>1, <1>4 DEF Latest
<1>6. QED
  BY <1>3, <1>4, <1>5 DEF Calm, Good

\* Once two actors have held copies at the same time, nothing is claimed any more.
Trusted == raced \/ Calm

LEMMA InitTrusted == Init => Trusted
<1> SUFFICES ASSUME Init PROVE Calm
  BY DEF Trusted
<1>1. \A p \in Actors : at[p] = "idle"
  BY DEF Init
<1>2. Good(db, seen, file, Astray)
  BY DEF Init, Good, Backed, Barred, Truth, default_state, NoEvidence, Unknown, JudgedTiers
<1>3. QED
  BY <1>1, <1>2 DEF Init, Calm, Alone, Copied, Latest, Obeyed, AtGovern, Holding, NoCopy, Actors,
                    Good

LEMMA NextCalm == Inv /\ Calm /\ ~raced' /\ [Next]_vars => Calm'
<1> SUFFICES ASSUME Inv, Calm, ~raced', [Next]_vars PROVE Calm'
  OBVIOUS
<1>1. ASSUME Scan PROVE Calm'
  BY <1>1, ScanListCalm, ProbeCalm, ScanMovesCalm, ScanWriteCalm, IsolateCalm DEF Scan
<1>2. ASSUME Gov PROVE Calm'
  BY <1>2, GovMovesCalm, GovRebalanceCalm DEF Gov
<1>3. ASSUME Op PROVE Calm'
  BY <1>3, OpMovesCalm, OpFileCalm, OpWriteCalm DEF Op
<1>4. ASSUME CoolPasses PROVE Calm'
  BY <1>4, CoolPassesCalm
<1>5. ASSUME NEW p \in {"scan", "gov"}, NotPatched(p) \/ Patch(p) \/ Finish(p) PROVE Calm'
  BY <1>5, NotPatchedCalm, PatchCalm, FinishCalm
<1>6. ASSUME UNCHANGED vars PROVE Calm'
  BY <1>6 DEF vars, Calm, Alone, Copied, Latest, Obeyed, AtGovern, Holding, Barred, Good,
              Backed, Truth, Away, ToQuarantine, LeftAlone, Astray, Evidence
<1>7. ASSUME NEW p \in Actors, WriteFails(p) PROVE Calm'
  BY <1>7, WriteFailsCalm
<1>8. ASSUME Crash PROVE Calm'
  BY <1>8, CrashCalm
<1>9. QED
  BY <1>1, <1>2, <1>3, <1>4, <1>5, <1>6, <1>7, <1>8 DEF Next

LEMMA RacedStays == Inv /\ raced /\ [Next]_vars => raced'
<1> SUFFICES ASSUME Inv, raced, [Next]_vars PROVE raced'
  OBVIOUS
<1>1. CASE UNCHANGED vars
  BY <1>1 DEF vars
<1>2. CASE Scan
  BY <1>2 DEF Scan, ScanList, Verdict, Load, Refresh, Probe, Unread, ScanRead, ScanWrite,
                 Spare, Isolate, Govern, Read
<1>3. CASE Gov
  BY <1>3 DEF Gov, GovRead, GovDrift, GovRebalance, GovNothing, Read
<1>4. CASE Op
  BY <1>4 DEF Op, OpStart, OpFile, OpGone, OpWrite, Read
<1>5. CASE CoolPasses
  BY <1>5 DEF CoolPasses
<1>6. CASE \E p \in {"scan", "gov"} : NotPatched(p) \/ Patch(p) \/ Finish(p)
  BY <1>6 DEF NotPatched, Patch, Finish
<1>7. CASE Crash \/ \E p \in Actors : WriteFails(p)
  BY <1>7 DEF Crash, WriteFails
<1>8. QED
  BY <1>1, <1>2, <1>3, <1>4, <1>5, <1>6, <1>7 DEF Next

LEMMA NextTrusted == Inv /\ Trusted /\ [Next]_vars => Trusted'
  BY NextCalm, RacedStays DEF Trusted

LEMMA TrustedAlways == Spec => [](Inv /\ Trusted)
  BY InitInv, NextInv, InitTrusted, NextTrusted, PTL DEF Spec

\* What the operator has disabled, no probe result, no drift repair, no cool-down and
\* no crash enables again, as long as no two actors held copies of the row at once and
\* no refresh has written an old payload over a change of the file: once the row is in
\* the operator's hand, neither the scan nor the scheduler gets as far as patching the
\* file.
THEOREM OperatorDisableHoldsAlways == Spec => []OperatorDisableHolds
<1>1. Inv /\ Trusted => OperatorDisableHolds
  BY DEF Inv, TypeOK, Files, Trusted, Calm, Obeyed, Away, OperatorDisableHolds
<1>2. QED
  BY <1>1, TrustedAlways, PTL

\* Definitively rejected credentials stay out of rotation until a probe succeeds or
\* the operator steps in, whatever the probes report in between: no observation but a
\* success leads from a firm tier, or from a rejection, back to a routed one.
THEOREM RejectedNotRoutedAlways == Spec => []RejectedNotRouted
<1>1. Inv /\ Trusted => RejectedNotRouted
  BY DEF Trusted, Calm, Backed, Barred, Firm, RejectedNotRouted
<1>2. QED
  BY <1>1, TrustedAlways, PTL

\* When nobody is at work on the account, what its row says is in effect is what its
\* file says, for whatever file the account starts with: every path that patches the
\* file records the schedule it has put into effect.  What is needed for it is that no
\* two actors held copies at once, that no old payload went over a change of the file,
\* and that no crash or failed write came between the file and its row.
THEOREM ActualTruthfulAlways == Spec => []ActualTruthful
<1>1. Inv /\ Trusted => ActualTruthful
  <2> SUFFICES ASSUME Trusted, ~raced, ~undone, ~cut, db.actual.known, file.place = "active",
                      \A p \in Actors : ~Holding(p)
               PROVE  db.actual = InEffect(file.priority, file.disabled)
    BY DEF ActualTruthful
  <2>1. \A p \in Actors : at[p] # "finish"
    BY DEF Holding, NoCopy
  <2>2. QED
    BY <2>1 DEF Trusted, Calm, Latest, Good, Truth, Astray
<1>2. QED
  BY <1>1, TrustedAlways, PTL

\* The scan isolates a file on evidence only: a definitive rejection, two failures
\* since the last success, or the mark of an earlier judgement that the inventory has
\* taken over.  Neither a crash nor an old payload that is written back changes that.
THEOREM QuarantineHasEvidenceAlways == Spec => QuarantineHasEvidence
<1> DEFINE Judged == (at["scan"] = "govern" /\ at'["scan"] = "finish") =>
                         \/ raced \/ row.note = "definitive" \/ seen.failures >= 2
                         \/ seen.marked
<1>1. Inv /\ Trusted /\ [Next]_vars => [Judged]_vars
  <2> SUFFICES ASSUME Inv, Calm, [Next]_vars, at["scan"] = "govern", at'["scan"] = "finish"
               PROVE  Isolate
    BY DEF Trusted, Calm, AtGovern, Isolate
  <2>1. ~UNCHANGED at
    OBVIOUS
  <2>2. \A p \in Actors : \A from, to : Step(p, from, to) =>
          at[p] = from /\ (p = "scan" => to = "finish") /\ (p # "scan" => at'["scan"] = "govern")
    BY DEF Step, Inv, TypeOK, Actors
  <2>3. ~Gov /\ ~Op /\ ~CoolPasses /\ ~Crash
    BY <2>1, <2>2 DEF Gov, GovRead, GovDrift, GovRebalance, GovNothing, Op, OpStart, OpFile,
                      OpGone, OpWrite, CoolPasses, Crash, Leave, Actors
  <2>4. ASSUME NEW p \in {"scan", "gov"} PROVE ~(NotPatched(p) \/ Patch(p) \/ Finish(p))
    BY <2>2 DEF NotPatched, Patch, Finish, Leave, Actors
  <2>5. ASSUME NEW p \in Actors PROVE ~WriteFails(p)
    BY <2>2 DEF WriteFails, Leave, Actors
  <2>6. Scan => Isolate
    <3>1. \A from, to : Step("scan", from, to) => from = "govern" /\ to = "finish"
      BY <2>2 DEF Actors
    <3>2. ~(ScanList \/ Verdict \/ Load \/ Refresh \/ Unread \/ ScanRead \/ ScanWrite)
      BY <3>1 DEF ScanList, Verdict, Load, Refresh, Unread, ScanRead, ScanWrite
    <3>3. ~(Spare \/ Govern)
      BY <3>1 DEF Spare, Govern, Leave
    <3>4. ~Probe
      <4>1. ~\E asked \in {"loaded", "refreshed"} : Step("scan", asked, "probed")
        BY <3>1
      <4>2. QED
        BY <4>1 DEF Probe
    <3>5. QED
      BY <3>2, <3>3, <3>4 DEF Scan
  <2>7. QED
    BY <2>1, <2>3, <2>4, <2>5, <2>6 DEF Next, vars
<1>2. QED
  BY <1>1, TrustedAlways, PTL DEF Spec, QuarantineHasEvidence

\* An account that is out of rotation becomes main by as many successes in a row as
\* recovery asks for, and by nothing else that the scan observes.
THEOREM RecoveryTakesSuccessesAlways == Spec => RecoveryTakesSuccesses
<1> DEFINE Earned == (at["scan"] = "update" /\ db.disabled /\ db'.tier = "main") =>
                       raced \/ (seen'.last = "ok" /\ seen'.run >= RecoveryThreshold)
<1>1. Inv /\ Trusted /\ [Next]_vars => [Earned]_vars
  <2> SUFFICES ASSUME Inv, Calm, [Next]_vars, at["scan"] = "update", db.disabled,
                      db'.tier = "main"
               PROVE  seen'.last = "ok" /\ seen'.run >= RecoveryThreshold
    BY DEF Trusted
  <2>1. db.tier \in NON_ROUTABLE_TIERS
    BY DEF Inv, TypeOK, TierMatchesSchedule, Schedule, States, Enabled, Tiers
  <2>2. ~(db' = db)
    BY <2>1 DEF NON_ROUTABLE_TIERS
  <2>3. Holding("scan") /\ "scan" \in Actors /\ \A q \in {"gov", "op"} : ~Holding(q)
    <3>1. Holding("scan") /\ "scan" \in Actors
      BY DEF Holding, NoCopy, Actors
    <3>2. QED
      BY <3>1, OthersAway DEF Calm, Actors
  <2>4. CASE ScanWrite
    <3>1. db = mine["scan"] /\ Good(db, seen, file, Astray)
      BY <2>3, HeldGood DEF Calm
    <3>2. db \in States /\ seen \in Seen /\ row \in Rows
      BY DEF Inv, TypeOK
    <3>3. db' = Updated(db, row)
      BY <2>3, <2>4, <3>1 DEF ScanWrite, Inv, TypeOK
    <3>4. seen' = Added(seen, row, db'.tier \in JudgedTiers)
      BY <2>4 DEF ScanWrite, Added, Observes, Failing, Neutral
    <3>5. QED
      BY <2>1, <3>1, <3>2, <3>3, <3>4, UpdatedRecovers DEF Good
  <2>5. CASE CoolPasses
    <3>1. db'.tier = db.tier
      BY <2>5 DEF CoolPasses, Inv, TypeOK, States
    <3>2. QED
      BY <2>1, <3>1 DEF NON_ROUTABLE_TIERS
  <2>6. ~Gov /\ ~Op
    <3>1. ~GovRebalance /\ ~OpWrite
      BY <2>3 DEF GovRebalance, OpWrite, Leave, Step, Holding, NoCopy
    <3>2. QED
      BY <2>2, <3>1 DEF Gov, GovRead, GovDrift, GovNothing, Op, OpStart, OpFile, OpGone
  <2>7. CASE \E p \in {"scan", "gov"} : NotPatched(p) \/ Patch(p) \/ Finish(p)
    BY <2>2, <2>3, <2>7 DEF NotPatched, Patch, Finish, Leave, Step, Holding, NoCopy
  <2>8. CASE Scan
    BY <2>2, <2>4, <2>8 DEF Scan, ScanList, Verdict, Load, Refresh, Probe, Unread, ScanRead,
                            Spare, Isolate, Govern, Step
  <2>9. CASE Crash \/ \E p \in Actors : WriteFails(p)
    BY <2>2, <2>9 DEF Crash, WriteFails
  <2>10. QED
    BY <2>2, <2>5, <2>6, <2>7, <2>8, <2>9 DEF Next, vars
<1>2. QED
  BY <1>1, TrustedAlways, PTL DEF Spec, RecoveryTakesSuccesses
=============================================================================
