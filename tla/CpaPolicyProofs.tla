--------------------------- MODULE CpaPolicyProofs ---------------------------
(***************************************************************************)
(* CloseNeedsCanaries of the breaker for any number of workers, accounts,   *)
(* observations and restarts, and for all thresholds.  DailySoftLimit and   *)
(* LowWaterConfirmed of the governance for any number of accounts, scans    *)
(* and days, and for all limits.  Of both, that they keep to their types.   *)
(***************************************************************************)
EXTENDS CpaBreaker, CpaGovernance, FiniteSetTheorems, TLAPS

\* A breaker that is half open was so only after its hold.
Good(b) ==
  /\ {"state", "openUntil", "halfAt", "attempts"} \subseteq DOMAIN b
  /\ b.openUntil \in Nat /\ b.halfAt \in Nat
  /\ b.state = "closed" => b.openUntil = 0
  /\ b.state = "half_open" => b.openUntil <= b.halfAt

\* A worker that has copied a breaker.
Copied(p) == probe[p].pc \in {"asked", "put"}

\* All that is needed of the shape of a worker's locals, and of the variables.
ProbeShaped(r) ==
  /\ "pc" \in DOMAIN r
  /\ r.pc # "idle" => "at" \in DOMAIN r /\ r.at \in Nat
  /\ r.pc \notin {"idle", "row"} =>
       {"scope", "copy"} \subseteq DOMAIN r /\ r.scope \in Scopes
  /\ r.pc = "row" => r.stage \in Scopes
  /\ r.pc \in {"asked", "put"} => Good(r.copy)
  /\ r.pc = "put" => r.copy.state # "closed"

BreakerShaped ==
  /\ clock \in Nat /\ DOMAIN breaker = Scopes /\ DOMAIN table = Scopes
  /\ \A s \in Scopes : Good(breaker[s]) /\ Good(table[s])
  /\ DOMAIN probe = Probes /\ \A p \in Probes : ProbeShaped(probe[p])
  /\ recording # <<>> =>
       recording[1].at \in Nat /\ recording[1].stage \in Scopes /\ Good(recording[2])

Observed ==
  /\ Len(obs) \in Nat /\ DOMAIN obs = 1 .. Len(obs)
  /\ \A i \in DOMAIN obs : obs[i].at \in Nat

\* Enough good answers for a breaker to have been closed.
Evidence(s) == Cardinality(ErrorsOf(Since(s, 0), "ok")) >= CanaryOk

\* Before there is that much, a closed breaker was never anything else, and whatever is kept
\* of it says so.
NeverOpened(s) ==
  ~Evidence(s) =>
    /\ breaker[s].state = "closed" =>
         /\ table[s].state = "closed"
         /\ \A p \in Probes : Copied(p) /\ probe[p].scope = s => probe[p].copy.state = "closed"
    /\ recording # <<>> /\ recording[1].stage = s /\ recording[2].state = "closed"
         => breaker[s].state = "closed"

BreakerInv == BreakerShaped /\ Observed /\ \A s \in Scopes : NeverOpened(s)

-----------------------------------------------------------------------------
(* The observations. *)

LEMMA CanariesCounted ==
  ASSUME Observed, NEW I \in SUBSET DOMAIN obs, NEW J \in SUBSET I
  PROVE  /\ IsFiniteSet(I) /\ IsFiniteSet(J) /\ Cardinality(J) <= Cardinality(I)
         /\ Cardinality(I) \in Nat /\ Cardinality(J) \in Nat
<1>1. IsFiniteSet(DOMAIN obs)
  BY FS_Interval DEF Observed
<1>2. IsFiniteSet(I)
  BY <1>1, FS_Subset
<1> QED
  BY <1>2, FS_Subset, FS_CardinalityType

LEMMA CanaryOkNat == CanaryOk \in Nat /\ CanaryLimit \in Nat
BY BreakerAssumption

\* Good answers among the canaries since t are good answers since an earlier u.
LEMMA CanariesCount ==
  ASSUME Observed, NEW s, NEW t \in Nat, NEW u \in Nat, u <= t,
         Cardinality(ErrorsOf(Canaries(s, t), "ok")) >= CanaryOk
  PROVE  Cardinality(ErrorsOf(Since(s, u), "ok")) >= CanaryOk
<1> DEFINE J == ErrorsOf(Canaries(s, t), "ok")
           I == ErrorsOf(Since(s, u), "ok")
<1>1. Since(s, t) \subseteq Since(s, u)
  <2>1. \A i \in DOMAIN obs : obs[i].at >= t => obs[i].at >= u
    BY DEF Observed
  <2> QED
    BY <2>1 DEF Since
<1>2. Canaries(s, t) \subseteq Since(s, t)
  BY DEF Canaries
<1>3. J \subseteq I /\ I \subseteq DOMAIN obs
  BY <1>1, <1>2 DEF ErrorsOf, Since
<1> HIDE DEF I, J
<1>4. Cardinality(J) <= Cardinality(I) /\ Cardinality(I) \in Nat /\ Cardinality(J) \in Nat
  BY <1>3, CanariesCounted
<1>5. Cardinality(J) >= CanaryOk
  BY DEF J
<1>6. Cardinality(I) >= CanaryOk
  BY <1>4, <1>5, CanaryOkNat
<1> QED
  BY <1>6 DEF I

\* The scan thread only adds to them.
LEMMA EvidenceStays ==
  ASSUME Observed, NEW r, r.at \in Nat, obs' = Append(obs, r)
  PROVE  Observed' /\ \A s \in Scopes : Evidence(s) => Evidence(s)'
<1>1. /\ Len(obs') = Len(obs) + 1 /\ DOMAIN obs' = 1 .. Len(obs')
      /\ \A i \in DOMAIN obs : obs'[i] = obs[i] /\ obs'[Len(obs) + 1] = r
  BY DEF Observed
<1>2. Observed'
  BY <1>1 DEF Observed
<1>3. ASSUME NEW s \in Scopes, Evidence(s) PROVE Evidence(s)'
  <2> DEFINE J == ErrorsOf(Since(s, 0), "ok")
             I == ErrorsOf(Since(s, 0), "ok")'
  <2>1. J \subseteq I /\ I \subseteq DOMAIN obs'
    BY <1>1 DEF ErrorsOf, Since, Observed
  <2> HIDE DEF I, J
  <2>2. IsFiniteSet(DOMAIN obs')
    BY <1>2, FS_Interval DEF Observed
  <2>3. IsFiniteSet(I) /\ Cardinality(J) <= Cardinality(I)
    BY <2>1, <2>2, FS_Subset
  <2>4. Cardinality(I) \in Nat /\ Cardinality(J) \in Nat
    BY <2>1, <2>3, FS_Subset, FS_CardinalityType
  <2>5. Cardinality(J) >= CanaryOk
    BY <1>3 DEF J, Evidence
  <2>6. Cardinality(I) >= CanaryOk
    BY <2>3, <2>4, <2>5, CanaryOkNat
  <2> QED
    BY <2>6 DEF I, Evidence
<1> QED
  BY <1>2, <1>3

LEMMA SameEvidence ==
  ASSUME obs' = obs
  PROVE  (Observed => Observed') /\ \A s \in Scopes : Evidence(s) <=> Evidence(s)'
BY DEF Observed, Evidence, ErrorsOf, Since

-----------------------------------------------------------------------------
(* What the code makes of a copy. *)

LEMMA DueGood ==
  ASSUME clock \in Nat, NEW b, Good(b)
  PROVE  Good(Due(b)) /\ (Due(b).state = "closed" <=> b.state = "closed")
BY DEF Due, Good

LEMMA ClosedGood == Good(Closed)
BY DEF Good, Closed

LEMMA HalfGood ==
  ASSUME NEW b, Good(b), NEW r, r.at \in Nat
  PROVE  Good(Half(b, r)) /\ (Half(b, r).state = "closed" <=> b.state = "closed")
         /\ (Half(b, r).state = "half_open" => b.openUntil <= Half(b, r).halfAt)
BY DEF Half, Good

\* It closes a breaker for the answers of canaries only.
LEMMA MovedGood ==
  ASSUME NEW b, Good(b), NEW r, r.at \in Nat
  PROVE  /\ Good(Moved(b, r))
         /\ Moved(b, r).state = "closed" =>
              \/ b.state = "closed"
              \/ \E t \in Nat : b.openUntil <= t
                   /\ Cardinality(ErrorsOf(Canaries(r.stage, t), "ok")) >= CanaryOk
<1> DEFINE h == Half(b, r)
<1>1. Good(h) /\ (h.state = "closed" <=> b.state = "closed")
      /\ (h.state = "half_open" => b.openUntil <= h.halfAt)
  BY HalfGood
<1>2. r.at + OpenFor \in Nat
  BY BreakerAssumption
<1>3. Good([h EXCEPT !.state = "open", !.openUntil = r.at + OpenFor])
      /\ [h EXCEPT !.state = "open", !.openUntil = r.at + OpenFor].state = "open"
  BY <1>1, <1>2 DEF Good
<1>4. Good([Closed EXCEPT !.state = "open", !.openUntil = r.at + OpenFor])
      /\ [Closed EXCEPT !.state = "open", !.openUntil = r.at + OpenFor].state = "open"
  BY <1>2 DEF Good, Closed
<1>5. h.halfAt \in Nat
  BY <1>1 DEF Good
<1> HIDE DEF h
<1>6. CASE h.state = "half_open"
  <2> DEFINE C == Canaries(r.stage, h.halfAt)
  <2>1. Moved(b, r) = Verdict(h, r, C)
    BY <1>6 DEF Moved, AfterCanaries, h
  <2> HIDE DEF C
  <2>2. \/ Moved(b, r) = h
        \/ Moved(b, r) = Closed /\ Cardinality(ErrorsOf(C, "ok")) >= CanaryOk
        \/ Moved(b, r) = [h EXCEPT !.state = "open", !.openUntil = r.at + OpenFor]
    BY <2>1 DEF Verdict
  <2>3. Good(Moved(b, r))
    BY <1>1, <1>3, <2>2, ClosedGood
  <2>4. Moved(b, r).state = "closed" => Cardinality(ErrorsOf(C, "ok")) >= CanaryOk
    BY <1>3, <1>6, <2>2
  <2> QED
    BY <1>1, <1>5, <1>6, <2>3, <2>4 DEF C
<1>7. CASE h.state # "half_open"
  <2>1. \/ Moved(b, r) = h
        \/ Moved(b, r) = [Closed EXCEPT !.state = "open", !.openUntil = r.at + OpenFor]
    BY <1>7 DEF Moved, h
  <2> QED
    BY <1>1, <1>4, <2>1
<1> QED
  BY <1>6, <1>7

-----------------------------------------------------------------------------

\* A step of one worker that copies no breaker and changes none.
OtherProbes(p) == DOMAIN probe' = Probes /\ \A q \in Probes \ {p} : probe'[q] = probe[q]

LEMMA ProbeKeeps ==
  ASSUME BreakerInv, NEW p \in Probes, OtherProbes(p), ProbeShaped(probe'[p]), ~Copied(p)',
         UNCHANGED <<clock, breaker, table, obs, recording>>
  PROVE  BreakerInv'
<1>1. BreakerShaped'
  BY DEF BreakerInv, BreakerShaped, OtherProbes
<1>2. Observed' /\ \A s \in Scopes : Evidence(s) <=> Evidence(s)'
  BY SameEvidence DEF BreakerInv
<1>3. \A s \in Scopes : NeverOpened(s)'
  BY <1>2 DEF BreakerInv, NeverOpened, OtherProbes, Copied
<1> QED
  BY <1>1, <1>2, <1>3 DEF BreakerInv

LEMMA BreakerInit == InitBreaker => BreakerInv
<1> SUFFICES ASSUME InitBreaker PROVE BreakerInv
  OBVIOUS
<1>1. /\ clock = 0 /\ breaker = [s \in Scopes |-> Closed] /\ table = breaker /\ obs = <<>>
      /\ probe = [p \in Probes |-> Idle] /\ recording = <<>>
  BY DEF InitBreaker
<1>2. BreakerShaped
  BY <1>1, ClosedGood DEF BreakerShaped, ProbeShaped, Idle
<1>3. Observed
  BY <1>1 DEF Observed
<1>4. \A s \in Scopes : NeverOpened(s)
  BY <1>1 DEF NeverOpened, Closed, Copied, Idle
<1> QED
  BY <1>2, <1>3, <1>4 DEF BreakerInv

LEMMA BeginKeeps ==
  ASSUME BreakerInv, NEW p \in Probes, NEW a \in Members, BeginProbe(p, a) PROVE BreakerInv'
<1>1. Second(clock) \in Nat
  BY DEF Second, BreakerInv, BreakerShaped
<1>2. OtherProbes(p) /\ ProbeShaped(probe'[p]) /\ ~Copied(p)'
  BY <1>1 DEF BeginProbe, BreakerInv, BreakerShaped, ProbeShaped, OtherProbes, Copied, Scopes
<1> QED
  BY <1>2, ProbeKeeps DEF BeginProbe

LEMMA RowKeeps ==
  ASSUME BreakerInv, NEW p \in Probes, probe[p].pc \notin {"idle", "row"},
         NEW stage \in Scopes, NEW status, NEW skipped, Row(p, stage, status, skipped),
         UNCHANGED <<clock, breaker, table, obs, recording>>
  PROVE  BreakerInv'
<1>1. OtherProbes(p) /\ ProbeShaped(probe'[p]) /\ ~Copied(p)'
  BY DEF Row, BreakerInv, BreakerShaped, ProbeShaped, OtherProbes, Copied
<1> QED
  BY <1>1, ProbeKeeps

LEMMA AnswerKeeps ==
  ASSUME BreakerInv, NEW p \in Probes, RefreshFails(p) \/ Answer(p) PROVE BreakerInv'
<1>1. probe[p].pc \in {"ask", "send"} /\ UNCHANGED <<clock, breaker, table, obs, recording>>
  BY DEF RefreshFails, Answer
<1>2. probe[p].scope \in Scopes /\ {"refresh", "models"} \subseteq Scopes
  BY <1>1 DEF BreakerInv, BreakerShaped, ProbeShaped, Scopes
<1>3. CASE probe' = [probe EXCEPT ![p].pc = "ask", ![p].scope = "chat"]
  <2>1. OtherProbes(p) /\ ProbeShaped(probe'[p]) /\ ~Copied(p)'
    BY <1>1, <1>3 DEF BreakerInv, BreakerShaped, ProbeShaped, OtherProbes, Copied, Scopes
  <2> QED
    BY <1>1, <2>1, ProbeKeeps
<1> QED
  BY <1>1, <1>2, <1>3, RowKeeps DEF RefreshFails, Answer

LEMMA AskReadKeeps == ASSUME BreakerInv, NEW p \in Probes, AskRead(p) PROVE BreakerInv'
<1> DEFINE s0 == probe[p].scope
<1>1. /\ probe[p].pc = "ask" /\ s0 \in Scopes
      /\ probe' = [probe EXCEPT ![p].pc = "asked", ![p].copy = breaker[s0]]
      /\ UNCHANGED <<clock, breaker, table, obs, recording>>
  BY DEF AskRead, BreakerInv, BreakerShaped, ProbeShaped
<1> HIDE DEF s0
<1>2. /\ OtherProbes(p) /\ DOMAIN probe'[p] = DOMAIN probe[p] /\ probe'[p].pc = "asked"
      /\ probe'[p].copy = breaker[s0] /\ probe'[p].scope = s0 /\ probe'[p].at = probe[p].at
  BY <1>1 DEF BreakerInv, BreakerShaped, ProbeShaped, OtherProbes, s0
<1>3. ProbeShaped(probe'[p])
  BY <1>1, <1>2 DEF BreakerInv, BreakerShaped, ProbeShaped
<1>4. BreakerShaped'
  BY <1>1, <1>2, <1>3 DEF BreakerInv, BreakerShaped, OtherProbes
<1>5. Observed' /\ \A s \in Scopes : Evidence(s) <=> Evidence(s)'
  BY <1>1, SameEvidence DEF BreakerInv
<1>6. \A s \in Scopes : NeverOpened(s)'
  BY <1>1, <1>2, <1>5 DEF BreakerInv, NeverOpened, OtherProbes, Copied
<1> QED
  BY <1>4, <1>5, <1>6 DEF BreakerInv

\* A canary is counted: the breaker whose copy is written back was open before.
LEMMA AskWriteKeeps == ASSUME BreakerInv, NEW p \in Probes, AskWrite(p) PROVE BreakerInv'
<1> DEFINE b == Due(probe[p].copy)
           n == [b EXCEPT !.attempts = @ + 1]
<1>0. PICK s0 \in Scopes : s0 = probe[p].scope
  BY DEF AskWrite, BreakerInv, BreakerShaped, ProbeShaped
<1>1. probe[p].pc = "asked" /\ Good(probe[p].copy) /\ clock \in Nat
      /\ UNCHANGED <<clock, table, obs, recording>>
  BY DEF AskWrite, BreakerInv, BreakerShaped, ProbeShaped
<1>2. Good(b) /\ (b.state = "closed" <=> probe[p].copy.state = "closed")
  BY <1>1, DueGood
<1>3. CASE Row(p, s0, "skipped", TRUE) /\ UNCHANGED breaker
  BY <1>0, <1>1, <1>3, RowKeeps
<1>4. CASE probe' = [probe EXCEPT ![p].pc = "send"] /\ UNCHANGED breaker
  <2>1. OtherProbes(p) /\ ProbeShaped(probe'[p]) /\ ~Copied(p)'
    BY <1>1, <1>4 DEF BreakerInv, BreakerShaped, ProbeShaped, OtherProbes, Copied
  <2> QED
    BY <1>1, <1>4, <2>1, ProbeKeeps
<1>5. CASE /\ b.state = "half_open" /\ breaker' = [breaker EXCEPT ![s0] = n]
           /\ probe' = [probe EXCEPT ![p].pc = "put", ![p].copy = n]
  <2>1. Good(n) /\ n.state = "half_open"
    BY <1>2, <1>5 DEF Good
  <2> HIDE DEF b
  <2>2. /\ OtherProbes(p) /\ DOMAIN probe'[p] = DOMAIN probe[p] /\ probe'[p].pc = "put"
        /\ probe'[p].copy = n /\ probe'[p].scope = s0 /\ probe'[p].at = probe[p].at
    BY <1>0, <1>1, <1>5 DEF BreakerInv, BreakerShaped, ProbeShaped, OtherProbes
  <2>3. ProbeShaped(probe'[p])
    BY <1>1, <2>1, <2>2 DEF BreakerInv, BreakerShaped, ProbeShaped
  <2>4. DOMAIN breaker' = Scopes /\ breaker'[s0] = n
        /\ \A s \in Scopes \ {s0} : breaker'[s] = breaker[s]
    BY <1>1, <1>5 DEF BreakerInv, BreakerShaped
  <2>5. BreakerShaped'
    BY <1>1, <2>1, <2>2, <2>3, <2>4 DEF BreakerInv, BreakerShaped, OtherProbes
  <2>6. Observed' /\ \A s \in Scopes : Evidence(s) <=> Evidence(s)'
    BY <1>1, SameEvidence DEF BreakerInv
  <2>7. NeverOpened(s0) /\ probe[p].copy.state # "closed"
    BY <1>1, <1>2, <1>5, <2>1 DEF BreakerInv
  <2>8. ~Evidence(s0) => breaker[s0].state # "closed"
    BY <1>0, <1>1, <2>7 DEF NeverOpened, Copied
  <2>9. NeverOpened(s0)'
    BY <1>1, <2>1, <2>4, <2>6, <2>7, <2>8 DEF NeverOpened
  <2>10. \A s \in Scopes \ {s0} : NeverOpened(s)'
    BY <1>1, <2>2, <2>4, <2>6 DEF BreakerInv, NeverOpened, OtherProbes, Copied
  <2> QED
    BY <2>5, <2>6, <2>9, <2>10 DEF BreakerInv
<1> QED
  BY <1>0, <1>3, <1>4, <1>5 DEF AskWrite

LEMMA AskPutKeeps == ASSUME BreakerInv, NEW p \in Probes, AskPut(p) PROVE BreakerInv'
<1> DEFINE s0 == probe[p].scope
<1>1. /\ probe[p].pc = "put" /\ s0 \in Scopes /\ Good(probe[p].copy)
      /\ table' = [table EXCEPT ![s0] = probe[p].copy]
      /\ probe' = [probe EXCEPT ![p].pc = "send"]
      /\ UNCHANGED <<clock, breaker, obs, recording>>
  BY DEF AskPut, BreakerInv, BreakerShaped, ProbeShaped
<1>2. OtherProbes(p) /\ ProbeShaped(probe'[p]) /\ ~Copied(p)'
  BY <1>1 DEF BreakerInv, BreakerShaped, ProbeShaped, OtherProbes, Copied
<1> HIDE DEF s0
<1>3. BreakerShaped'
  BY <1>1, <1>2 DEF BreakerInv, BreakerShaped, OtherProbes
<1>4. Observed' /\ \A s \in Scopes : Evidence(s) <=> Evidence(s)'
  BY <1>1, SameEvidence DEF BreakerInv
<1>5. \A s \in Scopes : s # s0 => table'[s] = table[s]
  BY <1>1 DEF BreakerInv, BreakerShaped
<1>6. table'[s0] = probe[p].copy
  BY <1>1 DEF BreakerInv, BreakerShaped
<1>7. \A s \in Scopes : NeverOpened(s)'
  BY <1>1, <1>2, <1>4, <1>5, <1>6 DEF BreakerInv, NeverOpened, OtherProbes, Copied, s0
<1> QED
  BY <1>3, <1>4, <1>7 DEF BreakerInv

LEMMA RowsKeep ==
  ASSUME BreakerInv, NEW p \in Probes, PassOver(p) \/ RecordRead(p) PROVE BreakerInv'
<1>1. OtherProbes(p) /\ ProbeShaped(probe'[p]) /\ ~Copied(p)'
  BY DEF PassOver, RecordRead, Idle, BreakerInv, BreakerShaped, ProbeShaped, OtherProbes, Copied
<1>2. CASE PassOver(p)
  BY <1>1, <1>2, ProbeKeeps DEF PassOver
<1>3. CASE RecordRead(p)
  <2> DEFINE r == [at |-> probe[p].at, stage |-> probe[p].stage, status |-> probe[p].status]
  <2>1. /\ obs' = Append(obs, r) /\ recording' = <<r, breaker[r.stage]>>
        /\ UNCHANGED <<clock, breaker, table>>
    BY <1>3 DEF RecordRead
  <2>2. r.at \in Nat /\ r.stage \in Scopes
    BY <1>3 DEF RecordRead, BreakerInv, BreakerShaped, ProbeShaped
  <2> HIDE DEF r
  <2>3. recording'[1] = r /\ recording'[2] = breaker[r.stage]
    BY <2>1
  <2>4. BreakerShaped'
    BY <1>1, <2>1, <2>2, <2>3 DEF BreakerInv, BreakerShaped, OtherProbes
  <2>5. Observed' /\ \A s \in Scopes : Evidence(s) => Evidence(s)'
    BY <2>1, <2>2, EvidenceStays DEF BreakerInv
  <2>6. \A s \in Scopes : NeverOpened(s)'
    BY <1>1, <2>1, <2>3, <2>5 DEF BreakerInv, NeverOpened, OtherProbes, Copied
  <2> QED
    BY <2>4, <2>5, <2>6 DEF BreakerInv
<1> QED
  BY <1>2, <1>3

\* What the scan thread writes back as closed was closed, or there is evidence.
LEMMA WrittenClosed ==
  ASSUME BreakerInv, RecordWrite
  PROVE  /\ Good(Moved(recording[2], recording[1]))
         /\ Moved(recording[2], recording[1]).state = "closed" =>
              \/ recording[2].state = "closed"
              \/ Cardinality(ErrorsOf(Since(recording[1].stage, recording[2].openUntil), "ok"))
                   >= CanaryOk
<1> DEFINE r == recording[1]
           b == recording[2]
<1>1. Good(b) /\ r.at \in Nat /\ Observed
  BY DEF RecordWrite, BreakerInv, BreakerShaped
<1>2. b.openUntil \in Nat
  BY <1>1 DEF Good
<1> HIDE DEF r, b
<1>3. \A t \in Nat : b.openUntil <= t
        /\ Cardinality(ErrorsOf(Canaries(r.stage, t), "ok")) >= CanaryOk
        => Cardinality(ErrorsOf(Since(r.stage, b.openUntil), "ok")) >= CanaryOk
  BY <1>1, <1>2, CanariesCount
<1> QED
  BY <1>1, <1>3, MovedGood DEF r, b

LEMMA SinceMore ==
  ASSUME Observed, NEW s, NEW t \in Nat,
         Cardinality(ErrorsOf(Since(s, t), "ok")) >= CanaryOk
  PROVE  Evidence(s)
<1> DEFINE J == ErrorsOf(Since(s, t), "ok")
           I == ErrorsOf(Since(s, 0), "ok")
<1>1. J \subseteq I /\ I \subseteq DOMAIN obs
  BY DEF ErrorsOf, Since, Observed
<1> HIDE DEF I, J
<1>2. Cardinality(J) <= Cardinality(I) /\ Cardinality(I) \in Nat /\ Cardinality(J) \in Nat
  BY <1>1, CanariesCounted
<1>3. Cardinality(J) >= CanaryOk
  BY DEF J
<1>4. Cardinality(I) >= CanaryOk
  BY <1>2, <1>3, CanaryOkNat
<1> QED
  BY <1>4 DEF I, Evidence

LEMMA RecordWriteKeeps == ASSUME BreakerInv, RecordWrite PROVE BreakerInv'
<1>0. PICK s0 \in Scopes : s0 = recording[1].stage
  BY DEF RecordWrite, BreakerInv, BreakerShaped
<1>9. PICK n : n = Moved(recording[2], recording[1])
  OBVIOUS
<1>1. /\ recording # <<>> /\ recording' = <<>> /\ UNCHANGED <<clock, obs, probe>>
      /\ breaker' = [breaker EXCEPT ![s0] = n] /\ table' = [table EXCEPT ![s0] = n]
  BY <1>0, <1>9 DEF RecordWrite
<1>2. Observed /\ recording[2].openUntil \in Nat
  BY <1>1 DEF BreakerInv, BreakerShaped, Good
<1>3. Good(n) /\ (n.state = "closed" => recording[2].state = "closed" \/ Evidence(s0))
  BY <1>0, <1>9, <1>2, WrittenClosed, SinceMore
<1>4. /\ DOMAIN breaker' = Scopes /\ DOMAIN table' = Scopes
      /\ breaker'[s0] = n /\ table'[s0] = n
      /\ \A s \in Scopes \ {s0} : breaker'[s] = breaker[s] /\ table'[s] = table[s]
  BY <1>1, <1>2 DEF BreakerInv, BreakerShaped
<1>5. BreakerShaped'
  BY <1>1, <1>3, <1>4 DEF BreakerInv, BreakerShaped
<1>6. Observed' /\ \A s \in Scopes : Evidence(s) <=> Evidence(s)'
  BY <1>1, SameEvidence DEF BreakerInv
<1>7. NeverOpened(s0)'
  <2>1. ~Evidence(s0) /\ n.state = "closed" => breaker[s0].state = "closed"
    BY <1>0, <1>1, <1>3 DEF BreakerInv, NeverOpened
  <2> QED
    BY <1>1, <1>2, <1>4, <1>6, <2>1 DEF BreakerInv, NeverOpened, Copied
<1>8. \A s \in Scopes \ {s0} : NeverOpened(s)'
  BY <1>1, <1>4, <1>6 DEF BreakerInv, NeverOpened, Copied
<1> QED
  BY <1>5, <1>6, <1>7, <1>8 DEF BreakerInv

LEMMA RestartKeeps == ASSUME BreakerInv, RestartBreaker PROVE BreakerInv'
<1>1. /\ breaker' = table /\ probe' = [p \in Probes |-> Idle] /\ recording' = <<>>
      /\ UNCHANGED <<clock, table, obs>>
  BY DEF RestartBreaker
<1>2. BreakerShaped'
  BY <1>1 DEF BreakerInv, BreakerShaped, ProbeShaped, Idle
<1>3. Observed' /\ \A s \in Scopes : NeverOpened(s)'
  BY <1>1, SameEvidence DEF BreakerInv, NeverOpened, Copied, Idle
<1> QED
  BY <1>2, <1>3 DEF BreakerInv

LEMMA BreakerStands ==
  ASSUME BreakerInv, clock' \in Nat, UNCHANGED <<breaker, table, obs, probe, recording>>
  PROVE  BreakerInv'
<1>1. Observed' /\ \A s \in Scopes : Evidence(s) <=> Evidence(s)'
  BY SameEvidence DEF BreakerInv
<1> QED
  BY <1>1 DEF BreakerInv, BreakerShaped, NeverOpened, Copied

LEMMA BreakerStep == BreakerInv /\ [NextBreaker]_breakerVars => BreakerInv'
<1> SUFFICES ASSUME BreakerInv, [NextBreaker]_breakerVars PROVE BreakerInv'
  OBVIOUS
<1>1. CASE UNCHANGED breakerVars \/ TickBreaker
  BY <1>1, BreakerStands DEF breakerVars, TickBreaker, BreakerInv, BreakerShaped
<1> QED
  BY <1>1, BeginKeeps, AnswerKeeps, AskReadKeeps, AskWriteKeeps, AskPutKeeps, RowsKeep,
     RecordWriteKeeps, RestartKeeps DEF NextBreaker

-----------------------------------------------------------------------------

\* The action of CloseNeedsCanaries.
ClosedOnEvidence ==
  \A s \in Scopes :
    table[s].state # "closed" /\ table'[s].state = "closed"
      => /\ recording # <<>>
         /\ Cardinality(ErrorsOf(Since(s, recording[2].openUntil), "ok")) >= CanaryOk

LEMMA ClosesOnEvidence == BreakerInv /\ [NextBreaker]_breakerVars => ClosedOnEvidence
<1> SUFFICES ASSUME BreakerInv, [NextBreaker]_breakerVars, NEW s \in Scopes,
                    table[s].state # "closed", table'[s].state = "closed"
             PROVE  /\ recording # <<>>
                    /\ Cardinality(ErrorsOf(Since(s, recording[2].openUntil), "ok")) >= CanaryOk
  BY DEF ClosedOnEvidence
<1>1. table' # table
  OBVIOUS
<1>2. CASE \E p \in Probes : AskPut(p)
  <2>1. PICK p \in Probes : AskPut(p)
    BY <1>2
  <2>2. probe[p].copy.state = "closed"
    BY <2>1 DEF AskPut, BreakerInv, BreakerShaped
  <2> QED
    BY <2>1, <2>2 DEF AskPut, BreakerInv, BreakerShaped, ProbeShaped
<1>3. CASE RecordWrite
  <2>1. s = recording[1].stage /\ Moved(recording[2], recording[1]).state = "closed"
        /\ recording # <<>>
    BY <1>3 DEF RecordWrite, BreakerInv, BreakerShaped
  <2>2. CASE recording[2].state = "closed"
    <3>1. recording[2].openUntil = 0
      BY <2>1, <2>2 DEF BreakerInv, BreakerShaped, Good
    <3>2. Evidence(s)
      BY <2>1, <2>2 DEF BreakerInv, NeverOpened
    <3> QED
      BY <2>1, <3>1, <3>2 DEF Evidence
  <2> QED
    BY <1>3, <2>1, <2>2, WrittenClosed
<1> QED
  BY <1>1, <1>2, <1>3 DEF NextBreaker, breakerVars, BeginProbe, RefreshFails, AskRead, AskWrite,
     Answer, PassOver, RecordRead, RestartBreaker, TickBreaker

\* Whatever workers, scan thread and restarts do in between, a breaker that is not closed is
\* written back as closed only when enough probes that began after its hold were answered
\* well (cpa_pool.py 1485-1526).
THEOREM CloseNeedsCanariesAlways == BreakerSpec => CloseNeedsCanaries
<1>1. BreakerInv /\ [NextBreaker]_breakerVars => [ClosedOnEvidence]_breakerVars
  BY ClosesOnEvidence
<1> QED
  BY <1>1, BreakerInit, BreakerStep, PTL DEF BreakerSpec, CloseNeedsCanaries, ClosedOnEvidence

-----------------------------------------------------------------------------
(* Governance.  Numbers are numbers. *)

PoolNumbers == pool \in [Kinds -> Nat] /\ pool.unchecked <= pool.reserve

Bookings == [day : Nat, count : Nat, n : Nat, emergency : BOOLEAN, scan : BOOLEAN]

Books ==
  /\ lowAge \in Ages
  /\ low \in [count : Nat, last : Nat]
  /\ order \in [left : Nat, refill : BOOLEAN]
  /\ daily \in [day : Nat, count : Nat] /\ ordered \in Nat /\ uncounted \in Nat
  /\ booking = <<>> \/ booking \in Bookings

GovernanceTypes ==
  /\ round \in Nat /\ day \in Nat
  /\ cached \in Nat \X Nat
  /\ PoolNumbers /\ Books

\* The counter that outlives restarts knows of every order of today, but for the one that is
\* about to be written and those that never will be.
Pending == IF booking # <<>> /\ booking.day = day THEN booking.n ELSE 0
DayKept ==
  /\ daily.day <= day /\ ordered <= Today.count + uncounted + Pending
  /\ booking # <<>> =>
       /\ daily.day <= booking.day /\ booking.day <= day
       /\ booking.day = day => booking.count = Today.count + booking.n

\* So does the counter of rounds of the rounds that saw too few.
RoundsKept ==
  /\ lowSeen \subseteq 0 .. low.last /\ low.last <= round
  /\ 0 \in lowSeen \/ low.count <= Cardinality(lowSeen)

GovernanceInv == GovernanceTypes /\ DayKept /\ RoundsKept

LEMMA LimitsNat ==
  /\ Target \in Nat /\ BatchSize \in Nat /\ ReserveTarget \in Nat /\ DailyLimit \in Nat
  /\ LowRounds \in Nat /\ EmergencyFloor \in Nat /\ MaxInventory \in Nat
  /\ \A f \in Needs : f \in Nat \ {0}
BY GovernanceAssumption

LEMMA TodayIs ==
  ASSUME GovernanceTypes
  PROVE  Today \in [day : Nat, count : Nat] /\ Today.day = day /\ Today.count \in Nat
<1>1. daily \in [day : Nat, count : Nat] /\ day \in Nat
  BY DEF GovernanceTypes, Books
<1>2. CASE daily.day = day
  BY <1>1, <1>2 DEF Today
<1>3. CASE daily.day # day
  <2>1. Today = [day |-> day, count |-> 0]
    BY <1>3 DEF Today
  <2> QED
    BY <1>1, <2>1
<1> QED
  BY <1>2, <1>3

LEMMA LeastIs ==
  ASSUME NEW S, S \subseteq Int, NEW m \in S, \A y \in S : m <= y
  PROVE  Least(S) = m
<1>1. \A x \in S : (\A y \in S : x <= y) => x = m
  OBVIOUS
<1>2. (CHOOSE x \in S : \A y \in S : x <= y) = m
  BY <1>1
<1> QED
  BY <1>2 DEF Least, Min

LEMMA LeastOfTwo ==
  ASSUME NEW a \in Int, NEW b \in Int
  PROVE  Least({a, b}) = IF a <= b THEN a ELSE b
<1> DEFINE m == IF a <= b THEN a ELSE b
<1>1. {a, b} \subseteq Int /\ m \in {a, b} /\ \A y \in {a, b} : m <= y
  OBVIOUS
<1> HIDE DEF m
<1>2. Least({a, b}) = m
  BY <1>1, LeastIs
<1> QED
  BY <1>2 DEF m

LEMMA LeastOfThree ==
  ASSUME NEW a \in Nat, NEW b \in Nat, NEW c \in Nat
  PROVE  /\ Least({a, b, c}) \in Nat
         /\ Least({a, b, c}) <= a /\ Least({a, b, c}) <= b /\ Least({a, b, c}) <= c
<1>1. \E m \in {a, b, c} : \A y \in {a, b, c} : m <= y
  OBVIOUS
<1>2. PICK m \in {a, b, c} : \A y \in {a, b, c} : m <= y
  BY <1>1
<1>3. Least({a, b, c}) = m
  BY <1>2, LeastIs
<1> QED
  BY <1>2, <1>3

LEMMA LeastOfFour ==
  ASSUME NEW a \in Nat, NEW b \in Nat, NEW c \in Nat, NEW d \in Nat
  PROVE  Least({a, b, c, d}) \in Nat /\ Least({a, b, c, d}) <= d
<1>1. \E m \in {a, b, c, d} : \A y \in {a, b, c, d} : m <= y
  OBVIOUS
<1>2. PICK m \in {a, b, c, d} : \A y \in {a, b, c, d} : m <= y
  BY <1>1
<1>3. Least({a, b, c, d}) = m
  BY <1>2, LeastIs
<1> QED
  BY <1>2, <1>3

-----------------------------------------------------------------------------
(* Where the accounts go. *)

LEMMA GovernanceInit == InitGovernance => GovernanceInv
BY GovernanceAssumption, FS_EmptySet
   DEF InitGovernance, GovernanceInv, GovernanceTypes, PoolNumbers, Books, DayKept, RoundsKept,
       Kinds, Ages, NoOrder, Today, Pending, Blind

LEMMA Rebalanced ==
  ASSUME PoolNumbers, Rebalance
  PROVE  PoolNumbers'
<1>1. CASE Promote
  <2> DEFINE healthy == pool.reserve - pool.unchecked
             n == Least({BatchSize, Target - pool.main, healthy})
  <2>1. /\ BatchSize \in Nat /\ Target - pool.main \in Nat /\ healthy \in Nat
    BY <1>1, GovernanceAssumption DEF Promote, PoolNumbers, Kinds
  <2>2. n \in Nat /\ n <= healthy
    BY <2>1, LeastOfThree
  <2>3. pool' = [pool EXCEPT !.main = @ + n, !.reserve = @ - n]
    BY <1>1 DEF Promote
  <2> HIDE DEF n
  <2>4. pool.reserve \in Nat /\ pool.unchecked \in Nat /\ pool.main \in Nat
    BY DEF PoolNumbers, Kinds
  <2>5. /\ pool' = [k \in Kinds |-> pool'[k]]
        /\ pool'["main"] = pool.main + n /\ pool'["reserve"] = pool.reserve - n
        /\ \A k \in Kinds \ {"main", "reserve"} : pool'[k] = pool[k]
    BY <2>3 DEF PoolNumbers, Kinds
  <2>6. pool.reserve - n \in Nat /\ pool.unchecked <= pool.reserve - n
    BY <2>2, <2>4
  <2> QED
    BY <2>2, <2>4, <2>5, <2>6 DEF PoolNumbers, Kinds
<1>2. CASE Demote
  <2> DEFINE n == Least({DemoteBatch, pool.main - Target})
  <2>1. DemoteBatch \in Nat /\ pool.main - Target \in Nat /\ Target \in Nat /\ pool.main \in Nat
    BY <1>2, GovernanceAssumption DEF Demote, PoolNumbers, Kinds
  <2>2. n \in Nat /\ n <= pool.main
    BY <2>1, LeastOfTwo
  <2>3. pool' = [pool EXCEPT !.main = @ - n, !.reserve = @ + n]
    BY <1>2 DEF Demote
  <2> HIDE DEF n
  <2>4. pool.reserve \in Nat /\ pool.unchecked \in Nat /\ pool.unchecked <= pool.reserve
    BY DEF PoolNumbers, Kinds
  <2>5. /\ pool' = [k \in Kinds |-> pool'[k]]
        /\ pool'["main"] = pool.main - n /\ pool'["reserve"] = pool.reserve + n
        /\ \A k \in Kinds \ {"main", "reserve"} : pool'[k] = pool[k]
    BY <2>3 DEF PoolNumbers, Kinds
  <2>6. pool.main - n \in Nat /\ pool.reserve + n \in Nat /\ pool.unchecked <= pool.reserve + n
    BY <2>1, <2>2, <2>4
  <2> QED
    BY <2>4, <2>5, <2>6 DEF PoolNumbers, Kinds
<1>3. CASE UNCHANGED pool
  BY <1>3 DEF PoolNumbers
<1> QED
  BY <1>1, <1>2, <1>3 DEF Rebalance

LEMMA LeftOver ==
  ASSUME PoolNumbers, AccountLeaves
  PROVE  PoolNumbers'
<1>1. PICK k \in {"main", "reserve", "cooling"} :
        /\ pool[k] > 0
        /\ pool' = [pool EXCEPT ![k] = @ - 1,
                    !.unchecked = Least({@, IF k = "reserve" THEN pool.reserve - 1 ELSE @})]
  BY DEF AccountLeaves
<1> DEFINE v == IF k = "reserve" THEN pool.reserve - 1 ELSE pool.unchecked
           u == Least({pool.unchecked, v})
<1>2. \A i \in Kinds : pool[i] \in Nat
  BY DEF PoolNumbers
<1>3. pool.unchecked \in Nat /\ pool.reserve \in Nat /\ pool.unchecked <= pool.reserve
  BY <1>2 DEF PoolNumbers, Kinds
<1>4. k \in {"main", "reserve", "cooling"} /\ pool[k] > 0
  BY <1>1
<1>5. v \in Nat /\ (k = "reserve" => v = pool.reserve - 1)
  <2>1. CASE k = "reserve"
    <3>1. pool.reserve > 0
      BY <1>4, <2>1
    <3> QED
      BY <1>3, <3>1, <2>1
  <2>2. CASE k # "reserve"
    BY <1>3, <2>2
  <2> QED
    BY <2>1, <2>2
<1>6. u \in Nat /\ u <= pool.unchecked /\ u <= v
  BY <1>3, <1>5, LeastOfTwo
<1>7. /\ pool' = [i \in Kinds |-> pool'[i]]
      /\ pool'["unchecked"] = u /\ pool'[k] = pool[k] - 1
      /\ \A i \in Kinds \ {"unchecked", k} : pool'[i] = pool[i]
  BY <1>1 DEF PoolNumbers, Kinds
<1>8. pool[k] - 1 \in Nat
  <2>1. pool[k] \in Nat
    BY <1>4, <1>2 DEF Kinds
  <2> QED
    BY <1>4, <2>1
<1> HIDE DEF u, v
<1>9. pool' \in [Kinds -> Nat]
  BY <1>2, <1>6, <1>7, <1>8
<1>10. pool'["unchecked"] <= pool'["reserve"]
  <2>1. CASE k = "reserve"
    BY <2>1, <1>5, <1>6, <1>7
  <2>2. CASE k # "reserve"
    BY <2>2, <1>3, <1>6, <1>7 DEF Kinds
  <2> QED
    BY <2>1, <2>2
<1> QED
  BY <1>9, <1>10 DEF PoolNumbers
-----------------------------------------------------------------------------
(* The refill. *)

LEMMA ReadyNat ==
  ASSUME GovernanceTypes, NEW v, v \in Tallies \cup {cached}
  PROVE  Ready(v) \in Nat \X Nat /\ v \in Nat \X Nat
<1>1. pool.main \in Nat /\ pool.reserve \in Nat /\ pool.fresh \in Nat
  BY DEF GovernanceTypes, PoolNumbers, Kinds
<1>2. cached \in Nat \X Nat
  BY DEF GovernanceTypes
<1>3. ASSUME v \in Tallies PROVE v \in Nat \X Nat
  BY <1>1, <1>3 DEF Tallies
<1>4. v \in Nat \X Nat
  BY <1>2, <1>3
<1> QED
  BY <1>1, <1>4 DEF Ready

LEMMA GapNat ==
  ASSUME GovernanceTypes, NEW v \in Nat \X Nat, NEW f \in Needs
  PROVE  Gap(v, f) \in Nat
<1>1. v[1] \in Nat /\ v[2] \in Nat
  OBVIOUS
<1>2. pool.cooling \in Nat /\ order.left \in Nat
  BY DEF GovernanceTypes, PoolNumbers, Books, Kinds
<1>3. f \in Nat \ {0} /\ Target \in Nat /\ ReserveTarget \in Nat
  BY GovernanceAssumption
<1>4. (IF order.refill THEN order.left \div f ELSE 0) \in Int
  BY <1>2, <1>3
<1> QED
  BY <1>1, <1>2, <1>3, <1>4 DEF Gap, Pos

\* An order is not above what is left of the day.
LEMMA OrderInRest ==
  ASSUME GovernanceTypes, NEW v \in Nat \X Nat, NEW f \in Needs, NEW n \in 1 .. Limit(v, f)
  PROVE  n \in Nat \ {0} /\ n <= Rest(v, Gap(v, f) * f)
<1>1. Gap(v, f) \in Nat /\ f \in Nat
  BY GapNat, GovernanceAssumption
<1>2. Gap(v, f) * f \in Nat
  BY <1>1
<1>3. Pos(MaxInventory - Inventory) \in Nat
  <2>1. pool.main \in Nat /\ pool.reserve \in Nat /\ pool.cooling \in Nat /\ pool.fresh \in Nat
    BY DEF GovernanceTypes, PoolNumbers, Kinds
  <2>2. Inventory \in Nat
    BY <2>1 DEF Inventory
  <2> QED
    BY <2>2, LimitsNat DEF Pos
<1>4. Rest(v, Gap(v, f) * f) \in Nat
  <2>1. Pos(DailyLimit - Today.count) \in Nat
    BY TodayIs, LimitsNat DEF Pos
  <2> QED
    BY <1>2, <2>1 DEF Rest
<1>5. Limit(v, f) \in Nat /\ Limit(v, f) <= Rest(v, Gap(v, f) * f)
  <2>1. BatchSize \in Nat
    BY GovernanceAssumption
  <2> QED
    BY <1>2, <1>3, <1>4, <2>1, LeastOfFour DEF Limit
<1> QED
  BY <1>4, <1>5

\* What an order does to the numbers of the day: outside an emergency it is within what is
\* left of it.
LEMMA StartKeepsDay ==
  ASSUME GovernanceTypes, DayKept, booking = <<>>,
         NEW v \in Nat \X Nat, NEW f \in Needs, NEW n \in 1 .. Limit(v, f), NEW byScan \in BOOLEAN,
         Starts(v, n, byScan)
  PROVE  /\ booking' \in Bookings /\ booking' # <<>> /\ booking'.emergency = Emergency(v)
         /\ order' \in [left : Nat, refill : BOOLEAN] /\ ordered' \in Nat /\ DayKept'
         /\ DailyLimit > 0 /\ ~Emergency(v) => ordered' <= DailyLimit + uncounted'
<1>1. n \in Nat \ {0} /\ n <= Rest(v, Gap(v, f) * f)
  BY OrderInRest
<1>2. /\ Today.count \in Nat /\ Today.day = day /\ ordered \in Nat /\ uncounted \in Nat
      /\ ordered <= Today.count + uncounted /\ DailyLimit \in Nat
      /\ day \in Nat /\ daily.day <= day /\ daily.day \in Nat
  BY TodayIs, LimitsNat DEF DayKept, Pending, GovernanceTypes, Books
<1>3. Emergency(v) \in BOOLEAN
  BY DEF Emergency
<1>4. /\ booking' = [day |-> day, count |-> Today.count + n, n |-> n,
                     emergency |-> Emergency(v), scan |-> byScan]
      /\ order' = [left |-> n, refill |-> TRUE]
      /\ ordered' = ordered + n /\ UNCHANGED <<day, daily, uncounted>>
  BY DEF Starts
<1>5. booking' \in Bookings
  <2>1. day \in Nat /\ Today.count + n \in Nat /\ n \in Nat
    BY <1>1, <1>2
  <2> QED
    BY <1>3, <1>4, <2>1 DEF Bookings
<1>6. booking' # <<>> /\ booking'.emergency = Emergency(v)
  <2>1. "day" \in DOMAIN booking' /\ "day" \notin DOMAIN <<>>
    BY <1>4
  <2>2. booking' # <<>>
    BY <2>1
  <2> QED
    BY <1>4, <2>2
<1>7. order' \in [left : Nat, refill : BOOLEAN] /\ ordered' \in Nat
  BY <1>1, <1>2, <1>4
<1>8. Today' = Today
  BY <1>4 DEF Today
<1>9. Pending' = n /\ booking'.day = day /\ booking'.count = Today.count + n /\ booking'.n = n
  BY <1>4, <1>6 DEF Pending
<1>10. DayKept'
  BY <1>1, <1>2, <1>4, <1>8, <1>9 DEF DayKept
<1>11. ASSUME DailyLimit > 0, ~Emergency(v)
       PROVE  ordered' <= DailyLimit + uncounted'
  <2>1. n <= Pos(DailyLimit - Today.count)
    BY <1>1, <1>11 DEF Rest
  <2> QED
    BY <1>1, <1>2, <1>4, <2>1 DEF Pos
<1> QED
  BY <1>5, <1>6, <1>7, <1>10, <1>11

\* The rounds that saw too few, when one more does.
LEMMA NotedKeeps ==
  ASSUME GovernanceTypes, RoundsKept, UNCHANGED round, Noted
  PROVE  /\ lowAge' \in Ages /\ low' \in [count : Nat, last : Nat] /\ RoundsKept'
         /\ low'.count >= LowRounds
              => 0 \in lowSeen \/ Cardinality(lowSeen \cup {round}) >= LowRounds
<1>1. /\ low \in [count : Nat, last : Nat] /\ round \in Nat /\ LowRounds \in Nat
      /\ lowSeen' = lowSeen \cup {round} /\ low' = Counted
  BY GovernanceAssumption DEF GovernanceTypes, Books, Noted
<1>2. IsFiniteSet(0 .. low.last) /\ lowSeen \subseteq 0 .. low.last
  BY <1>1, FS_Interval DEF RoundsKept
<1>3. IsFiniteSet(lowSeen) /\ Cardinality(lowSeen) \in Nat
  BY <1>2, FS_Subset, FS_CardinalityType
<1>4. /\ Cardinality(lowSeen') \in Nat
      /\ Cardinality(lowSeen') = IF round \in lowSeen THEN Cardinality(lowSeen)
                                 ELSE Cardinality(lowSeen) + 1
  BY <1>1, <1>3, FS_AddElement
<1>5. lowAge' \in Ages
  BY <1>1 DEF Noted, BeginsToWait, GovernanceTypes, Books, Ages
<1>6. /\ low'.last = round /\ low' \in [count : Nat, last : Nat]
      /\ low'.count <= low.count + 1
      /\ round # 0 /\ low.last = round => low' = low
  <2>1. CASE round = 0 \/ low.last # round
    <3>1. low' = [count |-> Least({low.count + 1, LowRounds}), last |-> round]
      BY <1>1, <2>1 DEF Counted
    <3>2. Least({low.count + 1, LowRounds}) \in Nat
          /\ Least({low.count + 1, LowRounds}) <= low.count + 1
      BY <1>1, LeastOfTwo
    <3> QED
      BY <1>1, <2>1, <3>1, <3>2
  <2>2. CASE ~(round = 0 \/ low.last # round)
    BY <1>1, <2>2 DEF Counted
  <2> QED
    BY <2>1, <2>2
<1>7. 0 \in lowSeen' \/ low'.count <= Cardinality(lowSeen')
  <2>1. CASE 0 \in lowSeen'
    BY <2>1
  <2>2. CASE 0 \notin lowSeen'
    <3>1. round # 0 /\ low.count <= Cardinality(lowSeen)
      BY <1>1, <2>2 DEF RoundsKept
    <3>2. CASE low.last = round
      BY <1>1, <1>3, <1>4, <1>6, <3>1, <3>2
    <3>3. CASE low.last # round
      <4>1. round \notin lowSeen
        BY <1>1, <1>2, <3>3 DEF RoundsKept
      <4>2. Cardinality(lowSeen') = Cardinality(lowSeen) + 1
        BY <1>4, <4>1
      <4> QED
        BY <1>1, <1>3, <1>6, <3>1, <4>2
    <3> QED
      BY <3>2, <3>3
  <2> QED
    BY <2>1, <2>2
<1>8. lowSeen' \subseteq 0 .. round
  BY <1>1, <1>2 DEF RoundsKept
<1>9. RoundsKept'
  BY <1>1, <1>5, <1>6, <1>7, <1>8 DEF RoundsKept
<1>10. ASSUME low'.count >= LowRounds, 0 \notin lowSeen
       PROVE  Cardinality(lowSeen \cup {round}) >= LowRounds
  <2>1. CASE round # 0
    BY <1>1, <1>4, <1>6, <1>7, <1>10, <2>1
  <2>2. CASE round = 0
    <3>1. low.count <= Cardinality(lowSeen) /\ low.count \in Nat /\ low'.count \in Nat
      BY <1>1, <1>6, <1>10 DEF RoundsKept
    <3>2. Cardinality(lowSeen') = Cardinality(lowSeen) + 1
      BY <1>4, <1>10, <2>2
    <3> QED
      BY <1>1, <1>3, <1>4, <1>6, <1>10, <3>1, <3>2
  <2> QED
    BY <2>1, <2>2
<1> QED
  BY <1>5, <1>6, <1>9, <1>10

\* What the two properties say of a step.
WithinDay == OrdersCalmly /\ DailyLimit > 0 => ordered' <= DailyLimit + uncounted

AfterRounds ==
  OrdersCalmly => 0 \in lowSeen \/ Cardinality(lowSeen \cup {round}) >= LowRounds

\* A call that orders nothing.
LEMMA NoOrderKeeps ==
  ASSUME GovernanceInv, UNCHANGED <<round, order, booking, dayVars>>,
         UNCHANGED <<low, lowSeen>> \/ (low' = NoLow /\ lowSeen' = {}) \/ Noted,
         lowAge' \in Ages
  PROVE  Books' /\ DayKept' /\ RoundsKept' /\ WithinDay /\ AfterRounds
<1>1. UNCHANGED <<order, booking, day, daily, ordered, uncounted>>
  BY DEF dayVars
<1>2. DayKept' /\ WithinDay /\ AfterRounds
  BY <1>1 DEF GovernanceInv, DayKept, Today, Pending, OrdersCalmly, WithinDay, AfterRounds
<1>3. low' \in [count : Nat, last : Nat] /\ RoundsKept'
  <2>1. CASE UNCHANGED <<low, lowSeen>>
    BY <2>1 DEF GovernanceInv, GovernanceTypes, Books, RoundsKept
  <2>2. CASE low' = NoLow /\ lowSeen' = {}
    BY <2>2, FS_EmptySet DEF NoLow, GovernanceInv, GovernanceTypes, RoundsKept
  <2>3. CASE Noted
    BY <2>3, NotedKeeps DEF GovernanceInv
  <2> QED
    BY <2>1, <2>2, <2>3
<1> QED
  BY <1>1, <1>2, <1>3 DEF GovernanceInv, GovernanceTypes, Books

LEMMA AgesOf ==
  ASSUME GovernanceInv
  PROVE  /\ StartsAnew => lowAge' \in Ages
         /\ BeginsToWait => lowAge' \in Ages
         /\ UNCHANGED lowAge => lowAge' \in Ages
BY DEF GovernanceInv, GovernanceTypes, Books, Ages, StartsAnew, BeginsToWait

LEMMA RefillKeeps ==
  ASSUME GovernanceInv, UNCHANGED round, booking = <<>>,
         NEW v \in Nat \X Nat, NEW f \in Needs, NEW byScan \in BOOLEAN,
         RefillResets(v, f) \/ RefillYields(v, f) \/ RefillWaits(v, f)
           \/ RefillOrders(v, f, byScan)
  PROVE  UNCHANGED day /\ Books' /\ DayKept' /\ RoundsKept' /\ WithinDay /\ AfterRounds
<1>1. CASE RefillResets(v, f)
  BY <1>1, AgesOf, NoOrderKeeps DEF RefillResets, StartsAnew, dayVars
<1>2. CASE RefillYields(v, f)
  BY <1>2, AgesOf, NoOrderKeeps DEF RefillYields, lowVars, dayVars
<1>3. CASE RefillWaits(v, f)
  BY <1>3, AgesOf, NoOrderKeeps DEF RefillWaits, Noted, dayVars
<1>4. CASE RefillOrders(v, f, byScan)
  <2>1. CASE UNCHANGED <<order, booking, dayVars>>
    BY <1>4, <2>1, AgesOf, NoOrderKeeps DEF RefillOrders, Noted, lowVars, dayVars
  <2>2. CASE \E n \in 1 .. Limit(v, f) : Starts(v, n, byScan)
    <3>1. PICK n \in 1 .. Limit(v, f) : Starts(v, n, byScan)
      BY <2>2
    <3>2. /\ booking' \in Bookings /\ booking' # <<>> /\ booking'.emergency = Emergency(v)
          /\ order' \in [left : Nat, refill : BOOLEAN] /\ ordered' \in Nat /\ DayKept'
          /\ DailyLimit > 0 /\ ~Emergency(v) => ordered' <= DailyLimit + uncounted'
      BY <3>1, StartKeepsDay DEF GovernanceInv
    <3>3. UNCHANGED <<day, daily, uncounted>>
      BY <3>1 DEF Starts
    <3>4. WithinDay
      BY <3>2, <3>3 DEF WithinDay, OrdersCalmly
    <3>5. CASE Emergency(v) /\ UNCHANGED lowVars
      <4>1. AfterRounds
        BY <3>2, <3>5 DEF AfterRounds, OrdersCalmly
      <4> QED
        BY <3>2, <3>3, <3>4, <3>5, <4>1
           DEF GovernanceInv, GovernanceTypes, Books, RoundsKept, lowVars
    <3>6. CASE Confirmed /\ Noted
      <4>1. low'.count >= LowRounds
        BY <3>6 DEF Confirmed, Noted
      <4>2. /\ lowAge' \in Ages /\ low' \in [count : Nat, last : Nat] /\ RoundsKept'
            /\ 0 \in lowSeen \/ Cardinality(lowSeen \cup {round}) >= LowRounds
        BY <3>6, <4>1, NotedKeeps DEF GovernanceInv
      <4>3. AfterRounds
        BY <4>2 DEF AfterRounds
      <4> QED
        BY <3>2, <3>3, <3>4, <4>2, <4>3 DEF GovernanceInv, GovernanceTypes, Books
    <3> QED
      BY <1>4, <3>5, <3>6 DEF RefillOrders
  <2> QED
    BY <1>4, <2>1, <2>2 DEF RefillOrders
<1> QED
  BY <1>1, <1>2, <1>3, <1>4

\* A whole call.
LEMMA CallKeeps ==
  ASSUME GovernanceInv, NEW byScan \in BOOLEAN, Refill(byScan)
  PROVE  GovernanceInv' /\ WithinDay /\ AfterRounds
<1>1. booking = <<>> /\ UNCHANGED <<round, pool>>
  BY DEF Refill
<1>2. /\ UNCHANGED day /\ Books' /\ DayKept' /\ RoundsKept' /\ WithinDay /\ AfterRounds
      /\ cached' \in Nat \X Nat
  <2>0. cached \in Nat \X Nat
    BY DEF GovernanceInv, GovernanceTypes
  <2>1. CASE (RefillFrozen \/ RefillFails) /\ UNCHANGED cached
    BY <1>1, <2>0, <2>1, AgesOf, NoOrderKeeps
       DEF RefillFrozen, RefillFails, StartsAnew, lowVars, dayVars
  <2>2. ASSUME NEW v \in Tallies \cup {cached}, NEW f \in Needs, Reads(v),
               RefillResets(Ready(v), f) \/ RefillYields(Ready(v), f)
                 \/ RefillWaits(Ready(v), f) \/ RefillOrders(Ready(v), f, byScan)
        PROVE  /\ UNCHANGED day /\ Books' /\ DayKept' /\ RoundsKept' /\ WithinDay /\ AfterRounds
               /\ cached' \in Nat \X Nat
    <3>1. Ready(v) \in Nat \X Nat /\ v \in Nat \X Nat
      BY ReadyNat DEF GovernanceInv
    <3>2. cached' \in Nat \X Nat
      BY <2>0, <2>2, <3>1 DEF Reads
    <3> QED
      BY <1>1, <2>2, <3>1, <3>2, RefillKeeps
  <2> QED
    BY <2>1, <2>2 DEF Refill
<1> QED
  BY <1>1, <1>2 DEF GovernanceInv, GovernanceTypes, PoolNumbers

\* The order is written into the books, or lost to them.
LEMMA BookKeeps ==
  ASSUME GovernanceInv, UNCHANGED <<round, lowVars, day, ordered>>, booking # <<>>,
         booking' = <<>>, order' \in [left : Nat, refill : BOOLEAN],
         (daily' = Booked /\ UNCHANGED uncounted) \/ (uncounted' = Lost /\ UNCHANGED daily)
  PROVE  Books' /\ DayKept' /\ RoundsKept' /\ WithinDay /\ AfterRounds
<1>1. /\ booking \in Bookings /\ daily \in [day : Nat, count : Nat] /\ day \in Nat
      /\ ordered \in Nat /\ uncounted \in Nat
      /\ daily.day <= booking.day /\ booking.day <= day
      /\ ordered <= Today.count + uncounted + Pending
      /\ booking.day = day => booking.count = Today.count + booking.n
  BY DEF GovernanceInv, GovernanceTypes, Books, DayKept
<1>2. booking.n \in Nat /\ booking.day \in Nat /\ booking.count \in Nat
  BY <1>1 DEF Bookings
<1>3. Today.count \in Nat
  BY TodayIs DEF GovernanceInv
<1>4. Pending = IF booking.day = day THEN booking.n ELSE 0
  BY DEF Pending
<1>5. Pending' = 0
  BY DEF Pending
<1>6. /\ daily' \in [day : Nat, count : Nat] /\ uncounted' \in Nat /\ daily'.day <= day
      /\ ordered <= Today'.count + uncounted'
  <2>1. CASE daily' = Booked /\ UNCHANGED uncounted
    <3>1. daily' = [day |-> booking.day, count |-> booking.count]
      BY <2>1 DEF Booked
    <3>2. daily' \in [day : Nat, count : Nat] /\ daily'.day = booking.day
          /\ daily'.count = booking.count
      BY <1>2, <3>1
    <3>3. CASE booking.day = day
      <4>1. Today'.count = booking.count
        BY <3>2, <3>3 DEF Today
      <4> QED
        BY <1>1, <1>2, <1>3, <1>4, <2>1, <3>2, <3>3, <4>1
    <3>4. CASE booking.day # day
      <4>1. Today'.count = 0 /\ Today.count = 0
        <5>1. daily.day # day
          BY <1>1, <1>2, <3>4
        <5> QED
          BY <3>2, <3>4, <5>1 DEF Today
      <4> QED
        BY <1>1, <1>2, <1>3, <1>4, <2>1, <3>2, <3>4, <4>1
    <3> QED
      BY <3>3, <3>4
  <2>2. CASE uncounted' = Lost /\ UNCHANGED daily
    <3>1. Today' = Today
      BY <2>2 DEF Today
    <3>2. uncounted' = uncounted + Pending
      BY <1>4, <2>2 DEF Lost
    <3>3. Pending \in Nat
      BY <1>2, <1>4
    <3>4. daily.day \in Nat
      BY <1>1
    <3> QED
      BY <1>1, <1>2, <1>3, <2>2, <3>1, <3>2, <3>3, <3>4
  <2> QED
    BY <2>1, <2>2
<1>7. DayKept'
  <2>1. Today'.count \in Nat
    BY <1>1, <1>6 DEF Today
  <2> QED
    BY <1>1, <1>5, <1>6, <2>1 DEF DayKept
<1> QED
  BY <1>6, <1>7
     DEF GovernanceInv, GovernanceTypes, Books, RoundsKept, lowVars, OrdersCalmly, WithinDay,
         AfterRounds

-----------------------------------------------------------------------------
(* The steps. *)

\* Scan, scheduler and operator leave the books alone.
LEMMA PoolKeeps ==
  ASSUME GovernanceInv, UNCHANGED refillVars, PoolNumbers',
         round' \in Nat, round <= round'
  PROVE  GovernanceInv' /\ WithinDay /\ AfterRounds
<1>0. UNCHANGED <<lowAge, low, lowSeen, cached, order, booking, day, daily, ordered, uncounted>>
  BY DEF refillVars, lowVars, dayVars
<1>1. GovernanceTypes' /\ WithinDay /\ AfterRounds
  BY <1>0 DEF GovernanceInv, GovernanceTypes, Books, OrdersCalmly, WithinDay, AfterRounds
<1>2. DayKept'
  BY <1>0 DEF GovernanceInv, DayKept, Today, Pending
<1>3. RoundsKept'
  <2>1. round \in Nat /\ low.last \in Nat
    BY DEF GovernanceInv, GovernanceTypes, Books
  <2> QED
    BY <1>0, <2>1 DEF GovernanceInv, RoundsKept
<1> QED
  BY <1>1, <1>2, <1>3 DEF GovernanceInv

LEMMA BeginsKeep ==
  ASSUME PoolNumbers, ScanBegins
  PROVE  PoolNumbers'
<1>1. /\ pool["main"] \in Nat /\ pool["reserve"] \in Nat /\ pool["unchecked"] \in Nat
      /\ pool["cooling"] \in Nat /\ pool["fresh"] \in Nat
      /\ pool["unchecked"] <= pool["reserve"]
  BY DEF PoolNumbers, Kinds
<1>2. /\ pool' = [k \in Kinds |-> pool'[k]]
      /\ pool'["reserve"] = pool["reserve"] + pool["fresh"]
      /\ pool'["unchecked"] = pool["unchecked"] + pool["fresh"] /\ pool'["fresh"] = 0
      /\ \A k \in {"main", "cooling"} : pool'[k] = pool[k]
  BY DEF ScanBegins, PoolNumbers, Kinds
<1> QED
  BY <1>1, <1>2 DEF PoolNumbers, Kinds

LEMMA ProbesKeep ==
  ASSUME PoolNumbers, (\E up \in {0, 1} : FirstGood(up)) \/ Cools \/ Recovers
  PROVE  PoolNumbers'
<1>0. /\ pool["main"] \in Nat /\ pool["reserve"] \in Nat /\ pool["unchecked"] \in Nat
      /\ pool["cooling"] \in Nat /\ pool["fresh"] \in Nat
      /\ pool["unchecked"] <= pool["reserve"]
  BY DEF PoolNumbers, Kinds
<1>1. ASSUME NEW up \in {0, 1}, FirstGood(up) PROVE PoolNumbers'
  <2>1. /\ pool' = [k \in Kinds |-> pool'[k]]
        /\ pool'["unchecked"] = pool["unchecked"] - 1 /\ pool["unchecked"] > 0
        /\ pool'["main"] = pool["main"] + up /\ pool'["reserve"] = pool["reserve"] - up
        /\ \A k \in {"cooling", "fresh"} : pool'[k] = pool[k]
    BY <1>1 DEF FirstGood, PoolNumbers, Kinds
  <2> QED
    BY <1>0, <2>1 DEF PoolNumbers, Kinds
<1>2. CASE Cools
  <2>1. /\ pool' = [k \in Kinds |-> pool'[k]]
        /\ pool'["main"] = pool["main"] - 1 /\ pool["main"] > 0
        /\ pool'["cooling"] = pool["cooling"] + 1
        /\ \A k \in {"unchecked", "reserve", "fresh"} : pool'[k] = pool[k]
    BY <1>2 DEF Cools, PoolNumbers, Kinds
  <2> QED
    BY <1>0, <2>1 DEF PoolNumbers, Kinds
<1>3. CASE Recovers
  <2>1. /\ pool' = [k \in Kinds |-> pool'[k]]
        /\ pool'["cooling"] = pool["cooling"] - 1 /\ pool["cooling"] > 0
        /\ pool'["main"] = pool["main"] + 1
        /\ \A k \in {"unchecked", "reserve", "fresh"} : pool'[k] = pool[k]
    BY <1>3 DEF Recovers, PoolNumbers, Kinds
  <2> QED
    BY <1>0, <2>1 DEF PoolNumbers, Kinds
<1> QED
  BY <1>1, <1>2, <1>3

LEMMA OrdersKeep ==
  ASSUME PoolNumbers, order \in [left : Nat, refill : BOOLEAN],
         Delivered \/ OrderStops \/ OperatorOrders
  PROVE  /\ UNCHANGED <<round, lowVars, cached, booking, dayVars>>
         /\ order' \in [left : Nat, refill : BOOLEAN] /\ PoolNumbers'
<1>1. CASE Delivered
  <2>1. PICK ok \in {0, 1} : pool' = [pool EXCEPT !.fresh = @ + ok]
    BY <1>1 DEF Delivered
  <2>2. /\ pool' = [k \in Kinds |-> pool'[k]] /\ pool'["fresh"] = pool["fresh"] + ok
        /\ \A k \in Kinds \ {"fresh"} : pool'[k] = pool[k] /\ pool[k] \in Nat
        /\ pool["fresh"] \in Nat /\ pool["unchecked"] <= pool["reserve"]
    BY <2>1 DEF PoolNumbers, Kinds
  <2>3. PoolNumbers'
    BY <2>2 DEF PoolNumbers, Kinds
  <2>4. order.left - 1 \in Nat /\ order' = [order EXCEPT !.left = @ - 1]
    BY <1>1 DEF Delivered
  <2>5. order' \in [left : Nat, refill : BOOLEAN]
    BY <2>4
  <2> QED
    BY <1>1, <2>3, <2>5 DEF Delivered
<1>2. CASE OrderStops
  BY <1>2 DEF OrderStops, NoOrder, PoolNumbers
<1>3. CASE OperatorOrders
  BY <1>3 DEF OperatorOrders, PoolNumbers
<1> QED
  BY <1>1, <1>2, <1>3

LEMMA GovernanceStep ==
  GovernanceInv /\ [NextGovernance]_governanceVars
    => GovernanceInv' /\ [WithinDay /\ AfterRounds]_governanceVars
<1> SUFFICES ASSUME GovernanceInv, [NextGovernance]_governanceVars
             PROVE  GovernanceInv' /\ ((WithinDay /\ AfterRounds) \/ UNCHANGED governanceVars)
  OBVIOUS
<1>1. PoolNumbers /\ round \in Nat
  BY DEF GovernanceInv, GovernanceTypes
<1>2. CASE ScanBegins
  <2>1. PoolNumbers'
    BY <1>1, <1>2, BeginsKeep
  <2> QED
    BY <1>1, <1>2, <2>1, PoolKeeps DEF ScanBegins
<1>3. CASE ScanProbes
  BY <1>1, <1>3, ProbesKeep, PoolKeeps DEF ScanProbes
<1>4. CASE ScanCancelled
  BY <1>1, <1>4, PoolKeeps DEF ScanCancelled, PoolNumbers
<1>5. CASE ScanRebalances \/ SchedulerRebalances
  BY <1>1, <1>5, Rebalanced, PoolKeeps DEF ScanRebalances, SchedulerRebalances
<1>6. CASE AccountLeaves
  <2>1. UNCHANGED <<round, refillVars>>
    BY <1>6 DEF AccountLeaves
  <2> QED
    BY <1>1, <1>6, <2>1, LeftOver, PoolKeeps
<1>7. CASE ScanRefills \/ ControllerRefills
  BY <1>7, CallKeeps DEF ScanRefills, ControllerRefills
<1>8. CASE Delivered \/ OrderStops \/ OperatorOrders
  <2>1. /\ UNCHANGED <<round, lowVars, cached, booking, dayVars>>
        /\ order' \in [left : Nat, refill : BOOLEAN] /\ PoolNumbers'
    BY <1>1, <1>8, OrdersKeep DEF GovernanceInv, GovernanceTypes, Books
  <2>2. GovernanceTypes'
    BY <2>1 DEF GovernanceInv, GovernanceTypes, Books, lowVars, dayVars
  <2> QED
    BY <2>1, <2>2 DEF GovernanceInv, DayKept, Today, Pending, RoundsKept, OrdersCalmly, WithinDay,
       AfterRounds, lowVars, dayVars
<1>9. CASE GovernanceTime
  <2>1. UNCHANGED <<round, scanning, pool, low, lowSeen, order, booking>>
    BY <1>9 DEF GovernanceTime
  <2>2. ~OrdersCalmly
    BY <2>1 DEF OrdersCalmly
  <2>3. cached' \in Nat \X Nat
    <3>1. cached \in Nat \X Nat
      BY DEF GovernanceInv, GovernanceTypes
    <3> QED
      BY <1>9, <3>1 DEF GovernanceTime
  <2>4. lowAge' \in Ages
    BY <1>9 DEF GovernanceTime, Older, GovernanceInv, GovernanceTypes, Books, Ages
  <2>5. /\ day' \in Nat /\ ordered' \in Nat /\ uncounted' \in Nat /\ UNCHANGED daily /\ DayKept'
    <3>1. CASE UNCHANGED dayVars
      BY <2>1, <3>1 DEF dayVars, GovernanceInv, GovernanceTypes, Books, DayKept, Today, Pending
    <3>2. CASE day' = day + 1 /\ ordered' = 0 /\ uncounted' = 0 /\ UNCHANGED daily
      <4>1. daily.day \in Nat /\ day \in Nat /\ daily.day <= day
        BY DEF GovernanceInv, GovernanceTypes, Books, DayKept
      <4>2. Today' = [day |-> day', count |-> 0]
        BY <3>2, <4>1 DEF Today
      <4>3. CASE booking = <<>>
        <5>1. Pending' = 0
          BY <2>1, <4>3 DEF Pending
        <5> QED
          BY <2>1, <3>2, <4>1, <4>2, <4>3, <5>1 DEF DayKept
      <4>4. CASE booking # <<>>
        <5>1. booking.day \in Nat /\ booking.day <= day /\ daily.day <= booking.day
          BY <4>4 DEF GovernanceInv, GovernanceTypes, Books, Bookings, DayKept
        <5>2. booking'.day # day'
          BY <2>1, <3>2, <4>1, <5>1
        <5>3. Pending' = 0
          BY <5>2 DEF Pending
        <5> QED
          BY <2>1, <3>2, <4>1, <4>2, <5>1, <5>2, <5>3 DEF DayKept
      <4> QED
        BY <4>3, <4>4
    <3> QED
      BY <1>9, <3>1, <3>2 DEF GovernanceTime
  <2> QED
    BY <2>1, <2>2, <2>3, <2>4, <2>5 DEF GovernanceInv, GovernanceTypes, PoolNumbers, Books,
       RoundsKept, WithinDay, AfterRounds
<1>10. CASE GovernanceRestarts
  <2>1. /\ UNCHANGED <<round, pool, lowVars, day, daily, ordered>> /\ booking' = <<>>
        /\ cached' \in Nat \X Nat
        /\ order' \in [left : Nat, refill : BOOLEAN]
        /\ uncounted' = IF booking = <<>> THEN uncounted ELSE Lost
    BY <1>10 DEF GovernanceRestarts, NoOrder, Blind
  <2>2. Books' /\ DayKept' /\ RoundsKept' /\ WithinDay /\ AfterRounds
    <3>1. CASE booking # <<>>
      BY <2>1, <3>1, BookKeeps
    <3>2. CASE booking = <<>>
      BY <2>1, <3>2 DEF GovernanceInv, GovernanceTypes, Books, DayKept, Today, Pending,
         RoundsKept, OrdersCalmly, WithinDay, AfterRounds, lowVars
    <3> QED
      BY <3>1, <3>2
  <2> QED
    BY <2>1, <2>2 DEF GovernanceInv, GovernanceTypes, PoolNumbers
<1>12. CASE StatusCounts
  <2>1. cached' \in Nat \X Nat
    <3>1. PICK v \in Tallies : cached' = v
      BY <1>12 DEF StatusCounts
    <3>2. v \in Nat \X Nat
      BY ReadyNat DEF GovernanceInv
    <3> QED
      BY <3>1, <3>2
  <2> QED
    BY <1>12, <2>1 DEF StatusCounts, GovernanceInv, GovernanceTypes, PoolNumbers, Books, DayKept,
       Today, Pending, RoundsKept, OrdersCalmly, WithinDay, AfterRounds, lowVars, dayVars
<1>13. CASE BookOrder
  <2>1. /\ UNCHANGED <<round, pool, lowVars, cached, order, day, ordered>>
        /\ booking # <<>> /\ booking' = <<>>
        /\ (daily' = Booked /\ UNCHANGED uncounted) \/ (uncounted' = Lost /\ UNCHANGED daily)
    BY <1>13 DEF BookOrder
  <2>2. order' \in [left : Nat, refill : BOOLEAN]
    BY <2>1 DEF GovernanceInv, GovernanceTypes, Books
  <2>3. Books' /\ DayKept' /\ RoundsKept' /\ WithinDay /\ AfterRounds
    BY <2>1, <2>2, BookKeeps
  <2> QED
    BY <2>1, <2>3 DEF GovernanceInv, GovernanceTypes, PoolNumbers
<1>11. CASE UNCHANGED governanceVars
  BY <1>11 DEF governanceVars, GovernanceInv, GovernanceTypes, PoolNumbers, Books,
     DayKept, Today, Pending, RoundsKept
<1> QED
  BY <1>2, <1>3, <1>4, <1>5, <1>6, <1>7, <1>8, <1>9, <1>10, <1>11, <1>12, <1>13
     DEF NextGovernance

\* Whatever scan thread, controller, jobs, midnights and restarts do in between, no order
\* that the controller does not take for an emergency brings a day above its limit, but by
\* accounts that a crash or a failed write kept out of the count (cpa_pool.py 2813-2821,
\* 2898-2899).
THEOREM DailySoftLimitAlways == GovernanceSpec => DailySoftLimit
<1>1. GovernanceInv /\ [NextGovernance]_governanceVars => [WithinDay]_governanceVars
  BY GovernanceStep
<1>2. GovernanceInv /\ [NextGovernance]_governanceVars => GovernanceInv'
  BY GovernanceStep
<1> QED
  BY <1>1, <1>2, GovernanceInit, PTL DEF GovernanceSpec, DailySoftLimit, WithinDay

\* Nor does such an order come before enough different scans have seen too few accounts, with
\* whatever counts of them, old ones too (cpa_pool.py 1557-1575, 2773-2808).
THEOREM LowWaterConfirmedAlways == GovernanceSpec => LowWaterConfirmed
<1>1. GovernanceInv /\ [NextGovernance]_governanceVars => [AfterRounds]_governanceVars
  BY GovernanceStep
<1>2. GovernanceInv /\ [NextGovernance]_governanceVars => GovernanceInv'
  BY GovernanceStep
<1> QED
  BY <1>1, <1>2, GovernanceInit, PTL DEF GovernanceSpec, LowWaterConfirmed, AfterRounds
-----------------------------------------------------------------------------
(* The types of the breaker: in particular no breaker, copy or row of the table ever *)
(* counts more canaries than are let through.                                        *)

Observation == [at : Nat, stage : Scopes, status : Statuses]

\* What a worker has, wherever it is.
ProbeLocals ==
  [pc : {"idle"}]
  \cup [pc : {"ask", "asked", "put", "send"}, account : Members, chat : BOOLEAN, at : Nat,
        scope : Scopes, copy : BreakerState]
  \cup [pc : {"row"}, account : Members, at : Nat, stage : Scopes,
        status : Statuses \cup {"skipped"}, skipped : BOOLEAN]

\* Rows that were skipped apart, a row is an observation.
Reports(r) == r.pc = "row" /\ ~r.skipped => r.status \in Statuses

BreakerTyped ==
  /\ BreakerTypeOK
  /\ probe \in [Probes -> ProbeLocals]
  /\ \A p \in Probes : Reports(probe[p])

LEMMA BreakerNumbers ==
  /\ OpenFor \in Nat /\ CanaryLimit \in Nat /\ 0 \in 0 .. CanaryLimit /\ MaxClock \in Nat
  /\ NoOne \notin Probes /\ 0 \in 0 .. MaxClock
BY BreakerAssumption

LEMMA ClosedIsState == Closed \in BreakerState
BY BreakerNumbers DEF Closed, BreakerState

LEMMA DueIsState ==
  ASSUME clock \in Nat, NEW b \in BreakerState
  PROVE  Due(b) \in BreakerState
BY BreakerNumbers DEF Due, BreakerState

LEMMA MovedIsState ==
  ASSUME NEW b \in BreakerState, NEW r \in Observation
  PROVE  Moved(b, r) \in BreakerState
<1> DEFINE h == Half(b, r)
<1>1. r.at \in Nat /\ r.at + OpenFor \in Nat
  BY BreakerNumbers DEF Observation
<1>2. h \in BreakerState
  BY <1>1 DEF Half, BreakerState
<1>3. [h EXCEPT !.state = "open", !.openUntil = r.at + OpenFor] \in BreakerState
  BY <1>1, <1>2 DEF BreakerState
<1>4. [Closed EXCEPT !.state = "open", !.openUntil = r.at + OpenFor] \in BreakerState
  BY <1>1, ClosedIsState DEF BreakerState
<1> HIDE DEF h
<1>5. CASE h.state = "half_open"
  <2> DEFINE C == Canaries(r.stage, h.halfAt)
  <2>1. Moved(b, r) = Verdict(h, r, C)
    BY <1>5 DEF Moved, AfterCanaries, h
  <2> HIDE DEF C
  <2>2. QED
    BY <1>2, <1>3, <2>1, ClosedIsState DEF Verdict
<1>6. CASE h.state # "half_open"
  BY <1>2, <1>4, <1>6 DEF Moved, h
<1> QED
  BY <1>5, <1>6

\* A worker's step, by what becomes of its locals; nobody but it may leave the lock.
LEMMA WorkerStep ==
  ASSUME BreakerTyped, NEW p \in Probes, NEW r \in ProbeLocals, Reports(r),
         probe' = [probe EXCEPT ![p] = r],
         holder' = NoOne \/ (holder' = holder /\ probe[p].pc # "asked")
           \/ (holder' = p /\ r.pc = "asked"),
         clock' = clock, muted' \subseteq Members,
         breaker' \in [Scopes -> BreakerState], table' \in [Scopes -> BreakerState],
         obs' \in Seq(Observation),
         recording' = <<>> \/ (recording'[1] \in Observation /\ recording'[2] \in BreakerState)
  PROVE  BreakerTyped'
<1>1. probe' \in [Probes -> ProbeLocals] /\ \A q \in Probes : Reports(probe'[q])
  BY DEF BreakerTyped
<1>2. \A q \in Probes : probe'[q].pc \in {"idle", "ask", "asked", "put", "send", "row"}
  BY <1>1 DEF ProbeLocals
<1>3. holder' = NoOne \/ (holder' \in Probes /\ probe'[holder'].pc = "asked")
  <2>1. CASE holder' = holder /\ probe[p].pc # "asked"
    BY <2>1 DEF BreakerTyped, BreakerTypeOK
  <2>2. CASE holder' = p /\ r.pc = "asked"
    BY <2>2 DEF BreakerTyped
  <2>3. QED
    BY <2>1, <2>2
<1>4. clock' \in 0 .. MaxClock
  BY DEF BreakerTyped, BreakerTypeOK
<1>5. BreakerTypeOK'
  BY <1>2, <1>3, <1>4 DEF BreakerTypeOK, Observation
<1>6. QED
  BY <1>1, <1>5 DEF BreakerTyped
-----------------------------------------------------------------------------
LEMMA TypedParts ==
  ASSUME BreakerTyped
  PROVE  /\ clock \in Nat /\ muted \subseteq Members /\ probe \in [Probes -> ProbeLocals]
         /\ breaker \in [Scopes -> BreakerState] /\ table \in [Scopes -> BreakerState]
         /\ obs \in Seq(Observation)
         /\ recording = <<>> \/ (recording[1] \in Observation /\ recording[2] \in BreakerState)
         /\ holder = NoOne \/ (holder \in Probes /\ probe[holder].pc = "asked")
BY BreakerNumbers DEF BreakerTyped, BreakerTypeOK, Observation

\* The row of a probe that ends.
LEMMA RowTyped ==
  ASSUME BreakerTyped, NEW p \in Probes, probe[p].pc \in {"ask", "asked", "send"},
         NEW s \in Scopes, NEW st \in Statuses \cup {"skipped"}, NEW skipped \in BOOLEAN,
         ~skipped => st \in Statuses,
         Row(p, s, st, skipped), UNCHANGED <<clock, breaker, table, obs, recording, muted>>,
         holder' = NoOne \/ (holder' = holder /\ probe[p].pc # "asked")
  PROVE  BreakerTyped'
<1> DEFINE r == [pc |-> "row", account |-> probe[p].account, at |-> probe[p].at,
                 stage |-> s, status |-> st, skipped |-> skipped]
<1>1. probe' = [probe EXCEPT ![p] = r]
  BY TypedParts DEF Row
<1>2. r \in ProbeLocals /\ Reports(r)
  BY TypedParts DEF ProbeLocals, Reports
<1> HIDE DEF r
<1>3. QED
  BY <1>1, <1>2, TypedParts, WorkerStep

LEMMA AsksTyped ==
  ASSUME BreakerTyped, NEW p \in Probes,
         (\E a \in Members : BeginProbe(p, a)) \/ AskRead(p) \/ AskPut(p)
  PROVE  BreakerTyped'
<1> USE TypedParts
<1>1. ASSUME NEW a \in Members, BeginProbe(p, a)
      PROVE  BreakerTyped'
  <2> DEFINE r == [pc |-> "ask", account |-> a, chat |-> a \in Chatting,
                   at |-> Second(clock), scope |-> "models", copy |-> Closed]
  <2>1. Second(clock) \in Nat
    BY DEF Second
  <2>2. r \in ProbeLocals /\ Reports(r)
    BY <2>1, ClosedIsState DEF ProbeLocals, Reports, Scopes
  <2>3. probe' = [probe EXCEPT ![p] = r] /\ probe[p].pc # "asked"
        /\ UNCHANGED <<clock, breaker, table, obs, holder, recording, muted>>
    BY <1>1 DEF BeginProbe
  <2> HIDE DEF r
  <2>4. QED
    BY <2>2, <2>3, WorkerStep
<1>2. CASE AskRead(p)
  <2> DEFINE r == [probe[p] EXCEPT !.pc = "asked", !.copy = breaker[probe[p].scope]]
  <2>1. probe[p].pc = "ask" /\ probe[p] \in ProbeLocals
    BY <1>2 DEF AskRead
  <2>2. r \in ProbeLocals /\ Reports(r) /\ r.pc = "asked"
    BY <2>1 DEF ProbeLocals, Reports
  <2>3. probe' = [probe EXCEPT ![p] = r] /\ holder' = p
        /\ UNCHANGED <<clock, breaker, table, obs, recording, muted>>
    BY <1>2 DEF AskRead
  <2> HIDE DEF r
  <2>4. QED
    BY <2>2, <2>3, WorkerStep
<1>3. CASE AskPut(p)
  <2> DEFINE r == [probe[p] EXCEPT !.pc = "send"]
  <2>1. probe[p].pc = "put" /\ probe[p] \in ProbeLocals
    BY <1>3 DEF AskPut
  <2>2. r \in ProbeLocals /\ Reports(r) /\ probe[p].copy \in BreakerState
    BY <2>1 DEF ProbeLocals, Reports
  <2>3. table' \in [Scopes -> BreakerState]
    BY <1>3, <2>2 DEF AskPut
  <2>4. probe' = [probe EXCEPT ![p] = r]
        /\ UNCHANGED <<clock, breaker, obs, holder, recording, muted>>
    BY <1>3 DEF AskPut
  <2> HIDE DEF r
  <2>5. QED
    BY <2>1, <2>2, <2>3, <2>4, WorkerStep
<1>4. QED
  BY <1>1, <1>2, <1>3

LEMMA AnswersTyped ==
  ASSUME BreakerTyped, NEW p \in Probes, RefreshFails(p) \/ Answer(p)
  PROVE  BreakerTyped'
<1> USE TypedParts
<1>1. probe[p].pc \in {"ask", "send"} /\ probe[p] \in ProbeLocals
      /\ UNCHANGED <<clock, breaker, table, obs, holder, recording, muted>>
  BY DEF RefreshFails, Answer
<1>2. probe[p].scope \in Scopes /\ {"refresh", "models", "chat"} \subseteq Scopes
      /\ {"account", "ok"} \subseteq Statuses
  BY <1>1 DEF ProbeLocals, Scopes, Statuses
<1>3. CASE \E s \in Scopes, st \in Statuses : Row(p, s, st, FALSE)
  BY <1>1, <1>3, RowTyped
<1>4. CASE probe' = [probe EXCEPT ![p].pc = "ask", ![p].scope = "chat"]
  <2> DEFINE r == [probe[p] EXCEPT !.pc = "ask", !.scope = "chat"]
  <2>1. r \in ProbeLocals /\ Reports(r)
    BY <1>1, <1>2 DEF ProbeLocals, Reports
  <2>2. probe' = [probe EXCEPT ![p] = r]
    BY <1>4
  <2> HIDE DEF r
  <2>3. QED
    BY <1>1, <2>1, <2>2, WorkerStep
<1>5. QED
  BY <1>2, <1>3, <1>4 DEF RefreshFails, Answer

\* The count of canaries goes up only while it is below the limit.
LEMMA AskWriteTyped ==
  ASSUME BreakerTyped, NEW p \in Probes, AskWrite(p)
  PROVE  BreakerTyped'
<1> USE TypedParts
<1> DEFINE s == probe[p].scope
           b == Due(probe[p].copy)
           n == [b EXCEPT !.attempts = @ + 1]
<1>1. probe[p].pc = "asked" /\ probe[p] \in ProbeLocals /\ holder' = NoOne
      /\ UNCHANGED <<clock, table, obs, recording, muted>>
  BY DEF AskWrite
<1>2. s \in Scopes /\ b \in BreakerState
  BY <1>1, DueIsState DEF ProbeLocals
<1>3. CASE Row(p, s, "skipped", TRUE) /\ UNCHANGED breaker
  BY <1>1, <1>2, <1>3, RowTyped
<1>4. CASE probe' = [probe EXCEPT ![p].pc = "send"] /\ UNCHANGED breaker
  <2> DEFINE r == [probe[p] EXCEPT !.pc = "send"]
  <2>1. r \in ProbeLocals /\ Reports(r)
    BY <1>1 DEF ProbeLocals, Reports
  <2>2. probe' = [probe EXCEPT ![p] = r]
    BY <1>4
  <2> HIDE DEF r, s, b
  <2>3. QED
    BY <1>1, <1>4, <2>1, <2>2, WorkerStep
<1>5. CASE /\ ~Exhausted(b) /\ breaker' = [breaker EXCEPT ![s] = n]
           /\ probe' = [probe EXCEPT ![p].pc = "put", ![p].copy = n]
  <2> DEFINE r == [probe[p] EXCEPT !.pc = "put", !.copy = n]
  <2>1. n \in BreakerState
    <3> HIDE DEF b
    <3>1. b.attempts + 1 \in 0 .. CanaryLimit
      BY <1>2, <1>5, BreakerNumbers DEF Exhausted, BreakerState
    <3>2. QED
      BY <1>2, <3>1 DEF BreakerState
  <2> HIDE DEF n, b
  <2>2. r \in ProbeLocals /\ Reports(r)
    BY <1>1, <2>1 DEF ProbeLocals, Reports
  <2>3. probe' = [probe EXCEPT ![p] = r]
    BY <1>5
  <2>4. breaker' \in [Scopes -> BreakerState]
    BY <1>2, <1>5, <2>1
  <2> HIDE DEF r, s
  <2>5. QED
    BY <1>1, <2>2, <2>3, <2>4, WorkerStep
<1>6. QED
  BY <1>3, <1>4, <1>5 DEF AskWrite

LEMMA RowsTyped ==
  ASSUME BreakerTyped, NEW p \in Probes, PassOver(p) \/ RecordRead(p)
  PROVE  BreakerTyped'
<1> USE TypedParts
<1>1. probe[p].pc = "row" /\ probe[p] \in ProbeLocals /\ probe' = [probe EXCEPT ![p] = Idle]
      /\ UNCHANGED <<clock, breaker, table, holder>>
  BY DEF PassOver, RecordRead
<1>2. Idle \in ProbeLocals /\ Reports(Idle)
  BY DEF Idle, ProbeLocals, Reports
<1>3. CASE PassOver(p)
  <2>1. probe[p].account \in Members
    BY <1>1 DEF ProbeLocals
  <2>2. muted' \subseteq Members /\ UNCHANGED <<obs, recording>>
    BY <1>3, <2>1 DEF PassOver
  <2>3. QED
    BY <1>1, <1>2, <2>2, WorkerStep
<1>4. CASE RecordRead(p)
  <2> DEFINE r == [at |-> probe[p].at, stage |-> probe[p].stage, status |-> probe[p].status]
  <2>1. probe[p].at \in Nat /\ probe[p].stage \in Scopes
    BY <1>1 DEF ProbeLocals
  <2>2. probe[p].status \in Statuses
    BY <1>1, <1>4 DEF RecordRead, BreakerTyped, Reports
  <2>3. r \in Observation /\ r.stage \in Scopes
    BY <2>1, <2>2 DEF Observation
  <2>4. obs' = Append(obs, r) /\ recording' = <<r, breaker[r.stage]>> /\ muted' = muted
    BY <1>4 DEF RecordRead
  <2> HIDE DEF r
  <2>5. obs' \in Seq(Observation)
    BY <2>3, <2>4
  <2>6. recording'[1] \in Observation /\ recording'[2] \in BreakerState
    BY <2>3, <2>4
  <2>7. QED
    BY <1>1, <1>2, <2>4, <2>5, <2>6, WorkerStep
<1>5. QED
  BY <1>3, <1>4

LEMMA BreakerTypedStep == BreakerTyped /\ [NextBreaker]_breakerVars => BreakerTyped'
<1> SUFFICES ASSUME BreakerTyped, [NextBreaker]_breakerVars
             PROVE  BreakerTyped'
  OBVIOUS
<1> USE TypedParts
<1>1. CASE RecordWrite
  <2> DEFINE r == recording[1]
             n == Moved(recording[2], r)
  <2>1. r \in Observation /\ recording[2] \in BreakerState
    BY <1>1 DEF RecordWrite
  <2>2. n \in BreakerState /\ r.stage \in Scopes
    BY <2>1, MovedIsState DEF Observation
  <2>3. /\ breaker' = [breaker EXCEPT ![r.stage] = n] /\ table' = [table EXCEPT ![r.stage] = n]
        /\ recording' = <<>> /\ UNCHANGED <<clock, obs, probe, holder, muted>>
    BY <1>1 DEF RecordWrite
  <2> HIDE DEF n, r
  <2>4. breaker' \in [Scopes -> BreakerState] /\ table' \in [Scopes -> BreakerState]
    BY <2>2, <2>3
  <2>5. QED
    BY <2>3, <2>4 DEF BreakerTyped, BreakerTypeOK
<1>2. CASE RestartBreaker
  <2>1. Idle \in ProbeLocals /\ Reports(Idle) /\ Idle.pc = "idle"
    BY DEF Idle, ProbeLocals, Reports
  <2>2. QED
    BY <1>2, <2>1 DEF RestartBreaker, BreakerTyped, BreakerTypeOK
<1>3. CASE TickBreaker
  <2>1. clock' \in 0 .. MaxClock
    BY <1>3, BreakerNumbers DEF TickBreaker
  <2>2. QED
    BY <1>3, <2>1 DEF TickBreaker, BreakerTyped, BreakerTypeOK
<1>4. CASE UNCHANGED breakerVars
  BY <1>4 DEF breakerVars, BreakerTyped, BreakerTypeOK
<1>5. QED
  BY <1>1, <1>2, <1>3, <1>4, AsksTyped, AnswersTyped, AskWriteTyped, RowsTyped DEF NextBreaker

LEMMA BreakerTypedInit == InitBreaker => BreakerTyped
<1> SUFFICES ASSUME InitBreaker
             PROVE  BreakerTyped
  OBVIOUS
<1>1. Idle \in ProbeLocals /\ Reports(Idle) /\ Idle.pc = "idle"
  BY DEF Idle, ProbeLocals, Reports
<1>2. QED
  BY <1>1, ClosedIsState, BreakerNumbers DEF InitBreaker, BreakerTyped, BreakerTypeOK

\* The breaker is well typed in every state: in particular its cache, its table and every copy
\* of them count no more canaries than are let through (cpa_pool.py 1427-1446), whatever
\* workers, recordings and restarts write back.
THEOREM BreakerTypesAlways == BreakerSpec => []BreakerTypeOK
<1>1. BreakerTyped => BreakerTypeOK
  BY DEF BreakerTyped
<1>2. QED
  BY <1>1, BreakerTypedInit, BreakerTypedStep, PTL DEF BreakerSpec
-----------------------------------------------------------------------------
\* With the bounds of the model the numbers are those of its type.
GovernanceBounded ==
  /\ round <= MaxRounds /\ scanning \in {"no", "probing", "refilling"}
  /\ low.count <= LowRounds
  /\ 1 <= day /\ day <= MaxDays /\ 1 <= daily.day
  /\ ordered <= MaxDaily /\ (booking # <<>> => 1 <= booking.day)

LEMMA BoundsNat ==
  MaxRounds \in Nat /\ MaxDays \in Nat \ {0} /\ LowRounds \in Nat /\ MaxDaily \in Nat
BY GovernanceAssumption

LEMMA CountedBounded ==
  ASSUME GovernanceInv, GovernanceBounded
  PROVE  Counted.count <= LowRounds
<1>1. low \in [count : Nat, last : Nat] /\ LowRounds \in Nat /\ low.count + 1 \in Nat
  BY BoundsNat DEF GovernanceInv, GovernanceTypes, Books
<1>2. Least({low.count + 1, LowRounds}) <= LowRounds
  BY <1>1, LeastOfTwo
<1>3. CASE Counted = low
  BY <1>3 DEF GovernanceBounded
<1>4. CASE Counted = [count |-> Least({low.count + 1, LowRounds}), last |-> round]
  BY <1>2, <1>4
<1>5. QED
  BY <1>3, <1>4 DEF Counted

LEMMA RefillBounded ==
  ASSUME GovernanceInv, GovernanceBounded, NEW byScan, Refill(byScan),
         scanning' \in {"no", "probing", "refilling"}
  PROVE  GovernanceBounded'
<1>1. low' = low \/ low' = NoLow \/ low' = Counted
  BY DEF Refill, RefillFrozen, RefillFails, RefillResets, RefillYields, RefillWaits, RefillOrders,
     StartsAnew, Noted, lowVars
<1>2. low'.count <= LowRounds
  <2>1. CASE low' = low
    BY <2>1 DEF GovernanceBounded
  <2>2. CASE low' = NoLow
    BY <2>2, BoundsNat DEF NoLow
  <2>3. CASE low' = Counted
    BY <2>3, CountedBounded
  <2>4. QED
    BY <1>1, <2>1, <2>2, <2>3
<1>3. /\ UNCHANGED <<round, day, daily>>
      /\ \/ UNCHANGED <<ordered, booking>>
         \/ ordered' <= MaxDaily /\ booking'.day = day
  <2>1. ASSUME NEW v, NEW n, Starts(v, n, byScan)
        PROVE  ordered' <= MaxDaily /\ booking'.day = day /\ UNCHANGED <<day, daily>>
    BY <2>1 DEF Starts
  <2>2. UNCHANGED round
    BY DEF Refill
  <2>3. ASSUME UNCHANGED dayVars, UNCHANGED booking
        PROVE  UNCHANGED <<day, daily, ordered, booking>>
    BY <2>3 DEF dayVars
  <2>4. QED
    BY <2>1, <2>2, <2>3 DEF Refill, RefillFrozen, RefillFails, RefillResets, RefillYields,
       RefillWaits, RefillOrders, StartsAnew
<1>4. QED
  BY <1>2, <1>3 DEF GovernanceBounded

LEMMA GovernanceBoundedStep ==
  GovernanceInv /\ GovernanceBounded /\ [NextGovernance]_governanceVars => GovernanceBounded'
<1> SUFFICES ASSUME GovernanceInv, GovernanceBounded, [NextGovernance]_governanceVars
             PROVE  GovernanceBounded'
  OBVIOUS
<1>0. round \in Nat /\ day \in Nat
  BY DEF GovernanceInv, GovernanceTypes
<1>1. CASE ScanBegins
  <2>1. round' <= MaxRounds
    BY <1>0, <1>1, BoundsNat DEF ScanBegins
  <2>2. QED
    BY <1>1, <2>1 DEF ScanBegins, refillVars, lowVars, dayVars, GovernanceBounded
<1>2. CASE ScanRefills \/ ControllerRefills
  <2>1. scanning' \in {"no", "probing", "refilling"}
    BY <1>2 DEF ScanRefills, ControllerRefills
  <2>2. QED
    BY <1>2, <2>1, RefillBounded DEF ScanRefills, ControllerRefills
<1>3. CASE ScanProbes \/ ScanCancelled \/ ScanRebalances \/ SchedulerRebalances
           \/ AccountLeaves
  BY <1>3 DEF ScanProbes, ScanCancelled, ScanRebalances, SchedulerRebalances, AccountLeaves,
     refillVars, lowVars, dayVars, GovernanceBounded
<1>4. CASE Delivered \/ OrderStops \/ OperatorOrders \/ GovernanceRestarts \/ StatusCounts
  BY <1>4 DEF Delivered, OrderStops, OperatorOrders, GovernanceRestarts, StatusCounts, lowVars,
     dayVars, GovernanceBounded
<1>5. CASE GovernanceTime
  <2>1. /\ UNCHANGED <<round, scanning, low, booking, daily>>
        /\ \/ day' = day /\ ordered' = ordered
           \/ day < MaxDays /\ day' = day + 1 /\ ordered' = 0
    BY <1>5 DEF GovernanceTime, dayVars
  <2>2. 1 <= day' /\ day' <= MaxDays /\ ordered' <= MaxDaily
    BY <1>0, <2>1, BoundsNat DEF GovernanceBounded
  <2>3. QED
    BY <2>1, <2>2 DEF GovernanceBounded
<1>8. CASE BookOrder
  <2>1. /\ UNCHANGED <<round, low, day, ordered>> /\ booking # <<>> /\ booking' = <<>>
        /\ scanning' \in {"no", "probing", "refilling"} /\ (daily' = Booked \/ daily' = daily)
    BY <1>8 DEF BookOrder, lowVars, GovernanceBounded
  <2>2. 1 <= daily'.day
    BY <2>1 DEF Booked, GovernanceBounded
  <2>3. QED
    BY <2>1, <2>2 DEF GovernanceBounded
<1>6. CASE UNCHANGED governanceVars
  BY <1>6 DEF governanceVars, GovernanceBounded
<1>7. QED
  BY <1>1, <1>2, <1>3, <1>4, <1>5, <1>6, <1>8 DEF NextGovernance

\* The governance's numbers stay what they are: no step makes a count negative, promotes an
\* account that was never probed, or confirms more rounds than there were (cpa_pool.py
\* 2773-2821, 3035-3102).
THEOREM GovernanceTypesAlways == GovernanceSpec => []GovernanceTypeOK
<1>1. InitGovernance => GovernanceBounded
  <2> SUFFICES ASSUME InitGovernance
               PROVE  GovernanceBounded
    OBVIOUS
  <2>1. /\ round = 0 /\ scanning = "no" /\ low.count = 0
        /\ day = 1 /\ daily.day = 1 /\ ordered = 0 /\ booking = <<>>
    BY DEF InitGovernance
  <2>2. scanning \in {"no", "probing", "refilling"}
    BY <2>1
  <2>3. 0 <= MaxRounds /\ 0 <= LowRounds /\ 1 <= MaxDays /\ 0 <= MaxDaily
    BY ONLY BoundsNat
  <2>4. round <= MaxRounds /\ low.count <= LowRounds
    BY <2>1, <2>3
  <2>5. 1 <= day /\ day <= MaxDays /\ 1 <= daily.day
    BY <2>1, <2>3
  <2>6. QED
    BY <2>1, <2>2, <2>3, <2>4, <2>5 DEF GovernanceBounded
<1>2. GovernanceInv /\ GovernanceBounded => GovernanceTypeOK
  <2> SUFFICES ASSUME GovernanceInv, GovernanceBounded
               PROVE  GovernanceTypeOK
    OBVIOUS
  <2>1. round \in 0 .. MaxRounds /\ day \in 1 .. MaxDays
    BY BoundsNat DEF GovernanceInv, GovernanceTypes, GovernanceBounded
  <2>2. daily \in [day : 1 .. MaxDays, count : Nat]
    <3>1. daily \in [day : Nat, count : Nat] /\ 1 <= daily.day /\ daily.day <= day
      BY DEF GovernanceInv, GovernanceTypes, Books, DayKept, GovernanceBounded
    <3>2. daily.day \in 1 .. MaxDays
      BY <2>1, <3>1, BoundsNat
    <3>3. QED
      BY <3>1, <3>2
  <2>3. low \in [count : 0 .. LowRounds, last : 0 .. MaxRounds]
    <3>1. low \in [count : Nat, last : Nat] /\ low.count <= LowRounds /\ low.last <= round
      BY DEF GovernanceInv, GovernanceTypes, Books, RoundsKept, GovernanceBounded
    <3>2. low.count \in 0 .. LowRounds /\ low.last \in 0 .. MaxRounds
      BY <2>1, <3>1, BoundsNat
    <3>3. QED
      BY <3>1, <3>2
  <2>4. lowSeen \subseteq 0 .. MaxRounds
    BY <2>3, BoundsNat DEF GovernanceInv, RoundsKept
  <2>5. booking = <<>> \/ booking \in [day : 1 .. MaxDays, count : Nat, n : Nat,
                                     emergency : BOOLEAN, scan : BOOLEAN]
    <3>1. CASE booking # <<>>
      <4>1. booking \in Bookings /\ 1 <= booking.day /\ booking.day <= day
        BY <3>1 DEF GovernanceInv, GovernanceTypes, Books, DayKept, GovernanceBounded
      <4>2. booking.day \in 1 .. MaxDays
        BY <2>1, <4>1, BoundsNat DEF Bookings
      <4>3. QED
        BY <4>1, <4>2 DEF Bookings
    <3>2. QED
      BY <3>1
  <2>6. ordered \in 0 .. MaxDaily
    BY BoundsNat DEF GovernanceInv, GovernanceTypes, Books, GovernanceBounded
  <2>7. QED
    BY <2>1, <2>2, <2>3, <2>4, <2>5, <2>6
       DEF GovernanceInv, GovernanceTypes, PoolNumbers, Books, GovernanceBounded, GovernanceTypeOK
<1>3. GovernanceInv /\ [NextGovernance]_governanceVars => GovernanceInv'
  BY GovernanceStep
<1>4. QED
  BY <1>1, <1>2, <1>3, GovernanceInit, GovernanceBoundedStep, PTL DEF GovernanceSpec
=============================================================================
