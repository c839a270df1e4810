----------------------------- MODULE CpaBreaker -----------------------------
(***************************************************************************)
(* The upstream breaker of CpaPoolMonitor (src/webui/cpa_pool.py): one      *)
(* breaker per stage of a probe.  Probe workers ask it before they send     *)
(* (_breaker_blocks_probe, under _lock); the scan thread records what they  *)
(* found and moves the breaker (_record_observation, without the lock).     *)
(* While any breaker is not closed, governance and refill are frozen.       *)
(*                                                                          *)
(* Time counts half seconds: a row's checked_at is cut to whole seconds,    *)
(* the breaker's own times are not.                                         *)
(***************************************************************************)
EXTENDS Naturals, Sequences, FiniteSets

CONSTANTS
  Probes,        \* the workers of a scan
  Members,       \* the accounts
  NoOne,         \* no probe
  Fingerprints,  \* of upstream errors
  Chatting,      \* the accounts whose probe goes on to a chat request (_probe_chat)
  Window,        \* breaker_window_sec
  OpenFor,       \* breaker_open_sec
  MinSamples, MinErrors, RatioNum, RatioDen,
  CanaryLimit,   \* the literal 5 of the code
  CanaryOk,      \* the literal 4 of the code
  Restarts,      \* is the service restarted?
  MaxClock, MaxObs  \* bounds

ASSUME BreakerAssumption ==
  /\ NoOne \notin Probes
  /\ Chatting \subseteq Members /\ Restarts \in BOOLEAN
  /\ {Window, OpenFor, MinSamples, MinErrors, RatioNum, RatioDen} \subseteq Nat
  /\ CanaryLimit \in Nat \ {0} /\ CanaryOk \in 1 .. CanaryLimit
  /\ {MaxClock, MaxObs} \subseteq Nat

VARIABLES
  clock,
  breaker,   \* _breaker_cache
  table,     \* the breaker_state table
  obs,       \* the observations table, in order of id
  probe,     \* the workers' locals
  holder,    \* the worker in the locked part of _breaker_blocks_probe, or NoOne
  recording, \* the locals of _record_observation, <<>> when it does not run
  muted      \* accounts whose cached row says breaker_skipped

breakerVars == <<clock, breaker, table, obs, probe, holder, recording, muted>>

Scopes   == {"refresh", "models", "chat"}
Statuses == {"ok", "account"} \cup Fingerprints   \* "account": attributable to it
Closed   == [state |-> "closed", openUntil |-> 0, halfAt |-> 0, attempts |-> 0]
Idle     == [pc |-> "idle"]
Second(t) == t - (t % 2)

InitBreaker ==
  /\ clock = 0
  /\ breaker = [s \in Scopes |-> Closed] /\ table = breaker
  /\ obs = <<>>
  /\ probe = [p \in Probes |-> Idle] /\ holder = NoOne
  /\ recording = <<>>
  /\ muted = {}

Frozen == \E s \in Scopes : breaker[s].state # "closed"   \* _breaker_is_open()

-----------------------------------------------------------------------------
(* A worker: _scan_one. *)

BeginProbe(p, a) ==
  /\ probe[p].pc = "idle"
  /\ \A q \in Probes : probe[q].pc # "idle" => probe[q].account # a
  /\ probe' = [probe EXCEPT ![p] = [pc |-> "ask", account |-> a, chat |-> a \in Chatting,
                                    at |-> Second(clock), scope |-> "models",
                                    copy |-> Closed]]
  /\ UNCHANGED <<clock, breaker, table, obs, holder, recording, muted>>

\* The end of a probe: its row, not yet seen by the scan thread.
Row(p, stage, status, skipped) ==
  probe' = [probe EXCEPT ![p] = [pc |-> "row", account |-> @.account, at |-> @.at,
                                 stage |-> stage, status |-> status, skipped |-> skipped]]

\* The token could not be refreshed, before the first request.
RefreshFails(p) ==
  /\ probe[p].pc = "ask" /\ probe[p].scope = "models"
  /\ \E st \in Statuses \ {"ok"} : Row(p, "refresh", st, FALSE)
  /\ UNCHANGED <<clock, breaker, table, obs, holder, recording, muted>>

\* _breaker_blocks_probe: copy the breaker of the stage under the lock ...
AskRead(p) ==
  /\ probe[p].pc = "ask" /\ holder = NoOne
  /\ holder' = p
  /\ probe' = [probe EXCEPT ![p].pc = "asked", ![p].copy = breaker[probe[p].scope]]
  /\ UNCHANGED <<clock, breaker, table, obs, recording, muted>>

\* ... with the end of its hold looked at ...
Due(b) ==
  IF b.state = "open" /\ b.openUntil <= clock
  THEN [b EXCEPT !.state = "half_open", !.halfAt = clock, !.attempts = 0]
  ELSE b

\* ... so many canaries and no more ...
ExhaustedLate(b) == b.attempts > CanaryLimit        \* mutant: one more
Exhausted(b)     == b.attempts >= CanaryLimit

\* ... and refuse the probe, let it pass, or count it and write the copy back.
AskWrite(p) ==
  /\ probe[p].pc = "asked"
  /\ holder' = NoOne
  /\ LET s == probe[p].scope
         b == Due(probe[p].copy)
     IN \/ /\ b.state = "open" \/ (b.state = "half_open" /\ Exhausted(b))
           /\ Row(p, s, "skipped", TRUE)
           /\ UNCHANGED breaker
        \/ /\ b.state = "closed"
           /\ probe' = [probe EXCEPT ![p].pc = "send"]
           /\ UNCHANGED breaker
        \/ /\ b.state = "half_open" /\ ~Exhausted(b)
           /\ LET n == [b EXCEPT !.attempts = @ + 1]
              IN /\ breaker' = [breaker EXCEPT ![s] = n]
                 /\ probe' = [probe EXCEPT ![p].pc = "put", ![p].copy = n]
  /\ UNCHANGED <<clock, table, obs, recording, muted>>

\* put_breaker, after the lock.
AskPut(p) ==
  /\ probe[p].pc = "put"
  /\ table' = [table EXCEPT ![probe[p].scope] = probe[p].copy]
  /\ probe' = [probe EXCEPT ![p].pc = "send"]
  /\ UNCHANGED <<clock, breaker, obs, holder, recording, muted>>

\* The request of the stage and its answer.  A rejected token is refreshed once: if
\* that is rejected too, the row belongs to the stage "refresh".
Answer(p) ==
  /\ probe[p].pc = "send"
  /\ LET s == probe[p].scope
     IN \/ \E st \in Statuses \ {"ok"} : Row(p, s, st, FALSE)
        \/ s = "models" /\ Row(p, "refresh", "account", FALSE)
        \/ /\ s = "models" /\ probe[p].chat
           /\ probe' = [probe EXCEPT ![p].pc = "ask", ![p].scope = "chat"]
        \/ /\ s = "chat" \/ ~probe[p].chat
           /\ Row(p, s, "ok", FALSE)
  /\ UNCHANGED <<clock, breaker, table, obs, holder, recording, muted>>

-----------------------------------------------------------------------------
(* The scan thread. *)

\* _merge_result keeps every key of the old row: an account that was skipped once
\* stays marked, and is not recorded again.
PassOver(p) ==
  /\ probe[p].pc = "row" /\ recording = <<>>
  /\ probe[p].skipped \/ probe[p].account \in muted
  /\ muted' = muted \cup {probe[p].account}
  /\ probe' = [probe EXCEPT ![p] = Idle]
  /\ UNCHANGED <<clock, breaker, table, obs, holder, recording>>

\* _record_observation up to its copy of the breaker.
RecordRead(p) ==
  /\ probe[p].pc = "row" /\ recording = <<>>
  /\ ~probe[p].skipped /\ probe[p].account \notin muted
  /\ Len(obs) < MaxObs
  /\ LET r == [at |-> probe[p].at, stage |-> probe[p].stage, status |-> probe[p].status]
     IN /\ obs' = Append(obs, r)
        /\ recording' = <<r, breaker[r.stage]>>
  /\ probe' = [probe EXCEPT ![p] = Idle]
  /\ UNCHANGED <<clock, breaker, table, holder, muted>>

\* CpaPoolRepository.breaker_stats: what the observations of a stage say since a time.
Since(stage, t)  == {i \in DOMAIN obs : obs[i].stage = stage /\ obs[i].at >= t}
ErrorsOf(I, f)   == {i \in I : obs[i].status = f}
Canaries(stage, t) ==
  LET C == Since(stage, t)
      Newer(i) == {j \in C : obs[j].at > obs[i].at \/ (obs[j].at = obs[i].at /\ j > i)}
  IN {i \in C : Cardinality(Newer(i)) < CanaryLimit}

\* Enough samples in the window, and enough of them with one and the same upstream error.
Outage(r) ==
  LET I == Since(r.stage, IF r.at > Window THEN r.at - Window ELSE 0)
  IN /\ Cardinality(I) >= MinSamples
     /\ \E f \in Fingerprints :
          LET n == Cardinality(ErrorsOf(I, f))
          IN n > 0 /\ n >= MinErrors /\ n * RatioDen >= Cardinality(I) * RatioNum

\* The breaker after an observation r, from the copy b that was read.
Half(b, r) ==
  IF b.state = "open" /\ r.at >= b.openUntil
  THEN [b EXCEPT !.state = "half_open", !.halfAt = r.at] ELSE b

Verdict(b, r, C) ==
  CASE Cardinality(C) < CanaryLimit -> b
    [] Cardinality(C) >= CanaryLimit
       /\ Cardinality(ErrorsOf(C, "ok")) >= CanaryOk -> Closed
    [] OTHER -> [b EXCEPT !.state = "open", !.openUntil = r.at + OpenFor]

AfterLatest(b, r)   == Verdict(b, r, Canaries(r.stage, 0))      \* mutant: older ones too
AfterCanaries(b, r) == Verdict(b, r, Canaries(r.stage, b.halfAt))

Moved(b, r) ==
  LET h == Half(b, r)
  IN CASE h.state = "half_open" -> AfterCanaries(h, r)
       [] h.state # "half_open" /\ Outage(r) ->
            [Closed EXCEPT !.state = "open", !.openUntil = r.at + OpenFor]
       [] OTHER -> h

RecordWrite ==
  /\ recording # <<>>
  /\ LET r == recording[1]
         n == Moved(recording[2], r)
     IN /\ breaker' = [breaker EXCEPT ![r.stage] = n]
        /\ table' = [table EXCEPT ![r.stage] = n]
  /\ recording' = <<>>
  /\ UNCHANGED <<clock, obs, probe, holder, muted>>

-----------------------------------------------------------------------------
\* The service is restarted: _load_durable_state reads the breakers back.
RestartBreaker ==
  /\ Restarts
  /\ breaker' = table
  /\ probe' = [p \in Probes |-> Idle] /\ holder' = NoOne
  /\ recording' = <<>>
  /\ UNCHANGED <<clock, table, obs, muted>>

TickBreaker ==
  /\ clock < MaxClock
  /\ clock' = clock + 1
  /\ UNCHANGED <<breaker, table, obs, probe, holder, recording, muted>>

NextBreaker ==
  \/ \E p \in Probes, a \in Members : BeginProbe(p, a)
  \/ \E p \in Probes : RefreshFails(p) \/ AskRead(p) \/ AskWrite(p) \/ AskPut(p) \/ Answer(p)
  \/ \E p \in Probes : PassOver(p) \/ RecordRead(p)
  \/ RecordWrite \/ RestartBreaker \/ TickBreaker

BreakerSpec == InitBreaker /\ [][NextBreaker]_breakerVars

-----------------------------------------------------------------------------
(* Properties *)

BreakerState ==
  [state : {"closed", "open", "half_open"}, openUntil : Nat, halfAt : Nat,
   attempts : 0 .. CanaryLimit]

BreakerTypeOK ==
  /\ clock \in 0 .. MaxClock
  /\ breaker \in [Scopes -> BreakerState] /\ table \in [Scopes -> BreakerState]
  /\ obs \in Seq([at : Nat, stage : Scopes, status : Statuses])
  /\ \A p \in Probes : probe[p].pc \in {"idle", "ask", "asked", "put", "send", "row"}
  /\ holder = NoOne \/ (holder \in Probes /\ probe[holder].pc = "asked")
  /\ recording = <<>> \/ (recording[1] \in [at : Nat, stage : Scopes, status : Statuses]
                          /\ recording[2] \in BreakerState)
  /\ muted \subseteq Members

\* Governance is thawed on evidence only: whatever workers, scan thread and restarts do
\* in between, a breaker that is not closed is written back as closed only when enough
\* probes that began after its hold had run out were answered well (cpa_pool.py
\* 1485-1526).  The hold is that of the copy the scan thread has read: an older row,
\* recorded late, shortens it.
CloseNeedsCanaries ==
  [][\A s \in Scopes :
       table[s].state # "closed" /\ table'[s].state = "closed"
         => /\ recording # <<>>
            /\ Cardinality(ErrorsOf(Since(s, recording[2].openUntil), "ok"))
                 >= CanaryOk]_breakerVars

\* The hold of a breaker is a number of seconds (app.js 322): once it has run out and
\* the probes let through have come back, the breaker is decided on, one way or the other.
HalfOpenDecides ==
  \A s \in Scopes :
    breaker[s].state = "half_open" /\ breaker[s].attempts = CanaryLimit
      => \/ recording # <<>>
         \/ \E p \in Probes : probe[p].pc # "idle"
         \/ Cardinality(Since(s, breaker[s].halfAt)) >= CanaryLimit
=============================================================================
