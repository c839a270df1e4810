-------------------------- MODULE TurnstileSolver --------------------------
(***************************************************************************)
(* The local captcha solver: the API process (src/local_solver/              *)
(* api_solver.py), its pool of Chrome workers (turnstile_engine.py) and the  *)
(* registering threads that call it (protocol_register.solve_turnstile).     *)
(* The solver is one event loop: an action runs from one await to the next,  *)
(* and what the code does between them (the whole of ensure) is one step.    *)
(***************************************************************************)
EXTENDS Naturals, Sequences, FiniteSets

CONSTANTS
  Calls,      \* calls of solve_turnstile, and the solver tasks they become
  Ports,      \* one Chrome worker may run on each
  Slots,      \* thread_count
  StartMode,  \* "headless" or "offscreen": what the solver was started with
  MaxBuilds,  \* bound: how often the pool is built
  MaxDeaths   \* bound: how often a Chrome dies by itself

ASSUME SolverAssumption ==
  /\ IsFiniteSet(Ports) /\ Slots \in Nat \ {0}
  /\ MaxBuilds \in Nat /\ MaxDeaths \in Nat
  /\ StartMode \in {"headless", "offscreen"}

VARIABLES
  calling,    \* call -> where its client is
  followed,   \* _LOCAL_SOLVER_TASKS
  given,      \* call -> its entry of results_db
  solving,    \* call -> its task in the solver
  withdrawn,  \* cancelled_tasks
  browsers,    \* the ChromeWorkerPool
  chrome,     \* ports on which a Chrome listens
  deaths

solverVars == <<calling, followed, given, solving, withdrawn, browsers, chrome, deaths>>

\* A worker belongs to the pool it was built in; "live" says that the task's
\* connection to the Chrome of the worker stands.
NoWorker == [build |-> 0, port |-> "none"]
NoTask   == [pc |-> "none", queue |-> 0, worker |-> NoWorker, mode |-> StartMode, live |-> FALSE]

Seats   == {t \in Calls : solving[t].pc \in {"wait", "solve", "back"}}  \* solve_semaphore
Holders == {t \in Calls : solving[t].pc \in {"solve", "back"}}

InitSolver ==
  /\ calling = [t \in Calls |-> "idle"] /\ followed = {}
  /\ given = [t \in Calls |-> "absent"]
  /\ solving = [t \in Calls |-> NoTask] /\ withdrawn = {}
  /\ browsers = [build |-> 0, ready |-> FALSE, mode |-> StartMode, ports |-> {},
                lame |-> {}, leaked |-> {}, free |-> <<>>]
  /\ chrome = {} /\ deaths = 0

-----------------------------------------------------------------------------
(* The pool.  P is its state, c the ports with a Chrome, up those that start.  *)

\* ensure() is content with the pool it finds.
Intact(m) ==
  browsers.ready /\ browsers.mode = m /\ browsers.ports \subseteq chrome \ browsers.lame

\* Everything is killed, and what starts again makes a pool with a queue of its own.
BuiltPools(m, up) ==
  {[build |-> browsers.build + 1, ready |-> up # {}, mode |-> m, ports |-> up,
    lame |-> {}, leaked |-> {}, free |-> q] :
      q \in {s \in [1 .. Cardinality(up) -> {[build |-> browsers.build + 1, port |-> p] : p \in up}] :
               \A i, j \in DOMAIN s : i # j => s[i] # s[j]}}

\* release(): into the queue of the day, if there is one.
Released(P, w) == IF P.ready THEN [P EXCEPT !.free = Append(@, w)] ELSE P

\* The tasks after the Chromes of these ports have gone.
Cut(ports) ==
  [t \in Calls |-> IF solving[t].worker.port \in ports
                   THEN [solving[t] EXCEPT !.live = FALSE] ELSE solving[t]]

-----------------------------------------------------------------------------
(* The client. *)

Ask(t) ==
  /\ calling[t] = "idle"
  /\ calling' = [calling EXCEPT ![t] = "asking"]
  /\ UNCHANGED <<followed, given, solving, withdrawn, browsers, chrome, deaths>>

\* The answer to the request is there, or its time is up: the task runs all the same.
Told(t) ==
  /\ calling[t] = "asking"
  /\ \/ /\ given[t] # "absent"
        /\ calling' = [calling EXCEPT ![t] = "polling"]
        /\ followed' = followed \cup {t}
     \/ /\ calling' = [calling EXCEPT ![t] = "nothing"]
        /\ UNCHANGED followed
  /\ UNCHANGED <<given, solving, withdrawn, browsers, chrome, deaths>>

\* /result: only a token ends the polling before its time, a failure is not looked for;
\* a client whose time is up, or whose request to /cancel fails, leaves the task to the
\* solver.
Poll(t) ==
  /\ calling[t] = "polling"
  /\ calling' = [calling EXCEPT ![t] = IF given[t] = "token" THEN "token" ELSE "nothing"]
  /\ followed' = followed \ {t}
  /\ UNCHANGED <<given, solving, withdrawn, browsers, chrome, deaths>>

-----------------------------------------------------------------------------
(* The solver. *)

\* process_turnstile
Arrive(t) ==
  /\ calling[t] # "idle" /\ given[t] = "absent"
  /\ given' = [given EXCEPT ![t] = "pending"]
  /\ solving' = [solving EXCEPT ![t].pc = "queued"]
  /\ UNCHANGED <<calling, followed, withdrawn, browsers, chrome, deaths>>

\* cancel_task and cancel_all_tasks: whatever the task has come to, it has failed.
Withdraw(S) ==
  /\ S # {}
  /\ withdrawn' = withdrawn \cup S
  /\ given' = [t \in Calls |-> IF t \in S THEN "fail" ELSE given[t]]
  /\ UNCHANGED <<calling, followed, solving, browsers, chrome, deaths>>

\* The job was stopped: the client cancels its task on the solver.
Cancelled(t) ==
  /\ calling[t] = "polling"
  /\ calling' = [calling EXCEPT ![t] = "nothing"] /\ followed' = followed \ {t}
  /\ withdrawn' = withdrawn \cup {t} /\ given' = [given EXCEPT ![t] = "fail"]
  /\ UNCHANGED <<solving, browsers, chrome, deaths>>

\* Every await of a task is reached by its cancellation.
GoesOnAlways(t) == TRUE                        \* mutant: its result is taken all the same
GoesOn(t) == t \notin withdrawn

Active == Seats \cup {t \in Calls : solving[t].pc = "queued"}

\* The task ends with this result, and is forgotten.
Ended(t, tasks, r) ==
  /\ solving' = [tasks EXCEPT ![t] = [NoTask EXCEPT !.pc = "done"]]
  /\ given' = [given EXCEPT ![t] = r]
  /\ withdrawn' = withdrawn \ {t}

\* The worker of a task that ends while it has one.
GivenBackLess(t) == browsers                   \* mutant: an aborted task keeps it
GivenBack(t) ==
  IF t \in Holders THEN Released(browsers, solving[t].worker) ELSE browsers

\* CancelledError arrives at the await the task stands at.
Aborted(t) ==
  /\ t \in Active \cap withdrawn
  /\ Ended(t, solving, "fail")
  /\ browsers' = GivenBack(t)
  /\ UNCHANGED <<calling, followed, chrome, deaths>>

\* solve_turnstile_token up to its wait for a worker: the pool is as wanted ...
Waits(tasks, t, m, build) ==
  [tasks EXCEPT ![t] = [NoTask EXCEPT !.pc = "wait", !.mode = m, !.queue = build]]

\* ... or is rebuilt under those who use it, which may fail.
Rebuild(t, m) ==
  /\ ~Intact(m) /\ browsers.build < MaxBuilds
  /\ \E up \in SUBSET Ports :
       /\ browsers' \in BuiltPools(m, up)
       /\ chrome' = up
       /\ \/ /\ up = {}
             /\ Ended(t, Cut(Ports), "fail")
          \/ /\ up # {}
             /\ solving' = Waits(Cut(Ports), t, m, browsers.build + 1)
             /\ UNCHANGED <<given, withdrawn>>

\* A slot is free; without a live proxy there is no token.
Enter(t) ==
  /\ solving[t].pc = "queued" /\ GoesOn(t)
  /\ Cardinality(Seats) < Slots
  /\ \/ Ended(t, solving, "fail") /\ UNCHANGED <<browsers, chrome>>
     \/ /\ Intact(StartMode)
        /\ solving' = Waits(solving, t, StartMode, browsers.build)
        /\ UNCHANGED <<given, withdrawn, browsers, chrome>>
     \/ Rebuild(t, StartMode)
  /\ UNCHANGED <<calling, followed, deaths>>

\* A worker comes free in the queue the task waits at ...
MayAcquire(t) ==
  /\ solving[t].pc = "wait" /\ GoesOn(t)
  /\ solving[t].queue = browsers.build /\ browsers.free # <<>>

Taken    == Head(browsers.free)
Left     == [browsers EXCEPT !.free = Tail(@)]
OwnPool  == Taken.build = browsers.build
Works(t) == [solving EXCEPT ![t].pc = "solve", ![t].worker = Taken, ![t].live = TRUE]

\* ... and its Chrome runs, ...
AcquireRunning(t) ==
  /\ MayAcquire(t) /\ Taken.port \in chrome
  /\ solving' = Works(t)
  /\ browsers' = [Left EXCEPT !.lame = IF OwnPool THEN @ \ {Taken.port} ELSE @]
  /\ UNCHANGED <<calling, followed, given, withdrawn, chrome, deaths>>

\* ... or is started again (of which a worker of the pool hears only if it was taken), ...
AcquireStarted(t) ==
  /\ MayAcquire(t) /\ Taken.port \notin chrome
  /\ solving' = Works(t)
  /\ browsers' = [Left EXCEPT !.lame = IF OwnPool THEN @ \ {Taken.port}
                                      ELSE @ \cup {Taken.port}]
  /\ chrome' = chrome \cup {Taken.port}
  /\ UNCHANGED <<calling, followed, given, withdrawn, deaths>>

\* ... or cannot be, or the attempt raises and the worker is never given back.
AcquireFails(t) ==
  /\ MayAcquire(t) /\ Taken.port \notin chrome
  /\ Ended(t, solving, "fail")
  /\ \/ browsers' = Released(Left, Taken)
     \/ browsers' = IF OwnPool THEN [Left EXCEPT !.leaked = @ \cup {Taken.port}] ELSE Left
  /\ UNCHANGED <<calling, followed, chrome, deaths>>

\* "No free Chrome worker (timeout)"
Starve(t) ==
  /\ solving[t].pc = "wait" /\ GoesOn(t)
  /\ solving[t].queue # browsers.build \/ browsers.free = <<>>
  /\ Ended(t, solving, "fail")
  /\ UNCHANGED <<calling, followed, browsers, chrome, deaths>>

\* What the page may come to: one whose Chrome has gone gives no token.
Outcomes(t) == IF solving[t].live THEN {"token", "fail"} ELSE {"fail"}

Solve(t) ==
  /\ solving[t].pc = "solve" /\ GoesOn(t)
  /\ \E r \in Outcomes(t) : Ended(t, solving, r)
  /\ browsers' = Released(browsers, solving[t].worker)
  /\ UNCHANGED <<calling, followed, chrome, deaths>>

\* Headless does not get through: the task closes its page ...
Retreat(t) ==
  /\ solving[t].pc = "solve" /\ GoesOn(t)
  /\ solving[t].live /\ solving[t].mode = "headless"
  /\ solving' = [solving EXCEPT ![t].pc = "back"]
  /\ UNCHANGED <<calling, followed, given, withdrawn, browsers, chrome, deaths>>

\* ... gives its worker back, and starts over in an offscreen pool, for which a headless
\* one is taken down.
FallBack(t) ==
  /\ solving[t].pc = "back" /\ GoesOn(t)
  /\ \/ /\ Ended(t, solving, "fail")
        /\ browsers' = Released(browsers, solving[t].worker) /\ UNCHANGED chrome
     \/ /\ Intact("offscreen")
        /\ solving' = Waits(solving, t, "offscreen", browsers.build)
        /\ browsers' = Released(browsers, solving[t].worker)
        /\ UNCHANGED <<given, withdrawn, chrome>>
     \/ Rebuild(t, "offscreen")
  /\ UNCHANGED <<calling, followed, deaths>>

ChromeDies(p) ==
  /\ p \in chrome /\ deaths < MaxDeaths
  /\ deaths' = deaths + 1
  /\ chrome' = chrome \ {p}
  /\ solving' = Cut({p})
  /\ UNCHANGED <<calling, followed, given, withdrawn, browsers>>

NextSolver ==
  \/ \E t \in Calls : Ask(t) \/ Told(t) \/ Poll(t) \/ Cancelled(t)
  \/ \E t \in Calls : Arrive(t) \/ Aborted(t) \/ Enter(t) \/ Starve(t)
                      \/ AcquireRunning(t) \/ AcquireStarted(t) \/ AcquireFails(t)
                      \/ Solve(t) \/ Retreat(t) \/ FallBack(t)
  \/ Withdraw(Active)
  \/ \E p \in Ports : ChromeDies(p)

SolverSpec == InitSolver /\ [][NextSolver]_solverVars

-----------------------------------------------------------------------------
(* Properties *)

ChromeWorker == [build : 0 .. MaxBuilds, port : Ports \cup {"none"}]

SolverTypeOK ==
  /\ calling \in [Calls -> {"idle", "asking", "polling", "token", "nothing"}]
  /\ followed \subseteq Calls /\ withdrawn \subseteq Calls
  /\ given \in [Calls -> {"absent", "pending", "token", "fail"}]
  /\ solving \in [Calls -> [pc : {"none", "queued", "wait", "solve", "back", "done"},
                            queue : 0 .. MaxBuilds, worker : ChromeWorker,
                            mode : {"headless", "offscreen"}, live : BOOLEAN]]
  /\ browsers.build \in 0 .. MaxBuilds /\ browsers.lame \subseteq Ports
  /\ browsers.leaked \subseteq browsers.ports /\ browsers.free \in Seq(ChromeWorker)
  /\ chrome \subseteq Ports /\ deaths \in 0 .. MaxDeaths

\* A task that was cancelled or has failed does not turn up with a token later: the
\* slot it waits for, the worker it waits for and the page it is on all hand it the
\* cancellation first (api_solver.py 867-908, 1044-1094).
FailureIsFinal == [][\A t \in Calls : given[t] = "fail" => given'[t] = "fail"]_solverVars

\* Whatever ends a task, and however often the pool is rebuilt under it, each worker of
\* the pool of the day is in the queue once or with one task, unless starting its
\* Chrome raised (turnstile_engine.py 1798-1818, 2010-2012, 2065-2070).
WorkersAccounted ==
  browsers.ready =>
    \A p \in browsers.ports \ browsers.leaked :
      LET w == [build |-> browsers.build, port |-> p]
      IN Cardinality({i \in DOMAIN browsers.free : browsers.free[i] = w})
           + Cardinality({t \in Holders : solving[t].worker = w}) = 1

\* The pool "prevents concurrent tasks from sharing the same page/token state"
\* (turnstile_engine.py 100): a Chrome is used by one task at a time.
WorkerExclusive ==
  \A t, u \in Holders :
    t # u /\ solving[t].live /\ solving[u].live
      => solving[t].worker.port # solving[u].worker.port
=============================================================================
