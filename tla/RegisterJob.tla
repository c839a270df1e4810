---------------------------- MODULE RegisterJob ----------------------------
(***************************************************************************)
(* The registration jobs of the web console: JobRunner in                   *)
(* src/webui/jobs.py on its "grok" lane, with the two pools of threads a    *)
(* job runs, the registration and the mint workers of src/register_cli.py.  *)
(*                                                                          *)
(* A job's runner fills a task queue, starts the workers and waits.  A      *)
(* registration worker takes a number, registers an account, writes it to   *)
(* the ledger file and puts it on the mint queue, which is bounded by       *)
(* waiting; a mint worker takes it from there.  The runner ends the mint    *)
(* workers with one stop marker each.  All waits of a stopped job have a    *)
(* time limit, so its threads may outlive it.                               *)
(*                                                                          *)
(* What a registration or a mint does is outside: it succeeds or fails.     *)
(* Failures are counted by the code in several places and are not counted   *)
(* here.                                                                    *)
(***************************************************************************)
EXTENDS Naturals, Sequences, FiniteSets

CONSTANTS
  Jobs,         \* the jobs that may be started, each once
  NoJob,        \* no job
  NumWorkers,   \* registration workers of a job (threads)
  NumMinters,   \* mint workers of a job that does not mint inline (mint_workers)
  QMax,         \* mint_queue_max, 0 for no limit
  Options,      \* the options a start may ask for
  Stagger,      \* is thread_start_interval positive?
  MaxStops      \* bound: jobs that are asked to stop

ASSUME JobsAssumption    == IsFiniteSet(Jobs) /\ NoJob \notin Jobs
ASSUME WorkersAssumption ==
  NumWorkers \in Nat \ {0} /\ NumMinters \in Nat \ {0} /\ QMax \in Nat
ASSUME OptionsAssumption ==
  /\ Options # {}
  /\ Options \subseteq [extra : BOOLEAN, n : Nat \ {0}, inline : BOOLEAN]
  /\ Stagger \in BOOLEAN /\ MaxStops \in Nat

VARIABLES
  \* JobRunner
  active,       \* _active_ids["grok"]
  status,       \* Job.status, "none" before the job is started
  cancel,       \* Job.cancel_event
  options,      \* Job.options
  shown,        \* Job.stats
  \* _run_register: its program counter, and its locals
  pc,
  saved,        \* the functions of register_cli that it found, by their owner
  spawned,      \* registration workers started
  markers,      \* stop markers put
  \* register_cli
  hook,         \* the job whose log and wrappers are installed, or NoJob
  stats,        \* _stats, common to all jobs: accounts handed over, mints ended
  ledger,       \* the accounts file
  tasks, mintq, \* the queues of each job
  unfinished,   \* mint_queue.unfinished_tasks
  \* the workers of each job, and their locals
  wpc, idx, retry,
  mpc, mint,
  \* history variables, read by properties only
  minted,       \* accounts whose mint has ended
  lost,         \* accounts in the ledger whose registration failed after that
  late,         \* accounts written to the ledger after their job was stopped
  mixed,        \* jobs that began while threads of another one were alive
  overlapped    \* has a job started before the runner of another had ended?

runner  == <<active, status, cancel, options, shown, pc, saved, spawned, markers>>
cli     == <<hook, stats, ledger>>
queues  == <<tasks, mintq, unfinished>>
workers == <<wpc, idx, retry>>
minters == <<mpc, mint>>
ghosts  == <<minted, lost, late, mixed, overlapped>>
vars    == <<runner, cli, queues, workers, minters, ghosts>>

Workers == 1 .. NumWorkers
MintIds == 1 .. NumMinters
Stop    == <<NoJob, 0, 0>>                     \* _MINT_STOP
NoMint  == <<>>
NoStats == [registered |-> 0, minted |-> 0]
Over    == {"completed", "stopped", "failed"}

\* An account is named by its job, its number and the attempt that registered it.
Account(j, w) == <<j, idx[j][w], retry[j][w]>>
Of(j, S)      == {a \in S : a[1] = j}

(***************************************************************************)
(* Helpers.                                                                *)
(***************************************************************************)

LaneFree == active \in Jobs => status[active] \notin {"queued", "running"}

WorkersAlive(j) == \E w \in Workers : wpc[j][w] # "off"
ThreadsAlive(j) == WorkersAlive(j) \/ \E m \in MintIds : mpc[j][m] # "off"

\* How many accounts a job is to register: extra ones, or what the ledger lacks.
Remaining(j) == IF options[j].extra THEN options[j].n
                ELSE IF options[j].n > Cardinality(ledger)
                     THEN options[j].n - Cardinality(ledger) ELSE 0

\* The numbers it gives them.
Numbers(j) == [k \in 1 .. Remaining(j) |-> Cardinality(ledger) + k]

StatsReset == NoStats

\* A worker looks at the stop request before each attempt.
MayBeginAlways(j) == TRUE                      \* mutant: it does not
MayBegin(j) == ~cancel[j]

\* The test of the wait for a place on the mint queue.
Room(j) == QMax = 0 \/ Len(mintq[j]) < QMax

\* Queue.put, and Queue.task_done.
EnqueueUncounted(j, x) ==                      \* mutant: the item is not counted
  mintq' = [mintq EXCEPT ![j] = Append(@, x)] /\ UNCHANGED unfinished
Enqueue(j, x) == /\ mintq'      = [mintq EXCEPT ![j] = Append(@, x)]
                 /\ unfinished' = [unfinished EXCEPT ![j] = @ + 1]
TaskDoneNot(j) == UNCHANGED unfinished         \* mutant: not called
TaskDone(j) == unfinished' = [unfinished EXCEPT ![j] = @ - 1]

\* All that was put on the mint queue has been worked off.
DrainedQueue(j) == mintq[j] = <<>>             \* mutant: it has been taken
Drained(j) == unfinished[j] = 0

\* The stop markers still to be put, for the mint threads of the job.
MarkersOwedLess(j) == ~options[j].inline /\ markers[j] + 1 < NumMinters  \* mutant: one less
MarkersOwed(j) == ~options[j].inline /\ markers[j] < NumMinters

Goto(j, l) == pc' = [pc EXCEPT ![j] = l]

\* _finish, after which the runner still has its finally block to run.
FinishAtOnce(j, st) == Goto(j, "over") /\ status' = [status EXCEPT ![j] = st]  \* mutant: no finally
Finish(j, st) == Goto(j, "finally") /\ status' = [status EXCEPT ![j] = st]

(***************************************************************************)
(* The handlers start_register and stop_job.                               *)
(***************************************************************************)

Start(j) ==
  /\ status[j] = "none"
  /\ LaneFree
  /\ active'  = j
  /\ status'  = [status EXCEPT ![j] = "queued"]
  /\ \E o \in Options : options' = [options EXCEPT ![j] = o]
  /\ Goto(j, "start")
  /\ overlapped' = (overlapped \/ \E k \in Jobs : pc[k] = "finally")
  /\ UNCHANGED <<cancel, shown, saved, spawned, markers>>
  /\ UNCHANGED <<cli, queues, workers, minters, minted, lost, late, mixed>>

StopJob(j) ==
  /\ status[j] \in {"queued", "running"}
  /\ Cardinality({k \in Jobs : cancel[k]}) < MaxStops
  /\ cancel' = [cancel EXCEPT ![j] = TRUE]
  /\ UNCHANGED <<active, status, options, shown, pc, saved, spawned, markers>>
  /\ UNCHANGED <<cli, queues, workers, minters, ghosts>>

(***************************************************************************)
(* The runner, _run_register.                                              *)
(***************************************************************************)

\* It puts its own log and wrappers in place of what it finds.
Install(j) ==
  /\ pc[j] = "start"
  /\ Goto(j, "prepare")
  /\ status' = [status EXCEPT ![j] = "running"]
  /\ saved'  = [saved EXCEPT ![j] = hook]
  /\ hook'   = j
  /\ UNCHANGED <<active, cancel, options, shown, spawned, markers, stats, ledger>>
  /\ UNCHANGED <<queues, workers, minters, ghosts>>

\* The configuration or the proxy pool cannot be used, or the browser cannot be
\* started, which it tries after the reset of the statistics.
PrepareFails(j) ==
  /\ pc[j] = "prepare"
  /\ Finish(j, "failed")
  /\ stats' \in {stats, StatsReset}
  /\ UNCHANGED <<active, cancel, options, shown, saved, spawned, markers, hook, ledger>>
  /\ UNCHANGED <<queues, workers, minters, ghosts>>

NothingToDo(j) ==
  /\ pc[j] = "prepare"
  /\ \/ Remaining(j) = 0 /\ Finish(j, "completed")
     \/ Remaining(j) > 0 /\ cancel[j] /\ Finish(j, "stopped")
  /\ UNCHANGED <<active, cancel, options, shown, saved, spawned, markers>>
  /\ UNCHANGED <<cli, queues, workers, minters, ghosts>>

Prepare(j) ==
  /\ pc[j] = "prepare"
  /\ Remaining(j) > 0 /\ ~cancel[j]
  /\ Goto(j, "spawn")
  /\ stats' = StatsReset
  /\ tasks' = [tasks EXCEPT ![j] = Numbers(j)]
  /\ mpc'   = [mpc EXCEPT ![j] = [m \in MintIds |-> IF options[j].inline THEN "off" ELSE "get"]]
  /\ mixed' = IF \E k \in Jobs : ThreadsAlive(k) THEN mixed \cup {j} ELSE mixed
  /\ UNCHANGED <<active, status, cancel, options, shown, saved, spawned, markers>>
  /\ UNCHANGED <<hook, ledger, mintq, unfinished, workers, mint>>
  /\ UNCHANGED <<minted, lost, late, overlapped>>

\* The wait between two workers ends at once when the job is stopped.
Spawn(j) ==
  /\ pc[j] = "spawn"
  /\ spawned[j] < NumWorkers
  /\ spawned[j] > 0 /\ Stagger => ~cancel[j]
  /\ spawned' = [spawned EXCEPT ![j] = @ + 1]
  /\ wpc' = [wpc EXCEPT ![j][spawned[j] + 1] = "head"]
  /\ UNCHANGED <<active, status, cancel, options, shown, pc, saved, markers>>
  /\ UNCHANGED <<cli, queues, idx, retry, minters, ghosts>>

Spawned(j) ==
  /\ pc[j] = "spawn"
  /\ spawned[j] = NumWorkers
  /\ Goto(j, "poll")
  /\ UNCHANGED <<active, status, cancel, options, shown, saved, spawned, markers>>
  /\ UNCHANGED <<cli, queues, workers, minters, ghosts>>

\* A stop during that wait: sleep_with_cancel raises, and the job fails without
\* a marker for its mint workers.  Only a stop after its last look at the request
\* is seen by the test that follows the wait.
SpawnStopped(j) ==
  /\ pc[j] = "spawn"
  /\ spawned[j] \in 1 .. NumWorkers - 1
  /\ Stagger /\ cancel[j]
  /\ \/ Finish(j, "failed")
     \/ Goto(j, "poll") /\ UNCHANGED status
  /\ UNCHANGED <<active, cancel, options, shown, saved, spawned, markers>>
  /\ UNCHANGED <<cli, queues, workers, minters, ghosts>>

\* The loop that shows the progress ends when the workers are gone or the job is
\* stopped; a stopped job then waits five seconds for each.  What is shown meanwhile
\* is overwritten at the end.
Polled(j) ==
  /\ pc[j] = "poll"
  /\ ~WorkersAlive(j) \/ cancel[j]
  /\ Goto(j, "drain")
  /\ UNCHANGED <<active, status, cancel, options, shown, saved, spawned, markers>>
  /\ UNCHANGED <<cli, queues, workers, minters, ghosts>>

Drain(j) ==
  /\ pc[j] = "drain"
  /\ options[j].inline \/ cancel[j] \/ Drained(j)
  /\ Goto(j, "mark")
  /\ UNCHANGED <<active, status, cancel, options, shown, saved, spawned, markers>>
  /\ UNCHANGED <<cli, queues, workers, minters, ghosts>>

Mark(j) ==
  /\ pc[j] = "mark"
  /\ MarkersOwed(j)
  /\ markers' = [markers EXCEPT ![j] = @ + 1]
  /\ Enqueue(j, Stop)
  /\ UNCHANGED <<active, status, cancel, options, shown, pc, saved, spawned>>
  /\ UNCHANGED <<cli, tasks, workers, minters, ghosts>>

\* It waits thirty seconds for each mint worker, and reports.
Conclude(j) ==
  /\ pc[j] = "mark"
  /\ ~MarkersOwed(j)
  /\ shown' = [shown EXCEPT ![j] = stats]
  /\ Finish(j, IF cancel[j] THEN "stopped" ELSE "completed")
  /\ UNCHANGED <<active, cancel, options, saved, spawned, markers>>
  /\ UNCHANGED <<cli, queues, workers, minters, ghosts>>

\* The finally block puts back what the runner found when it started.
Restore(j) ==
  /\ pc[j] = "finally"
  /\ Goto(j, "over")
  /\ hook' = saved[j]
  /\ UNCHANGED <<active, status, cancel, options, shown, saved, spawned, markers>>
  /\ UNCHANGED <<stats, ledger, queues, workers, minters, ghosts>>

(***************************************************************************)
(* A registration worker, _register_worker and register_one.               *)
(***************************************************************************)

WGoto(j, w, l) == wpc' = [wpc EXCEPT ![j][w] = l]
\* Done with its number: the locals are dead.
Leave(j, w, l) == /\ WGoto(j, w, l)
                  /\ idx'   = [idx EXCEPT ![j][w] = 0]
                  /\ retry' = [retry EXCEPT ![j][w] = 0]

\* It takes the next number, or leaves: stopped, or nothing left.
Take(j, w) ==
  /\ wpc[j][w] = "head"
  /\ IF cancel[j] \/ tasks[j] = <<>>
     THEN WGoto(j, w, "off") /\ UNCHANGED <<idx, retry, tasks>>
     ELSE /\ WGoto(j, w, "loop")
          /\ idx'   = [idx EXCEPT ![j][w] = Head(tasks[j])]
          /\ UNCHANGED retry
          /\ tasks' = [tasks EXCEPT ![j] = Tail(@)]
  /\ UNCHANGED <<runner, cli, mintq, unfinished, minters, ghosts>>

Begin(j, w) ==
  /\ wpc[j][w] = "loop"
  /\ IF MayBegin(j) THEN WGoto(j, w, "attempt") /\ UNCHANGED <<idx, retry>>
                    ELSE Leave(j, w, "off")
  /\ UNCHANGED <<runner, cli, queues, minters, ghosts>>

\* A number is tried twice.
TryAgain(j, w) ==
  IF retry[j][w] = 0
  THEN /\ WGoto(j, w, "loop")
       /\ retry' = [retry EXCEPT ![j][w] = 1]
       /\ UNCHANGED idx
  ELSE Leave(j, w, "head")

Fail(j, w) ==
  /\ wpc[j][w] = "attempt"
  /\ TryAgain(j, w)
  /\ UNCHANGED <<runner, cli, queues, minters, ghosts>>

Record(j, w) ==
  /\ wpc[j][w] = "attempt"
  /\ WGoto(j, w, "have")
  /\ ledger' = ledger \cup {Account(j, w)}
  /\ late'   = IF cancel[j] THEN late \cup {Account(j, w)} ELSE late
  /\ UNCHANGED <<runner, hook, stats, queues, idx, retry, minters>>
  /\ UNCHANGED <<minted, lost, mixed, overlapped>>

\* Something raises after the ledger was written: the account counts as failed.
Lose(j, w) ==
  /\ wpc[j][w] = "have"
  /\ TryAgain(j, w)
  /\ lost' = lost \cup {Account(j, w)}
  /\ UNCHANGED <<runner, cli, queues, minters, minted, late, mixed, overlapped>>

MintInline(j, w) ==
  /\ wpc[j][w] = "have"
  /\ options[j].inline
  /\ WGoto(j, w, "count")
  /\ minted' = minted \cup {Account(j, w)}
  /\ stats'  = [stats EXCEPT !.minted = @ + 1]
  /\ UNCHANGED <<runner, hook, ledger, queues, idx, retry, minters>>
  /\ UNCHANGED <<lost, late, mixed, overlapped>>

\* The wait for room does not look at the stop request, and the room it finds may
\* be gone when it puts the account.
PassRoom(j, w) ==
  /\ wpc[j][w] = "have"
  /\ ~options[j].inline
  /\ Room(j)
  /\ WGoto(j, w, "put")
  /\ UNCHANGED <<runner, cli, queues, idx, retry, minters, ghosts>>

Put(j, w) ==
  /\ wpc[j][w] = "put"
  /\ WGoto(j, w, "count")
  /\ Enqueue(j, Account(j, w))
  /\ UNCHANGED <<runner, cli, tasks, idx, retry, minters, ghosts>>

\* The tests of the stop request on the way back are those of Take.
Count(j, w) ==
  /\ wpc[j][w] = "count"
  /\ Leave(j, w, "head")
  /\ stats' = [stats EXCEPT !.registered = @ + 1]
  /\ UNCHANGED <<runner, hook, ledger, queues, minters, ghosts>>

(***************************************************************************)
(* A mint worker, _mint_worker and _run_mint_job.                          *)
(***************************************************************************)

MGoto(j, m, l) == mpc' = [mpc EXCEPT ![j][m] = l]

TakeMint(j, m) ==
  /\ mpc[j][m] = "get"
  /\ mintq[j] # <<>> /\ Head(mintq[j]) # Stop
  /\ MGoto(j, m, "mint")
  /\ mint'  = [mint EXCEPT ![j][m] = Head(mintq[j])]
  /\ mintq' = [mintq EXCEPT ![j] = Tail(@)]
  /\ UNCHANGED <<runner, cli, tasks, unfinished, workers, ghosts>>

\* Success, failure and skip are counted apart, as one of which each mint ends.
Mint(j, m) ==
  /\ mpc[j][m] = "mint"
  /\ MGoto(j, m, "ack")
  /\ minted' = minted \cup {mint[j][m]}
  /\ stats'  = [stats EXCEPT !.minted = @ + 1]
  /\ UNCHANGED <<runner, hook, ledger, queues, workers, mint>>
  /\ UNCHANGED <<lost, late, mixed, overlapped>>

Ack(j, m) ==
  /\ mpc[j][m] = "ack"
  /\ MGoto(j, m, "get")
  /\ TaskDone(j)
  /\ mint' = [mint EXCEPT ![j][m] = NoMint]
  /\ UNCHANGED <<runner, cli, tasks, mintq, workers, ghosts>>

TakeStop(j, m) ==
  /\ mpc[j][m] = "get"
  /\ mintq[j] # <<>> /\ Head(mintq[j]) = Stop
  /\ MGoto(j, m, "off")
  /\ mintq' = [mintq EXCEPT ![j] = Tail(@)]
  /\ TaskDone(j)
  /\ UNCHANGED <<runner, cli, tasks, workers, mint, ghosts>>

(***************************************************************************)
(* Specification.                                                          *)
(***************************************************************************)

Init ==
  /\ active = NoJob
  /\ status  = [j \in Jobs |-> "none"]
  /\ cancel  = [j \in Jobs |-> FALSE]
  /\ options \in [Jobs -> {CHOOSE o \in Options : TRUE}]
  /\ shown   = [j \in Jobs |-> NoStats]
  /\ pc      = [j \in Jobs |-> "none"]
  /\ saved   = [j \in Jobs |-> NoJob]
  /\ spawned = [j \in Jobs |-> 0]
  /\ markers = [j \in Jobs |-> 0]
  /\ hook = NoJob
  /\ stats = NoStats
  /\ ledger = {}
  /\ tasks = [j \in Jobs |-> <<>>]
  /\ mintq = [j \in Jobs |-> <<>>]
  /\ unfinished = [j \in Jobs |-> 0]
  /\ wpc   = [j \in Jobs |-> [w \in Workers |-> "off"]]
  /\ idx   = [j \in Jobs |-> [w \in Workers |-> 0]]
  /\ retry = [j \in Jobs |-> [w \in Workers |-> 0]]
  /\ mpc   = [j \in Jobs |-> [m \in MintIds |-> "off"]]
  /\ mint  = [j \in Jobs |-> [m \in MintIds |-> NoMint]]
  /\ minted = {} /\ lost = {} /\ late = {} /\ mixed = {}
  /\ overlapped = FALSE

Runner(j) ==
  \/ Install(j) \/ PrepareFails(j) \/ NothingToDo(j) \/ Prepare(j)
  \/ Spawn(j) \/ Spawned(j) \/ SpawnStopped(j)
  \/ Polled(j) \/ Drain(j) \/ Mark(j) \/ Conclude(j) \/ Restore(j)
Worker(j, w) ==
  \/ Take(j, w) \/ Begin(j, w) \/ Fail(j, w) \/ Record(j, w) \/ Lose(j, w)
  \/ MintInline(j, w) \/ PassRoom(j, w) \/ Put(j, w) \/ Count(j, w)
Minter(j, m) == TakeMint(j, m) \/ Mint(j, m) \/ Ack(j, m) \/ TakeStop(j, m)

Next == \E j \in Jobs :
  \/ Start(j) \/ StopJob(j) \/ Runner(j)
  \/ \E w \in Workers : Worker(j, w)
  \/ \E m \in MintIds : Minter(j, m)

Spec == Init /\ [][Next]_vars

\* Every thread goes on.  Registration and mint have time limits throughout.
FairSpec ==
  /\ Spec
  /\ \A j \in Jobs :
       /\ WF_vars(Runner(j))
       /\ \A w \in Workers : WF_vars(Worker(j, w))
       /\ \A m \in MintIds : WF_vars(Minter(j, m))
(***************************************************************************)
(* Properties.                                                             *)
(***************************************************************************)

Accounts == Jobs \X Nat \X {0, 1}
Counts   == [registered : Nat, minted : Nat]

RunnerOK ==
  /\ active \in Jobs \cup {NoJob}
  /\ status \in [Jobs -> {"none", "queued", "running"} \cup Over]
  /\ cancel \in [Jobs -> BOOLEAN]
  /\ options \in [Jobs -> Options]
  /\ shown \in [Jobs -> Counts]
  /\ pc \in [Jobs -> {"none", "start", "prepare", "spawn", "poll", "drain", "mark",
                      "finally", "over"}]
  /\ saved \in [Jobs -> Jobs \cup {NoJob}]
  /\ spawned \in [Jobs -> 0 .. NumWorkers]
  /\ markers \in [Jobs -> 0 .. NumMinters]
CliOK ==
  /\ hook \in Jobs \cup {NoJob}
  /\ stats \in Counts
  /\ ledger \subseteq Accounts
QueuesOK ==
  /\ tasks \in [Jobs -> Seq(Nat)]
  /\ mintq \in [Jobs -> Seq(Accounts \cup {Stop})]
  /\ unfinished \in [Jobs -> Nat]
WorkersOK ==
  /\ wpc \in [Jobs -> [Workers ->
       {"off", "head", "loop", "attempt", "have", "put", "count"}]]
  /\ idx \in [Jobs -> [Workers -> Nat]]
  /\ retry \in [Jobs -> [Workers -> {0, 1}]]
MintersOK ==
  /\ mpc \in [Jobs -> [MintIds -> {"off", "get", "mint", "ack"}]]
  /\ mint \in [Jobs -> [MintIds -> Accounts \cup {NoMint}]]
GhostsOK ==
  /\ minted \subseteq Accounts /\ lost \subseteq Accounts /\ late \subseteq Accounts
  /\ mixed \subseteq Jobs
  /\ overlapped \in BOOLEAN
\* The type invariant: in particular each mint queue's count of unfinished items
\* never goes below zero, where Queue.task_done would raise.
TypeOK == RunnerOK /\ CliOK /\ QueuesOK /\ WorkersOK /\ MintersOK /\ GhostsOK

\* The places of a mint queue that hold an account.
Held(q) == {n \in DOMAIN q : q[n] # Stop}

\* The bound on the mint queue is a test and a later put: as many accounts as there
\* are workers may pass the test before the first is put.  More there cannot be.
BackpressureBound ==
  QMax > 0 => \A j \in Jobs : Cardinality(Held(mintq[j])) <= QMax + NumWorkers - 1

\* A job is "completed" only when all its numbers were taken, its workers are gone,
\* and each account it wrote to the ledger was minted or counted as a failure:
\* none is left on the queue or in the hands of a mint worker.
CompletedMeansDone ==
  \A j \in Jobs : status[j] = "completed" =>
    /\ tasks[j] = <<>> /\ ~WorkersAlive(j)
    /\ Of(j, ledger) \subseteq minted \cup lost

\* The statistics a completed job shows are its own and final, although all jobs
\* count in the same register_cli._stats, if no thread of an earlier job was alive
\* when it began.
CompletedStats ==
  \A j \in Jobs : status[j] = "completed" /\ spawned[j] > 0 /\ j \notin mixed =>
    /\ shown[j].registered = Cardinality(Of(j, ledger \ lost))
    /\ shown[j].minted = Cardinality(Of(j, minted))

\* After a stop a worker finishes the attempt it is in and begins no other, a retry
\* neither: at most one more account each is registered.
StopBounded == \A j \in Jobs : Cardinality(Of(j, late)) <= NumWorkers

\* A job works with its own log and wrappers in place, and when no runner is at
\* work register_cli has its own functions again; unless a job was started in the
\* moment between _finish and the finally block of the one before.
WrappersInPlace ==
  overlapped \/
    /\ \A j \in Jobs : pc[j] \notin {"none", "start", "over"} => hook = j
    /\ (\A j \in Jobs : pc[j] \in {"none", "start", "over"}) => hook = NoJob

\* Whether stopped or not, every job ends, and with it the lane is free again.
JobEnds == \A j \in Jobs : status[j] = "queued" ~> status[j] \in Over

\* The mint workers of a job that was completed or stopped end, also when they
\* outlive it.  (Those of a job that failed during the start of its workers do not.)
MintersEnd ==
  \A j \in Jobs : status[j] \in {"completed", "stopped"} ~> \A m \in MintIds : mpc[j][m] = "off"

\* "The lane runs serially" (jobs.py:257): no registration worker of one job is at
\* work while another job of the lane runs.
LaneSerial ==
  \A j, k \in Jobs : j # k /\ status[j] = "running" => ~WorkersAlive(k)
=============================================================================
