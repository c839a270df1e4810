------------------------- MODULE RegisterJobProofs -------------------------
(***************************************************************************)
(* Proofs about RegisterJob, for any number of jobs, registration and mint *)
(* workers, and any bound on the mint queue: its types and the count of     *)
(* unfinished items; the bound on the queue; the wrappers of register_cli;  *)
(* what a stopped job may still register; that a completed job is done      *)
(* with each of its accounts; and that the statistics it shows count each   *)
(* of them once.                                                            *)
(***************************************************************************)
EXTENDS RegisterJob, FiniteSetTheorems, SequenceTheorems, TLAPS

-----------------------------------------------------------------------------
\* The inductive invariant.

\* The mint workers that have taken an account and not yet called task_done.
Minting(j) == {m \in MintIds : mpc[j][m] \in {"mint", "ack"}}

\* The registration workers that have seen room and not yet put their account.
Placing(j) == {w \in Workers : wpc[j][w] = "put"}

\* A mint worker that mints has an account.
Carrying == \A j \in Jobs : \A m \in MintIds : mpc[j][m] = "mint" => mint[j][m] \in Accounts

\* No mint worker is started before the runner has prepared its job.
Early == {"none", "start", "prepare"}
Fresh == \A j \in Jobs :
  /\ status[j] = "none" => pc[j] = "none"
  /\ pc[j] \in Early => \A m \in MintIds : mpc[j][m] = "off"

\* The unfinished items of a mint queue are those on it and those in hand.
QueueCounted == \A j \in Jobs : unfinished[j] = Len(mintq[j]) + Cardinality(Minting(j))

\* Whoever has seen room counts as if the account were on the queue.
Bounded == QMax > 0 => \A j \in Jobs :
  Cardinality(Held(mintq[j])) + Cardinality(Placing(j)) <= QMax + NumWorkers - 1

JobInv == /\ TypeOK /\ IsFiniteSet(ledger)
          /\ Carrying /\ Fresh /\ QueueCounted /\ Bounded

-----------------------------------------------------------------------------
\* Sequences and sets.

Items == Accounts \cup {Stop}

LEMMA HeldCount ==
  ASSUME NEW q \in Seq(Items)
  PROVE  /\ IsFiniteSet(Held(q))
         /\ Cardinality(Held(q)) \in Nat
         /\ Cardinality(Held(q)) <= Len(q)
<1>1. Len(q) \in Nat /\ DOMAIN q = 1 .. Len(q)
  BY LenProperties
<1>2. IsFiniteSet(1 .. Len(q)) /\ Cardinality(1 .. Len(q)) = Len(q)
  BY <1>1, FS_Interval
<1>3. Held(q) \in SUBSET (1 .. Len(q))
  BY <1>1 DEF Held
<1>4. QED
  BY <1>2, <1>3, FS_Subset, FS_CardinalityType

LEMMA HeldAppend ==
  ASSUME NEW q \in Seq(Items), NEW x \in Items
  PROVE  /\ Cardinality(Held(Append(q, x))) <= Cardinality(Held(q)) + 1
         /\ x = Stop => Cardinality(Held(Append(q, x))) = Cardinality(Held(q))
<1>1. /\ Append(q, x) \in Seq(Items)
      /\ DOMAIN Append(q, x) = 1 .. Len(q) + 1
      /\ DOMAIN q = 1 .. Len(q)
      /\ Len(q) \in Nat
      /\ \A n \in 1 .. Len(q) : Append(q, x)[n] = q[n]
      /\ Append(q, x)[Len(q) + 1] = x
  OBVIOUS
<1>2. CASE x = Stop
  <2>1. Held(Append(q, x)) = Held(q)
    BY <1>1, <1>2 DEF Held
  <2>2. QED
    BY <2>1, <1>2, HeldCount
<1>3. CASE x # Stop
  <2>1. Held(Append(q, x)) = Held(q) \cup {Len(q) + 1}
    BY <1>1, <1>3 DEF Held
  <2>2. IsFiniteSet(Held(q)) /\ Cardinality(Held(q)) \in Nat
    BY HeldCount
  <2>3. Len(q) + 1 \notin Held(q)
    BY <1>1 DEF Held
  <2>4. Cardinality(Held(q) \cup {Len(q) + 1}) = Cardinality(Held(q)) + 1
    BY <2>2, <2>3, FS_AddElement, Zenon
  <2>5. QED
    BY <2>1, <2>2, <2>4, <1>3
<1>4. QED
  BY <1>2, <1>3

LEMMA HeldTail ==
  ASSUME NEW q \in Seq(Items), q # <<>>
  PROVE  Cardinality(Held(Tail(q))) <= Cardinality(Held(q))
<1> DEFINE f == [n \in Held(Tail(q)) |-> n + 1]
<1>1. /\ Tail(q) \in Seq(Items)
      /\ Len(q) \in Nat \ {0}
      /\ Len(Tail(q)) = Len(q) - 1
      /\ \A n \in 1 .. Len(Tail(q)) : Tail(q)[n] = q[n + 1]
  BY HeadTailProperties, EmptySeq
<1>2. DOMAIN Tail(q) = 1 .. Len(q) - 1 /\ DOMAIN q = 1 .. Len(q)
  BY <1>1, LenProperties
<1>3. Held(Tail(q)) \subseteq Nat
  BY <1>1, <1>2 DEF Held
<1>4. \A n \in Held(Tail(q)) : n + 1 \in Held(q)
  BY <1>1, <1>2 DEF Held
<1>5. f \in Injection(Held(Tail(q)), Held(q))
  BY <1>3, <1>4 DEF Injection, IsInjective
<1>6. QED
  BY <1>5, HeldCount, FS_Injection

LEMMA WorkerSets ==
  \A S \in SUBSET Workers : IsFiniteSet(S) /\ Cardinality(S) \in 0 .. NumWorkers
<1>1. IsFiniteSet(Workers) /\ Cardinality(Workers) = NumWorkers
  BY WorkersAssumption, FS_Interval DEF Workers
<1>2. TAKE S \in SUBSET Workers
<1>3. QED
  BY <1>1, FS_Subset, FS_CardinalityType, WorkersAssumption

LEMMA MinterSets ==
  \A S \in SUBSET MintIds : IsFiniteSet(S) /\ Cardinality(S) \in Nat
<1>1. IsFiniteSet(MintIds)
  BY WorkersAssumption, FS_Interval DEF MintIds
<1>2. TAKE S \in SUBSET MintIds
<1>3. QED
  BY <1>1, FS_Subset, FS_CardinalityType
-----------------------------------------------------------------------------
\* Every action keeps the types.

LEMMA AccountType ==
  ASSUME JobInv, NEW j \in Jobs, NEW w \in Workers
  PROVE  Account(j, w) \in Accounts
  BY DEF JobInv, TypeOK, WorkersOK, Account, Accounts

LEMMA NumbersType ==
  ASSUME JobInv, NEW j \in Jobs
  PROVE  Numbers(j) \in Seq(Nat)
<1>1. Cardinality(ledger) \in Nat
  BY FS_CardinalityType DEF JobInv
<1>2. options[j].n \in Nat
  BY OptionsAssumption DEF JobInv, TypeOK, RunnerOK
<1>3. Remaining(j) \in Nat
  BY <1>1, <1>2 DEF Remaining
<1>4. QED
  BY <1>1, <1>3 DEF Numbers

LEMMA LeaveType ==
  ASSUME JobInv, NEW j \in Jobs, NEW w \in Workers, NEW l \in {"off", "head"}, Leave(j, w, l)
  PROVE  WorkersOK'
<1>1. wpc' \in [Jobs -> [Workers ->
        {"off", "head", "loop", "attempt", "have", "put", "count"}]]
  BY DEF JobInv, TypeOK, WorkersOK, Leave, WGoto
<1>2. idx' \in [Jobs -> [Workers -> Nat]]
  BY DEF JobInv, TypeOK, WorkersOK, Leave
<1>3. retry' \in [Jobs -> [Workers -> {0, 1}]]
  BY DEF JobInv, TypeOK, WorkersOK, Leave
<1>4. QED
  BY <1>1, <1>2, <1>3 DEF WorkersOK

LEMMA TryAgainType ==
  ASSUME JobInv, NEW j \in Jobs, NEW w \in Workers, TryAgain(j, w)
  PROVE  WorkersOK'
<1>1. CASE retry[j][w] = 0
  <2>1. WGoto(j, w, "loop") /\ retry' = [retry EXCEPT ![j][w] = 1] /\ idx' = idx
    BY <1>1, Zenon DEF TryAgain
  <2>2. wpc' \in [Jobs -> [Workers ->
          {"off", "head", "loop", "attempt", "have", "put", "count"}]]
    BY <2>1 DEF JobInv, TypeOK, WorkersOK, WGoto
  <2>3. retry' \in [Jobs -> [Workers -> {0, 1}]]
    BY <2>1 DEF JobInv, TypeOK, WorkersOK
  <2>4. QED
    BY <2>1, <2>2, <2>3 DEF JobInv, TypeOK, WorkersOK
<1>2. CASE retry[j][w] # 0
  BY <1>2, LeaveType DEF TryAgain
<1>3. QED
  BY <1>1, <1>2

LEMMA EnqueueType ==
  ASSUME JobInv, NEW j \in Jobs, NEW x \in Items, Enqueue(j, x), tasks' = tasks
  PROVE  QueuesOK'
<1>1. Append(mintq[j], x) \in Seq(Items)
  BY DEF JobInv, TypeOK, QueuesOK, Items
<1>2. QED
  BY <1>1 DEF JobInv, TypeOK, QueuesOK, Enqueue, Items

\* A mint queue that counts a busy worker counts at least one item.
LEMMA CountedBusy ==
  ASSUME JobInv, NEW j \in Jobs, NEW m \in Minting(j)
  PROVE  unfinished[j] > 0
<1>1. Minting(j) \in SUBSET MintIds
  BY DEF Minting
<1>2. Cardinality(Minting(j)) # 0
  BY <1>1, MinterSets, FS_EmptySet
<1>3. Len(mintq[j]) \in Nat
  BY LenProperties DEF JobInv, TypeOK, QueuesOK, Items
<1>4. QED
  BY <1>1, <1>2, <1>3, MinterSets DEF JobInv, QueueCounted

LEMMA CountedQueue ==
  ASSUME JobInv, NEW j \in Jobs, mintq[j] # <<>>
  PROVE  unfinished[j] > 0
<1>1. Minting(j) \in SUBSET MintIds
  BY DEF Minting
<1>2. Len(mintq[j]) \in Nat \ {0}
  BY EmptySeq DEF JobInv, TypeOK, QueuesOK, Items
<1>3. QED
  BY <1>1, <1>2, MinterSets DEF JobInv, QueueCounted

LEMMA StartType ==
  ASSUME JobInv, NEW j \in Jobs, Start(j)
  PROVE  TypeOK'
<1>1. RunnerOK'
  BY DEF JobInv, TypeOK, RunnerOK, Start, Goto, Over
<1>2. CliOK'
  BY DEF JobInv, TypeOK, CliOK, Start, cli
<1>3. QueuesOK'
  BY DEF JobInv, TypeOK, QueuesOK, Start, queues
<1>4. WorkersOK'
  BY DEF JobInv, TypeOK, WorkersOK, Start, workers
<1>5. MintersOK'
  BY DEF JobInv, TypeOK, MintersOK, Start, minters
<1>6. GhostsOK'
  BY DEF JobInv, TypeOK, GhostsOK, Start
<1>7. QED
  BY <1>1, <1>2, <1>3, <1>4, <1>5, <1>6 DEF TypeOK

LEMMA StopJobType ==
  ASSUME JobInv, NEW j \in Jobs, StopJob(j)
  PROVE  TypeOK'
<1>1. RunnerOK'
  BY DEF JobInv, TypeOK, RunnerOK, StopJob, Goto, Over
<1>2. CliOK'
  BY DEF JobInv, TypeOK, CliOK, StopJob, cli
<1>3. QueuesOK'
  BY DEF JobInv, TypeOK, QueuesOK, StopJob, queues
<1>4. WorkersOK'
  BY DEF JobInv, TypeOK, WorkersOK, StopJob, workers
<1>5. MintersOK'
  BY DEF JobInv, TypeOK, MintersOK, StopJob, minters
<1>6. GhostsOK'
  BY DEF JobInv, TypeOK, GhostsOK, StopJob, ghosts
<1>7. QED
  BY <1>1, <1>2, <1>3, <1>4, <1>5, <1>6 DEF TypeOK

LEMMA InstallType ==
  ASSUME JobInv, NEW j \in Jobs, Install(j)
  PROVE  TypeOK'
<1>1. RunnerOK'
  BY DEF JobInv, TypeOK, RunnerOK, CliOK, Install, Goto, Over
<1>2. CliOK'
  BY DEF JobInv, TypeOK, CliOK, Install
<1>3. QueuesOK'
  BY DEF JobInv, TypeOK, QueuesOK, Install, queues
<1>4. WorkersOK'
  BY DEF JobInv, TypeOK, WorkersOK, Install, workers
<1>5. MintersOK'
  BY DEF JobInv, TypeOK, MintersOK, Install, minters
<1>6. GhostsOK'
  BY DEF JobInv, TypeOK, GhostsOK, Install, ghosts
<1>7. QED
  BY <1>1, <1>2, <1>3, <1>4, <1>5, <1>6 DEF TypeOK

LEMMA PrepareFailsType ==
  ASSUME JobInv, NEW j \in Jobs, PrepareFails(j)
  PROVE  TypeOK'
<1>1. RunnerOK'
  BY DEF JobInv, TypeOK, RunnerOK, PrepareFails, Finish, Goto, Over
<1>2. CliOK'
  BY DEF JobInv, TypeOK, CliOK, PrepareFails, StatsReset, NoStats, Counts
<1>3. QueuesOK'
  BY DEF JobInv, TypeOK, QueuesOK, PrepareFails, queues
<1>4. WorkersOK'
  BY DEF JobInv, TypeOK, WorkersOK, PrepareFails, workers
<1>5. MintersOK'
  BY DEF JobInv, TypeOK, MintersOK, PrepareFails, minters
<1>6. GhostsOK'
  BY DEF JobInv, TypeOK, GhostsOK, PrepareFails, ghosts
<1>7. QED
  BY <1>1, <1>2, <1>3, <1>4, <1>5, <1>6 DEF TypeOK

LEMMA NothingToDoType ==
  ASSUME JobInv, NEW j \in Jobs, NothingToDo(j)
  PROVE  TypeOK'
<1>1. RunnerOK'
  BY DEF JobInv, TypeOK, RunnerOK, NothingToDo, Finish, Goto, Over
<1>2. CliOK'
  BY DEF JobInv, TypeOK, CliOK, NothingToDo, cli
<1>3. QueuesOK'
  BY DEF JobInv, TypeOK, QueuesOK, NothingToDo, queues
<1>4. WorkersOK'
  BY DEF JobInv, TypeOK, WorkersOK, NothingToDo, workers
<1>5. MintersOK'
  BY DEF JobInv, TypeOK, MintersOK, NothingToDo, minters
<1>6. GhostsOK'
  BY DEF JobInv, TypeOK, GhostsOK, NothingToDo, ghosts
<1>7. QED
  BY <1>1, <1>2, <1>3, <1>4, <1>5, <1>6 DEF TypeOK

LEMMA PrepareType ==
  ASSUME JobInv, NEW j \in Jobs, Prepare(j)
  PROVE  TypeOK'
<1>1. RunnerOK'
  BY DEF JobInv, TypeOK, RunnerOK, Prepare, Goto, Over
<1>2. CliOK'
  BY DEF JobInv, TypeOK, CliOK, Prepare, StatsReset, NoStats, Counts
<1>3. QueuesOK'
  BY NumbersType DEF JobInv, TypeOK, QueuesOK, Prepare
<1>4. WorkersOK'
  BY DEF JobInv, TypeOK, WorkersOK, Prepare, workers
<1>5. MintersOK'
  BY DEF JobInv, TypeOK, MintersOK, Prepare
<1>6. GhostsOK'
  BY DEF JobInv, TypeOK, GhostsOK, Prepare
<1>7. QED
  BY <1>1, <1>2, <1>3, <1>4, <1>5, <1>6 DEF TypeOK

LEMMA SpawnType ==
  ASSUME JobInv, NEW j \in Jobs, Spawn(j)
  PROVE  TypeOK'
<1>1. RunnerOK'
  BY WorkersAssumption DEF JobInv, TypeOK, RunnerOK, Spawn, Goto, Over
<1>2. CliOK'
  BY DEF JobInv, TypeOK, CliOK, Spawn, cli
<1>3. QueuesOK'
  BY DEF JobInv, TypeOK, QueuesOK, Spawn, queues
<1>4. WorkersOK'
  BY DEF JobInv, TypeOK, WorkersOK, Spawn, Workers
<1>5. MintersOK'
  BY DEF JobInv, TypeOK, MintersOK, Spawn, minters
<1>6. GhostsOK'
  BY DEF JobInv, TypeOK, GhostsOK, Spawn, ghosts
<1>7. QED
  BY <1>1, <1>2, <1>3, <1>4, <1>5, <1>6 DEF TypeOK

LEMMA SpawnedType ==
  ASSUME JobInv, NEW j \in Jobs, Spawned(j)
  PROVE  TypeOK'
<1>1. RunnerOK'
  BY DEF JobInv, TypeOK, RunnerOK, Spawned, Goto, Over
<1>2. CliOK'
  BY DEF JobInv, TypeOK, CliOK, Spawned, cli
<1>3. QueuesOK'
  BY DEF JobInv, TypeOK, QueuesOK, Spawned, queues
<1>4. WorkersOK'
  BY DEF JobInv, TypeOK, WorkersOK, Spawned, workers
<1>5. MintersOK'
  BY DEF JobInv, TypeOK, MintersOK, Spawned, minters
<1>6. GhostsOK'
  BY DEF JobInv, TypeOK, GhostsOK, Spawned, ghosts
<1>7. QED
  BY <1>1, <1>2, <1>3, <1>4, <1>5, <1>6 DEF TypeOK

LEMMA SpawnStoppedType ==
  ASSUME JobInv, NEW j \in Jobs, SpawnStopped(j)
  PROVE  TypeOK'
<1>1. RunnerOK'
  BY DEF JobInv, TypeOK, RunnerOK, SpawnStopped, Finish, Goto, Over
<1>2. CliOK'
  BY DEF JobInv, TypeOK, CliOK, SpawnStopped, cli
<1>3. QueuesOK'
  BY DEF JobInv, TypeOK, QueuesOK, SpawnStopped, queues
<1>4. WorkersOK'
  BY DEF JobInv, TypeOK, WorkersOK, SpawnStopped, workers
<1>5. MintersOK'
  BY DEF JobInv, TypeOK, MintersOK, SpawnStopped, minters
<1>6. GhostsOK'
  BY DEF JobInv, TypeOK, GhostsOK, SpawnStopped, ghosts
<1>7. QED
  BY <1>1, <1>2, <1>3, <1>4, <1>5, <1>6 DEF TypeOK

LEMMA PolledType ==
  ASSUME JobInv, NEW j \in Jobs, Polled(j)
  PROVE  TypeOK'
<1>1. RunnerOK'
  BY DEF JobInv, TypeOK, RunnerOK, Polled, Goto, Over
<1>2. CliOK'
  BY DEF JobInv, TypeOK, CliOK, Polled, cli
<1>3. QueuesOK'
  BY DEF JobInv, TypeOK, QueuesOK, Polled, queues
<1>4. WorkersOK'
  BY DEF JobInv, TypeOK, WorkersOK, Polled, workers
<1>5. MintersOK'
  BY DEF JobInv, TypeOK, MintersOK, Polled, minters
<1>6. GhostsOK'
  BY DEF JobInv, TypeOK, GhostsOK, Polled, ghosts
<1>7. QED
  BY <1>1, <1>2, <1>3, <1>4, <1>5, <1>6 DEF TypeOK

LEMMA DrainType ==
  ASSUME JobInv, NEW j \in Jobs, Drain(j)
  PROVE  TypeOK'
<1>1. RunnerOK'
  BY DEF JobInv, TypeOK, RunnerOK, Drain, Goto, Over
<1>2. CliOK'
  BY DEF JobInv, TypeOK, CliOK, Drain, cli
<1>3. QueuesOK'
  BY DEF JobInv, TypeOK, QueuesOK, Drain, queues
<1>4. WorkersOK'
  BY DEF JobInv, TypeOK, WorkersOK, Drain, workers
<1>5. MintersOK'
  BY DEF JobInv, TypeOK, MintersOK, Drain, minters
<1>6. GhostsOK'
  BY DEF JobInv, TypeOK, GhostsOK, Drain, ghosts
<1>7. QED
  BY <1>1, <1>2, <1>3, <1>4, <1>5, <1>6 DEF TypeOK

LEMMA MarkType ==
  ASSUME JobInv, NEW j \in Jobs, Mark(j)
  PROVE  TypeOK'
<1>1. RunnerOK'
  BY WorkersAssumption DEF JobInv, TypeOK, RunnerOK, Mark, MarkersOwed, Goto, Over
<1>2. CliOK'
  BY DEF JobInv, TypeOK, CliOK, Mark, cli
<1>3. QueuesOK'
  BY EnqueueType DEF Mark, Items
<1>4. WorkersOK'
  BY DEF JobInv, TypeOK, WorkersOK, Mark, workers
<1>5. MintersOK'
  BY DEF JobInv, TypeOK, MintersOK, Mark, minters
<1>6. GhostsOK'
  BY DEF JobInv, TypeOK, GhostsOK, Mark, ghosts
<1>7. QED
  BY <1>1, <1>2, <1>3, <1>4, <1>5, <1>6 DEF TypeOK

LEMMA ConcludeType ==
  ASSUME JobInv, NEW j \in Jobs, Conclude(j)
  PROVE  TypeOK'
<1>1. RunnerOK'
  BY DEF JobInv, TypeOK, RunnerOK, CliOK, Conclude, Finish, Goto, Over
<1>2. CliOK'
  BY DEF JobInv, TypeOK, CliOK, Conclude, cli
<1>3. QueuesOK'
  BY DEF JobInv, TypeOK, QueuesOK, Conclude, queues
<1>4. WorkersOK'
  BY DEF JobInv, TypeOK, WorkersOK, Conclude, workers
<1>5. MintersOK'
  BY DEF JobInv, TypeOK, MintersOK, Conclude, minters
<1>6. GhostsOK'
  BY DEF JobInv, TypeOK, GhostsOK, Conclude, ghosts
<1>7. QED
  BY <1>1, <1>2, <1>3, <1>4, <1>5, <1>6 DEF TypeOK

LEMMA RestoreType ==
  ASSUME JobInv, NEW j \in Jobs, Restore(j)
  PROVE  TypeOK'
<1>1. RunnerOK'
  BY DEF JobInv, TypeOK, RunnerOK, Restore, Goto, Over
<1>2. CliOK'
  BY DEF JobInv, TypeOK, CliOK, RunnerOK, Restore
<1>3. QueuesOK'
  BY DEF JobInv, TypeOK, QueuesOK, Restore, queues
<1>4. WorkersOK'
  BY DEF JobInv, TypeOK, WorkersOK, Restore, workers
<1>5. MintersOK'
  BY DEF JobInv, TypeOK, MintersOK, Restore, minters
<1>6. GhostsOK'
  BY DEF JobInv, TypeOK, GhostsOK, Restore, ghosts
<1>7. QED
  BY <1>1, <1>2, <1>3, <1>4, <1>5, <1>6 DEF TypeOK

LEMMA TakeType ==
  ASSUME JobInv, NEW j \in Jobs, NEW w \in Workers, Take(j, w)
  PROVE  TypeOK'
<1>1. RunnerOK'
  BY DEF JobInv, TypeOK, RunnerOK, Take, runner
<1>2. CliOK'
  BY DEF JobInv, TypeOK, CliOK, Take, cli
<1>3. QueuesOK' /\ WorkersOK'
  <2>1. CASE cancel[j] \/ tasks[j] = <<>>
    <3>1. WGoto(j, w, "off") /\ idx' = idx /\ retry' = retry /\ queues' = queues
      BY <2>1 DEF Take, queues
    <3>2. QED
      BY <3>1 DEF JobInv, TypeOK, WorkersOK, QueuesOK, WGoto, queues
  <2>2. CASE ~(cancel[j] \/ tasks[j] = <<>>)
    <3>1. Head(tasks[j]) \in Nat /\ Tail(tasks[j]) \in Seq(Nat)
      BY <2>2, HeadTailProperties DEF JobInv, TypeOK, QueuesOK
    <3>2. /\ WGoto(j, w, "loop") /\ retry' = retry
          /\ idx' = [idx EXCEPT ![j][w] = Head(tasks[j])]
          /\ tasks' = [tasks EXCEPT ![j] = Tail(@)]
          /\ mintq' = mintq /\ unfinished' = unfinished
      BY <2>2 DEF Take
    <3>3. QueuesOK'
      BY <3>1, <3>2 DEF JobInv, TypeOK, QueuesOK
    <3>4. WorkersOK'
      BY <3>1, <3>2 DEF JobInv, TypeOK, WorkersOK, WGoto
    <3>5. QED
      BY <3>3, <3>4
  <2>3. QED
    BY <2>1, <2>2
<1>4. MintersOK'
  BY DEF JobInv, TypeOK, MintersOK, Take, minters
<1>5. GhostsOK'
  BY DEF JobInv, TypeOK, GhostsOK, Take, ghosts
<1>6. QED
  BY <1>1, <1>2, <1>3, <1>4, <1>5 DEF TypeOK

LEMMA BeginType ==
  ASSUME JobInv, NEW j \in Jobs, NEW w \in Workers, Begin(j, w)
  PROVE  TypeOK'
<1>1. RunnerOK'
  BY DEF JobInv, TypeOK, RunnerOK, Begin, runner
<1>2. CliOK'
  BY DEF JobInv, TypeOK, CliOK, Begin, cli
<1>3. QueuesOK'
  BY DEF JobInv, TypeOK, QueuesOK, Begin, queues
<1>4. WorkersOK'
  <2>1. CASE MayBegin(j)
    <3>1. WGoto(j, w, "attempt") /\ idx' = idx /\ retry' = retry
      BY <2>1 DEF Begin
    <3>2. QED
      BY <3>1 DEF JobInv, TypeOK, WorkersOK, WGoto
  <2>2. CASE ~MayBegin(j)
    BY <2>2, LeaveType DEF Begin
  <2>3. QED
    BY <2>1, <2>2
<1>5. MintersOK'
  BY DEF JobInv, TypeOK, MintersOK, Begin, minters
<1>6. GhostsOK'
  BY DEF JobInv, TypeOK, GhostsOK, Begin, ghosts
<1>7. QED
  BY <1>1, <1>2, <1>3, <1>4, <1>5, <1>6 DEF TypeOK

LEMMA FailType ==
  ASSUME JobInv, NEW j \in Jobs, NEW w \in Workers, Fail(j, w)
  PROVE  TypeOK'
<1>1. RunnerOK'
  BY DEF JobInv, TypeOK, RunnerOK, Fail, runner
<1>2. CliOK'
  BY DEF JobInv, TypeOK, CliOK, Fail, cli
<1>3. QueuesOK'
  BY DEF JobInv, TypeOK, QueuesOK, Fail, queues
<1>4. WorkersOK'
  BY TryAgainType DEF Fail
<1>5. MintersOK'
  BY DEF JobInv, TypeOK, MintersOK, Fail, minters
<1>6. GhostsOK'
  BY DEF JobInv, TypeOK, GhostsOK, Fail, ghosts
<1>7. QED
  BY <1>1, <1>2, <1>3, <1>4, <1>5, <1>6 DEF TypeOK

LEMMA RecordType ==
  ASSUME JobInv, NEW j \in Jobs, NEW w \in Workers, Record(j, w)
  PROVE  TypeOK'
<1>1. RunnerOK'
  BY DEF JobInv, TypeOK, RunnerOK, Record, runner
<1>2. CliOK'
  BY AccountType DEF JobInv, TypeOK, CliOK, Record
<1>3. QueuesOK'
  BY DEF JobInv, TypeOK, QueuesOK, Record, queues
<1>4. WorkersOK'
  BY DEF JobInv, TypeOK, WorkersOK, Record, WGoto
<1>5. MintersOK'
  BY DEF JobInv, TypeOK, MintersOK, Record, minters
<1>6. GhostsOK'
  BY AccountType DEF JobInv, TypeOK, GhostsOK, Record
<1>7. QED
  BY <1>1, <1>2, <1>3, <1>4, <1>5, <1>6 DEF TypeOK

LEMMA LoseType ==
  ASSUME JobInv, NEW j \in Jobs, NEW w \in Workers, Lose(j, w)
  PROVE  TypeOK'
<1>1. RunnerOK'
  BY DEF JobInv, TypeOK, RunnerOK, Lose, runner
<1>2. CliOK'
  BY DEF JobInv, TypeOK, CliOK, Lose, cli
<1>3. QueuesOK'
  BY DEF JobInv, TypeOK, QueuesOK, Lose, queues
<1>4. WorkersOK'
  BY TryAgainType DEF Lose
<1>5. MintersOK'
  BY DEF JobInv, TypeOK, MintersOK, Lose, minters
<1>6. GhostsOK'
  BY AccountType DEF JobInv, TypeOK, GhostsOK, Lose
<1>7. QED
  BY <1>1, <1>2, <1>3, <1>4, <1>5, <1>6 DEF TypeOK

LEMMA MintInlineType ==
  ASSUME JobInv, NEW j \in Jobs, NEW w \in Workers, MintInline(j, w)
  PROVE  TypeOK'
<1>1. RunnerOK'
  BY DEF JobInv, TypeOK, RunnerOK, MintInline, runner
<1>2. CliOK'
  BY DEF JobInv, TypeOK, CliOK, MintInline, Counts
<1>3. QueuesOK'
  BY DEF JobInv, TypeOK, QueuesOK, MintInline, queues
<1>4. WorkersOK'
  BY DEF JobInv, TypeOK, WorkersOK, MintInline, WGoto
<1>5. MintersOK'
  BY DEF JobInv, TypeOK, MintersOK, MintInline, minters
<1>6. GhostsOK'
  BY AccountType DEF JobInv, TypeOK, GhostsOK, MintInline
<1>7. QED
  BY <1>1, <1>2, <1>3, <1>4, <1>5, <1>6 DEF TypeOK

LEMMA PassRoomType ==
  ASSUME JobInv, NEW j \in Jobs, NEW w \in Workers, PassRoom(j, w)
  PROVE  TypeOK'
<1>1. RunnerOK'
  BY DEF JobInv, TypeOK, RunnerOK, PassRoom, runner
<1>2. CliOK'
  BY DEF JobInv, TypeOK, CliOK, PassRoom, cli
<1>3. QueuesOK'
  BY DEF JobInv, TypeOK, QueuesOK, PassRoom, queues
<1>4. WorkersOK'
  BY DEF JobInv, TypeOK, WorkersOK, PassRoom, WGoto
<1>5. MintersOK'
  BY DEF JobInv, TypeOK, MintersOK, PassRoom, minters
<1>6. GhostsOK'
  BY DEF JobInv, TypeOK, GhostsOK, PassRoom, ghosts
<1>7. QED
  BY <1>1, <1>2, <1>3, <1>4, <1>5, <1>6 DEF TypeOK

LEMMA PutType ==
  ASSUME JobInv, NEW j \in Jobs, NEW w \in Workers, Put(j, w)
  PROVE  TypeOK'
<1>1. RunnerOK'
  BY DEF JobInv, TypeOK, RunnerOK, Put, runner
<1>2. CliOK'
  BY DEF JobInv, TypeOK, CliOK, Put, cli
<1>3. QueuesOK'
  BY AccountType, EnqueueType DEF Put, Items
<1>4. WorkersOK'
  BY DEF JobInv, TypeOK, WorkersOK, Put, WGoto
<1>5. MintersOK'
  BY DEF JobInv, TypeOK, MintersOK, Put, minters
<1>6. GhostsOK'
  BY DEF JobInv, TypeOK, GhostsOK, Put, ghosts
<1>7. QED
  BY <1>1, <1>2, <1>3, <1>4, <1>5, <1>6 DEF TypeOK

LEMMA CountType ==
  ASSUME JobInv, NEW j \in Jobs, NEW w \in Workers, Count(j, w)
  PROVE  TypeOK'
<1>1. RunnerOK'
  BY DEF JobInv, TypeOK, RunnerOK, Count, runner
<1>2. CliOK'
  BY DEF JobInv, TypeOK, CliOK, Count, Counts
<1>3. QueuesOK'
  BY DEF JobInv, TypeOK, QueuesOK, Count, queues
<1>4. WorkersOK'
  BY LeaveType DEF Count
<1>5. MintersOK'
  BY DEF JobInv, TypeOK, MintersOK, Count, minters
<1>6. GhostsOK'
  BY DEF JobInv, TypeOK, GhostsOK, Count, ghosts
<1>7. QED
  BY <1>1, <1>2, <1>3, <1>4, <1>5, <1>6 DEF TypeOK

LEMMA TakeMintType ==
  ASSUME JobInv, NEW j \in Jobs, NEW m \in MintIds, TakeMint(j, m)
  PROVE  TypeOK'
<1>1. RunnerOK'
  BY DEF JobInv, TypeOK, RunnerOK, TakeMint, runner
<1>2. CliOK'
  BY DEF JobInv, TypeOK, CliOK, TakeMint, cli
<1>3. QueuesOK'
  BY HeadTailProperties DEF JobInv, TypeOK, QueuesOK, TakeMint
<1>4. WorkersOK'
  BY DEF JobInv, TypeOK, WorkersOK, TakeMint, workers
<1>5. MintersOK'
  BY HeadTailProperties DEF JobInv, TypeOK, MintersOK, QueuesOK, TakeMint, MGoto
<1>6. GhostsOK'
  BY DEF JobInv, TypeOK, GhostsOK, TakeMint, ghosts
<1>7. QED
  BY <1>1, <1>2, <1>3, <1>4, <1>5, <1>6 DEF TypeOK

LEMMA MintType ==
  ASSUME JobInv, NEW j \in Jobs, NEW m \in MintIds, Mint(j, m)
  PROVE  TypeOK'
<1>1. RunnerOK'
  BY DEF JobInv, TypeOK, RunnerOK, Mint, runner
<1>2. CliOK'
  BY DEF JobInv, TypeOK, CliOK, Mint, Counts
<1>3. QueuesOK'
  BY DEF JobInv, TypeOK, QueuesOK, Mint, queues
<1>4. WorkersOK'
  BY DEF JobInv, TypeOK, WorkersOK, Mint, workers
<1>5. MintersOK'
  BY DEF JobInv, TypeOK, MintersOK, Mint, MGoto
<1>6. GhostsOK'
  BY DEF JobInv, TypeOK, GhostsOK, Mint, Carrying
<1>7. QED
  BY <1>1, <1>2, <1>3, <1>4, <1>5, <1>6 DEF TypeOK

LEMMA AckType ==
  ASSUME JobInv, NEW j \in Jobs, NEW m \in MintIds, Ack(j, m)
  PROVE  TypeOK'
<1>1. RunnerOK'
  BY DEF JobInv, TypeOK, RunnerOK, Ack, runner
<1>2. CliOK'
  BY DEF JobInv, TypeOK, CliOK, Ack, cli
<1>3. QueuesOK'
  BY CountedBusy DEF JobInv, TypeOK, QueuesOK, Ack, TaskDone, Minting
<1>4. WorkersOK'
  BY DEF JobInv, TypeOK, WorkersOK, Ack, workers
<1>5. MintersOK'
  BY DEF JobInv, TypeOK, MintersOK, Ack, MGoto
<1>6. GhostsOK'
  BY DEF JobInv, TypeOK, GhostsOK, Ack, ghosts
<1>7. QED
  BY <1>1, <1>2, <1>3, <1>4, <1>5, <1>6 DEF TypeOK

LEMMA TakeStopType ==
  ASSUME JobInv, NEW j \in Jobs, NEW m \in MintIds, TakeStop(j, m)
  PROVE  TypeOK'
<1>1. RunnerOK'
  BY DEF JobInv, TypeOK, RunnerOK, TakeStop, runner
<1>2. CliOK'
  BY DEF JobInv, TypeOK, CliOK, TakeStop, cli
<1>3. QueuesOK'
  BY CountedQueue, HeadTailProperties DEF JobInv, TypeOK, QueuesOK, TakeStop, TaskDone
<1>4. WorkersOK'
  BY DEF JobInv, TypeOK, WorkersOK, TakeStop, workers
<1>5. MintersOK'
  BY DEF JobInv, TypeOK, MintersOK, TakeStop, MGoto
<1>6. GhostsOK'
  BY DEF JobInv, TypeOK, GhostsOK, TakeStop, ghosts
<1>7. QED
  BY <1>1, <1>2, <1>3, <1>4, <1>5, <1>6 DEF TypeOK

LEMMA TypeStep ==
  ASSUME JobInv, [Next]_vars
  PROVE  TypeOK'
<1>1. CASE Next
  <2>1. PICK j \in Jobs :
          \/ Start(j) \/ StopJob(j) \/ Runner(j)
          \/ \E w \in Workers : Worker(j, w)
          \/ \E m \in MintIds : Minter(j, m)
    BY <1>1 DEF Next
  <2>2. CASE Start(j) \/ StopJob(j)
    BY <2>2, StartType, StopJobType
  <2>3. CASE Runner(j)
    BY <2>3, InstallType, PrepareFailsType, NothingToDoType, PrepareType, SpawnType,
       SpawnedType, SpawnStoppedType, PolledType, DrainType, MarkType, ConcludeType,
       RestoreType DEF Runner
  <2>4. CASE \E w \in Workers : Worker(j, w)
    BY <2>4, TakeType, BeginType, FailType, RecordType, LoseType, MintInlineType,
       PassRoomType, PutType, CountType DEF Worker
  <2>5. CASE \E m \in MintIds : Minter(j, m)
    BY <2>5, TakeMintType, MintType, AckType, TakeStopType DEF Minter
  <2>6. QED
    BY <2>1, <2>2, <2>3, <2>4, <2>5
<1>2. CASE UNCHANGED vars
  BY <1>2 DEF JobInv, TypeOK, RunnerOK, CliOK, QueuesOK, WorkersOK, MintersOK, GhostsOK,
     vars, runner, cli, queues, workers, minters, ghosts
<1>3. QED
  BY <1>1, <1>2

-----------------------------------------------------------------------------
\* The mint queues and the mint workers.

MintersInv == Carrying /\ Fresh /\ QueueCounted

\* A step that touches neither the mint queues nor the mint workers, and takes no
\* runner back to where its job is not prepared.
LEMMA MintersKept ==
  ASSUME JobInv, mintq' = mintq, unfinished' = unfinished, mpc' = mpc, mint' = mint,
         \A k \in Jobs : status'[k] = "none" => status[k] = "none" /\ pc'[k] = pc[k],
         \A k \in Jobs : pc'[k] \in Early => pc[k] \in Early
  PROVE  MintersInv'
<1>1. Carrying'
  BY DEF JobInv, Carrying
<1>2. Fresh'
  BY DEF JobInv, Fresh
<1>3. QueueCounted'
  BY DEF JobInv, QueueCounted, Minting
<1>4. QED
  BY <1>1, <1>2, <1>3 DEF MintersInv

LEMMA MintersRunner ==
  ASSUME JobInv, NEW j \in Jobs,
         \/ Start(j) \/ StopJob(j) \/ Install(j) \/ PrepareFails(j) \/ NothingToDo(j)
         \/ Spawn(j) \/ Spawned(j) \/ SpawnStopped(j) \/ Polled(j) \/ Drain(j)
         \/ Conclude(j) \/ Restore(j)
  PROVE  MintersInv'
<1>1. mintq' = mintq /\ unfinished' = unfinished /\ mpc' = mpc /\ mint' = mint
  BY DEF Start, StopJob, Install, PrepareFails, NothingToDo, Spawn, Spawned, SpawnStopped,
     Polled, Drain, Conclude, Restore, queues, minters
<1>2. /\ \A k \in Jobs : k # j => pc'[k] = pc[k] /\ status'[k] = status[k]
      /\ pc'[j] \in Early => pc[j] \in Early
      /\ status'[j] = "none" => status[j] = "none" /\ pc'[j] = pc[j]
  <2>1. DOMAIN pc = Jobs /\ DOMAIN status = Jobs
    BY DEF JobInv, TypeOK, RunnerOK
  <2>2. status[j] = "none" => pc[j] = "none"
    BY DEF JobInv, Fresh
  <2>3. CASE Start(j) \/ Install(j)
    BY <2>1, <2>2, <2>3 DEF Start, Install, Goto, Early
  <2>4. CASE StopJob(j) \/ Spawn(j)
    BY <2>1, <2>2, <2>4 DEF StopJob, Spawn, Early
  <2>5. CASE PrepareFails(j) \/ NothingToDo(j) \/ Conclude(j)
    BY <2>1, <2>2, <2>5 DEF PrepareFails, NothingToDo, Conclude, Finish, Goto, Early
  <2>6. CASE SpawnStopped(j)
    BY <2>1, <2>2, <2>6 DEF SpawnStopped, Finish, Goto, Early
  <2>7. CASE Spawned(j) \/ Polled(j) \/ Drain(j) \/ Restore(j)
    BY <2>1, <2>2, <2>7 DEF Spawned, Polled, Drain, Restore, Goto, Early
  <2>8. QED
    BY <2>3, <2>4, <2>5, <2>6, <2>7
<1>3. QED
  BY <1>1, <1>2, MintersKept

LEMMA MintersWorker ==
  ASSUME JobInv, NEW j \in Jobs, NEW w \in Workers,
         \/ Take(j, w) \/ Begin(j, w) \/ Fail(j, w) \/ Record(j, w) \/ Lose(j, w)
         \/ MintInline(j, w) \/ PassRoom(j, w) \/ Count(j, w)
  PROVE  MintersInv'
<1>1. mintq' = mintq /\ unfinished' = unfinished /\ mpc' = mpc /\ mint' = mint
  BY DEF Take, Begin, Fail, Record, Lose, MintInline, PassRoom, Count, queues, minters
<1>2. pc' = pc /\ status' = status
  BY DEF Take, Begin, Fail, Record, Lose, MintInline, PassRoom, Count, runner
<1>3. QED
  BY <1>1, <1>2, MintersKept

\* It is enough to count the queue that changes.
LEMMA CountedOne ==
  ASSUME JobInv, NEW j \in Jobs,
         \A k \in Jobs : k # j => /\ mintq'[k] = mintq[k] /\ unfinished'[k] = unfinished[k]
                                 /\ Minting(k)' = Minting(k),
         unfinished'[j] = Len(mintq'[j]) + Cardinality(Minting(j)')
  PROVE  QueueCounted'
<1>1. ASSUME NEW k \in Jobs, k # j
      PROVE  unfinished'[k] = Len(mintq'[k]) + Cardinality(Minting(k)')
  <2>1. unfinished[k] = Len(mintq[k]) + Cardinality(Minting(k))
    BY DEF JobInv, QueueCounted
  <2>2. mintq'[k] = mintq[k] /\ unfinished'[k] = unfinished[k] /\ Minting(k)' = Minting(k)
    BY <1>1
  <2>3. QED
    BY <2>1, <2>2
<1>2. \A k \in Jobs : unfinished'[k] = Len(mintq'[k]) + Cardinality(Minting(k)')
  BY <1>1, Zenon
<1>3. QED
  BY <1>2 DEF QueueCounted

LEMMA MintersEnqueue ==
  ASSUME JobInv, NEW j \in Jobs, NEW x \in Items, Enqueue(j, x),
         minters' = minters, pc' = pc, status' = status
  PROVE  MintersInv'
<1>1. Carrying' /\ Fresh'
  BY DEF JobInv, Carrying, Fresh, minters
<1>2. QueueCounted'
  <2>1. /\ mintq'[j] = Append(mintq[j], x) /\ unfinished'[j] = unfinished[j] + 1
        /\ \A k \in Jobs : k # j => mintq'[k] = mintq[k] /\ unfinished'[k] = unfinished[k]
    BY DEF JobInv, TypeOK, QueuesOK, Enqueue
  <2>2. Len(mintq'[j]) = Len(mintq[j]) + 1 /\ Len(mintq[j]) \in Nat
    BY <2>1 DEF JobInv, TypeOK, QueuesOK, Items
  <2>3. \A k \in Jobs : Minting(k)' = Minting(k)
    BY DEF Minting, minters
  <2>4. Minting(j) \in SUBSET MintIds
    BY DEF Minting
  <2>5. unfinished[j] = Len(mintq[j]) + Cardinality(Minting(j)) /\ Cardinality(Minting(j)) \in Nat
    BY <2>4, MinterSets DEF JobInv, QueueCounted
  <2>6. Cardinality(Minting(j)') = Cardinality(Minting(j))
    BY <2>3
  <2>7. unfinished'[j] = Len(mintq'[j]) + Cardinality(Minting(j)')
    BY <2>1, <2>2, <2>5, <2>6
  <2>8. QED
    BY <2>1, <2>3, <2>7, CountedOne
<1>3. QED
  BY <1>1, <1>2 DEF MintersInv

LEMMA MintersPrepare ==
  ASSUME JobInv, NEW j \in Jobs, Prepare(j)
  PROVE  MintersInv'
<1>1. /\ mpc' = [mpc EXCEPT ![j] =
                   [m \in MintIds |-> IF options[j].inline THEN "off" ELSE "get"]]
      /\ mint' = mint /\ mintq' = mintq /\ unfinished' = unfinished
      /\ pc' = [pc EXCEPT ![j] = "spawn"] /\ status' = status
      /\ pc[j] = "prepare"
  BY DEF Prepare, Goto
<1>2. \A m \in MintIds : mpc[j][m] = "off" /\ mpc'[j][m] \in {"off", "get"}
  BY <1>1 DEF JobInv, Fresh, Early, TypeOK, MintersOK
<1>3. \A k \in Jobs : k # j => mpc'[k] = mpc[k] /\ pc'[k] = pc[k]
  BY <1>1 DEF JobInv, TypeOK, MintersOK, RunnerOK
<1>4. Carrying'
  BY <1>1, <1>2, <1>3 DEF JobInv, Carrying
<1>5. Fresh'
  <2>1. pc'[j] = "spawn" /\ status[j] # "none"
    BY <1>1 DEF JobInv, Fresh, TypeOK, RunnerOK
  <2>2. QED
    BY <2>1, <1>1, <1>3 DEF JobInv, Fresh, Early
<1>6. QueueCounted'
  <2>1. Minting(j) = {} /\ Minting(j)' = {}
    BY <1>2 DEF Minting
  <2>2. \A k \in Jobs : Minting(k)' = Minting(k)
    BY <2>1, <1>3 DEF Minting
  <2>3. QED
    BY <2>2, <1>1 DEF JobInv, QueueCounted
<1>7. QED
  BY <1>4, <1>5, <1>6 DEF MintersInv

\* What the four steps of a mint worker have in common.
LEMMA MintersStep ==
  ASSUME JobInv, NEW j \in Jobs, NEW m \in MintIds, Minter(j, m)
  PROVE  MintersInv'
<1> DEFINE q == mintq[j]
<1>1. /\ pc' = pc /\ status' = status
      /\ \A k \in Jobs : k # j => /\ mpc'[k] = mpc[k] /\ mint'[k] = mint[k]
                                  /\ mintq'[k] = mintq[k] /\ unfinished'[k] = unfinished[k]
      /\ \A n \in MintIds : n # m => mpc'[j][n] = mpc[j][n] /\ mint'[j][n] = mint[j][n]
      /\ mpc[j][m] # "off"
  BY DEF JobInv, TypeOK, MintersOK, QueuesOK, Minter, TakeMint, Mint, Ack, TakeStop, MGoto,
     TaskDone, runner, queues
<1>2. Fresh'
  BY <1>1 DEF JobInv, Fresh
<1>3. \A k \in Jobs : k # j => Minting(k)' = Minting(k)
  BY <1>1 DEF Minting
<1>4. \A n \in MintIds : n # m => (n \in Minting(j)' <=> n \in Minting(j))
  BY <1>1 DEF Minting
<1>5. Minting(j) \in SUBSET MintIds /\ Minting(j)' \in SUBSET MintIds
  BY DEF Minting
<1>6. q \in Seq(Items) /\ unfinished[j] = Len(q) + Cardinality(Minting(j)) /\ Len(q) \in Nat
  BY LenProperties DEF JobInv, TypeOK, QueuesOK, QueueCounted, Items
<1>7. IsFiniteSet(Minting(j)) /\ Cardinality(Minting(j)) \in Nat
  BY <1>5, MinterSets
<1>8. CASE TakeMint(j, m)
  <2>1. /\ q # <<>> /\ Head(q) # Stop
        /\ mintq'[j] = Tail(q) /\ unfinished'[j] = unfinished[j]
        /\ mpc[j][m] = "get" /\ mpc'[j][m] = "mint" /\ mint'[j][m] = Head(q)
    BY <1>8 DEF JobInv, TypeOK, QueuesOK, MintersOK, TakeMint, MGoto
  <2>2. Head(q) \in Accounts /\ Len(Tail(q)) = Len(q) - 1
    BY <2>1, <1>6, HeadTailProperties DEF Items
  <2>3. Carrying'
    BY <2>1, <2>2, <1>1 DEF JobInv, Carrying
  <2>4. Minting(j)' = Minting(j) \cup {m} /\ m \notin Minting(j)
    BY <2>1, <1>4, <1>5 DEF Minting
  <2>5. Cardinality(Minting(j)') = Cardinality(Minting(j)) + 1
    BY <2>4, <1>7, FS_AddElement
  <2>6. unfinished'[j] = Len(mintq'[j]) + Cardinality(Minting(j)')
    BY <2>1, <2>2, <2>5, <1>6, <1>7
  <2>7. QueueCounted'
    BY <2>6, <1>1, <1>3, CountedOne
  <2>8. QED
    BY <1>2, <2>3, <2>7 DEF MintersInv
<1>9. CASE Mint(j, m)
  <2>1. /\ mintq' = mintq /\ unfinished' = unfinished
        /\ mpc[j][m] = "mint" /\ mpc'[j][m] = "ack"
    BY <1>9 DEF JobInv, TypeOK, MintersOK, Mint, MGoto, queues
  <2>2. Carrying'
    BY <2>1, <1>1 DEF JobInv, Carrying
  <2>3. Minting(j)' = Minting(j)
    BY <2>1, <1>4, <1>5 DEF Minting
  <2>4. QueueCounted'
    BY <2>1, <2>3, <1>3 DEF JobInv, QueueCounted
  <2>5. QED
    BY <1>2, <2>2, <2>4 DEF MintersInv
<1>10. CASE Ack(j, m)
  <2>1. /\ mintq'[j] = q /\ unfinished'[j] = unfinished[j] - 1
        /\ mpc[j][m] = "ack" /\ mpc'[j][m] = "get"
    BY <1>10 DEF JobInv, TypeOK, MintersOK, QueuesOK, Ack, MGoto, TaskDone
  <2>2. Carrying'
    BY <2>1, <1>1 DEF JobInv, Carrying
  <2>3. Minting(j)' = Minting(j) \ {m} /\ m \in Minting(j)
    BY <2>1, <1>4, <1>5 DEF Minting
  <2>4. Cardinality(Minting(j)') = Cardinality(Minting(j)) - 1
    BY <2>3, <1>7, FS_RemoveElement
  <2>5. unfinished'[j] = Len(mintq'[j]) + Cardinality(Minting(j)')
    BY <2>1, <2>4, <1>6, <1>7
  <2>6. QueueCounted'
    BY <2>5, <1>1, <1>3, CountedOne
  <2>7. QED
    BY <1>2, <2>2, <2>6 DEF MintersInv
<1>11. CASE TakeStop(j, m)
  <2>1. /\ q # <<>>
        /\ mintq'[j] = Tail(q) /\ unfinished'[j] = unfinished[j] - 1
        /\ mpc[j][m] = "get" /\ mpc'[j][m] = "off"
    BY <1>11 DEF JobInv, TypeOK, QueuesOK, MintersOK, TakeStop, MGoto, TaskDone
  <2>2. Len(Tail(q)) = Len(q) - 1
    BY <2>1, <1>6, HeadTailProperties
  <2>3. Carrying'
    BY <2>1, <1>1 DEF JobInv, Carrying
  <2>4. Minting(j)' = Minting(j)
    BY <2>1, <1>4, <1>5 DEF Minting
  <2>5. Cardinality(Minting(j)') = Cardinality(Minting(j))
    BY <2>4
  <2>6. unfinished'[j] = Len(mintq'[j]) + Cardinality(Minting(j)')
    BY <2>1, <2>2, <2>5, <1>6, <1>7
  <2>7. QueueCounted'
    BY <2>6, <1>1, <1>3, CountedOne
  <2>8. QED
    BY <1>2, <2>3, <2>7 DEF MintersInv
<1>12. QED
  BY <1>8, <1>9, <1>10, <1>11 DEF Minter

-----------------------------------------------------------------------------
\* The bound on the mint queue.

Bound == QMax + NumWorkers - 1

\* A step that puts nothing and lets no further worker see room.
LEMMA BoundedLess ==
  ASSUME JobInv, mintq' = mintq, \A k \in Jobs : Placing(k)' \subseteq Placing(k)
  PROVE  Bounded'
<1>1. ASSUME QMax > 0, NEW k \in Jobs
      PROVE  Cardinality(Held(mintq'[k])) + Cardinality(Placing(k)') <= Bound
  <2>1. Placing(k) \in SUBSET Workers /\ Placing(k)' \in SUBSET Workers
    BY DEF Placing
  <2>2. IsFiniteSet(Placing(k))
    BY <2>1, WorkerSets
  <2>3. Cardinality(Placing(k)') <= Cardinality(Placing(k))
    BY <2>2, FS_Subset
  <2>4. Cardinality(Held(mintq[k])) \in Nat
    BY HeldCount DEF JobInv, TypeOK, QueuesOK, Items
  <2>5. Cardinality(Placing(k)) \in Nat /\ Cardinality(Placing(k)') \in Nat
    BY <2>1, WorkerSets, WorkersAssumption
  <2>6. Cardinality(Held(mintq[k])) + Cardinality(Placing(k)) <= Bound
    BY <1>1 DEF JobInv, Bounded, Bound
  <2>7. QED
    BY <2>3, <2>4, <2>5, <2>6, WorkersAssumption DEF Bound
<1>2. QED
  BY <1>1 DEF Bounded, Bound

\* It is enough to look at the queue that changes.
LEMMA BoundedOne ==
  ASSUME JobInv, NEW j \in Jobs,
         \A k \in Jobs : k # j => mintq'[k] = mintq[k] /\ Placing(k)' = Placing(k),
         QMax > 0 => Cardinality(Held(mintq'[j])) + Cardinality(Placing(j)') <= Bound
  PROVE  Bounded'
<1>1. ASSUME QMax > 0, NEW k \in Jobs, k # j
      PROVE  Cardinality(Held(mintq'[k])) + Cardinality(Placing(k)') <= Bound
  <2>1. Cardinality(Held(mintq[k])) + Cardinality(Placing(k)) <= Bound
    BY <1>1 DEF JobInv, Bounded, Bound
  <2>2. mintq'[k] = mintq[k] /\ Placing(k)' = Placing(k)
    BY <1>1
  <2>3. QED
    BY <2>1, <2>2
<1>2. QMax > 0 =>
        \A k \in Jobs : Cardinality(Held(mintq'[k])) + Cardinality(Placing(k)') <= Bound
  BY <1>1, Zenon
<1>3. QED
  BY <1>2 DEF Bounded, Bound

\* What holds of a queue before a step.
LEMMA BoundedNow ==
  ASSUME JobInv, NEW j \in Jobs
  PROVE  /\ mintq[j] \in Seq(Items)
         /\ Cardinality(Held(mintq[j])) \in Nat
         /\ Placing(j) \in SUBSET Workers /\ IsFiniteSet(Placing(j))
         /\ Cardinality(Placing(j)) \in 0 .. NumWorkers
         /\ QMax > 0 => Cardinality(Held(mintq[j])) + Cardinality(Placing(j)) <= Bound
<1>1. mintq[j] \in Seq(Items)
  BY DEF JobInv, TypeOK, QueuesOK, Items
<1>2. Placing(j) \in SUBSET Workers
  BY DEF Placing
<1>3. QMax > 0 => Cardinality(Held(mintq[j])) + Cardinality(Placing(j)) <= Bound
  BY DEF JobInv, Bounded, Bound
<1>4. QED
  BY <1>1, <1>2, <1>3, HeldCount, WorkerSets

LEMMA BoundedRunner ==
  ASSUME JobInv, NEW j \in Jobs,
         \/ Start(j) \/ StopJob(j) \/ Install(j) \/ PrepareFails(j) \/ NothingToDo(j)
         \/ Prepare(j) \/ Spawn(j) \/ Spawned(j) \/ SpawnStopped(j) \/ Polled(j)
         \/ Drain(j) \/ Conclude(j) \/ Restore(j)
  PROVE  Bounded'
<1>1. mintq' = mintq
  BY DEF Start, StopJob, Install, PrepareFails, NothingToDo, Prepare, Spawn, Spawned,
     SpawnStopped, Polled, Drain, Conclude, Restore, queues
<1>2. CASE Spawn(j)
  <2>1. \A k \in Jobs : \A w \in Workers :
          wpc'[k][w] = wpc[k][w] \/ wpc'[k][w] = "head"
    BY <1>2 DEF JobInv, TypeOK, WorkersOK, Spawn
  <2>2. \A k \in Jobs : Placing(k)' \subseteq Placing(k)
    BY <2>1 DEF Placing
  <2>3. QED
    BY <1>1, <2>2, BoundedLess
<1>3. CASE ~Spawn(j)
  <2>1. wpc' = wpc
    BY <1>3 DEF Start, StopJob, Install, PrepareFails, NothingToDo, Prepare, Spawned,
       SpawnStopped, Polled, Drain, Conclude, Restore, workers
  <2>2. \A k \in Jobs : Placing(k)' \subseteq Placing(k)
    BY <2>1 DEF Placing
  <2>3. QED
    BY <1>1, <2>2, BoundedLess
<1>4. QED
  BY <1>2, <1>3

LEMMA BoundedMark ==
  ASSUME JobInv, NEW j \in Jobs, Mark(j)
  PROVE  Bounded'
<1>1. /\ mintq'[j] = Append(mintq[j], Stop)
      /\ \A k \in Jobs : k # j => mintq'[k] = mintq[k]
  BY DEF JobInv, TypeOK, QueuesOK, Mark, Enqueue
<1>2. \A k \in Jobs : Placing(k)' = Placing(k)
  BY DEF Mark, workers, Placing
<1>3. Cardinality(Held(mintq'[j])) = Cardinality(Held(mintq[j]))
  BY <1>1, BoundedNow, HeldAppend DEF Items
<1>4. Cardinality(Placing(j)') = Cardinality(Placing(j))
  BY <1>2
<1>5. QMax > 0 => Cardinality(Held(mintq'[j])) + Cardinality(Placing(j)') <= Bound
  BY <1>3, <1>4, BoundedNow
<1>6. QED
  BY <1>1, <1>2, <1>5, BoundedOne

LEMMA BoundedMinter ==
  ASSUME JobInv, NEW j \in Jobs, NEW m \in MintIds, Minter(j, m)
  PROVE  Bounded'
<1>1. /\ \A k \in Jobs : k # j => mintq'[k] = mintq[k]
      /\ mintq'[j] = mintq[j] \/ (mintq[j] # <<>> /\ mintq'[j] = Tail(mintq[j]))
  BY DEF JobInv, TypeOK, QueuesOK, Minter, TakeMint, Mint, Ack, TakeStop, queues
<1>2. \A k \in Jobs : Placing(k)' = Placing(k)
  BY DEF Minter, TakeMint, Mint, Ack, TakeStop, workers, Placing
<1>3. Cardinality(Held(mintq'[j])) <= Cardinality(Held(mintq[j]))
  BY <1>1, BoundedNow, HeldTail
<1>4. Cardinality(Held(mintq'[j])) \in Nat
  BY <1>1, BoundedNow, HeadTailProperties, HeldCount
<1>5. Cardinality(Placing(j)') = Cardinality(Placing(j))
  BY <1>2
<1>6. QMax > 0 => Cardinality(Held(mintq'[j])) + Cardinality(Placing(j)') <= Bound
  BY <1>3, <1>4, <1>5, BoundedNow, WorkersAssumption DEF Bound
<1>7. QED
  BY <1>1, <1>2, <1>6, BoundedOne

LEMMA BoundedPassRoom ==
  ASSUME JobInv, NEW j \in Jobs, NEW w \in Workers, PassRoom(j, w)
  PROVE  Bounded'
<1>1. mintq' = mintq
  BY DEF PassRoom, queues
<1>2. \A k \in Jobs : k # j => Placing(k)' = Placing(k)
  BY DEF JobInv, TypeOK, WorkersOK, PassRoom, WGoto, Placing
<1>3. ASSUME QMax > 0
      PROVE  Cardinality(Held(mintq[j])) + Cardinality(Placing(j)') <= Bound
  <2>1. Len(mintq[j]) < QMax
    BY <1>3 DEF PassRoom, Room
  <2>2. Cardinality(Held(mintq[j])) <= Len(mintq[j]) /\ Len(mintq[j]) \in Nat
    BY BoundedNow, HeldCount, LenProperties
  <2>3. Placing(j)' \in SUBSET Workers
    BY DEF Placing
  <2>4. Cardinality(Placing(j)') \in 0 .. NumWorkers
    BY <2>3, WorkerSets
  <2>5. QED
    BY <2>1, <2>2, <2>4, BoundedNow, WorkersAssumption DEF Bound
<1>4. QED
  BY <1>1, <1>2, <1>3, BoundedOne

LEMMA BoundedPut ==
  ASSUME JobInv, NEW j \in Jobs, NEW w \in Workers, Put(j, w)
  PROVE  Bounded'
<1>1. /\ mintq'[j] = Append(mintq[j], Account(j, w))
      /\ \A k \in Jobs : k # j => mintq'[k] = mintq[k]
  BY DEF JobInv, TypeOK, QueuesOK, Put, Enqueue
<1>2. /\ \A k \in Jobs : k # j => wpc'[k] = wpc[k]
      /\ wpc[j][w] = "put" /\ wpc'[j][w] = "count"
      /\ \A v \in Workers : v # w => wpc'[j][v] = wpc[j][v]
  BY DEF JobInv, TypeOK, WorkersOK, Put, WGoto
<1>3. \A k \in Jobs : k # j => Placing(k)' = Placing(k)
  BY <1>2 DEF Placing
<1>4. w \in Placing(j) /\ Placing(j)' = Placing(j) \ {w}
  BY <1>2 DEF Placing
<1>5. Cardinality(Placing(j)') = Cardinality(Placing(j)) - 1
  BY <1>4, BoundedNow, FS_RemoveElement, Zenon
<1>6. Cardinality(Held(mintq'[j])) <= Cardinality(Held(mintq[j])) + 1
  <2>1. Account(j, w) \in Items
    BY AccountType DEF Items
  <2>2. QED
    BY <1>1, <2>1, BoundedNow, HeldAppend
<1>7. Cardinality(Held(mintq'[j])) \in Nat
  <2>1. mintq'[j] \in Seq(Items)
    BY <1>1, AccountType, BoundedNow DEF Items
  <2>2. QED
    BY <2>1, HeldCount
<1>8. QMax > 0 => Cardinality(Held(mintq'[j])) + Cardinality(Placing(j)') <= Bound
  BY <1>5, <1>6, <1>7, BoundedNow, WorkersAssumption DEF Bound
<1>9. QED
  BY <1>1, <1>3, <1>8, BoundedOne

LEMMA BoundedWorker ==
  ASSUME JobInv, NEW j \in Jobs, NEW w \in Workers,
         \/ Take(j, w) \/ Begin(j, w) \/ Fail(j, w) \/ Record(j, w) \/ Lose(j, w)
         \/ MintInline(j, w) \/ Count(j, w)
  PROVE  Bounded'
<1>1. mintq' = mintq
  BY DEF Take, Begin, Fail, Record, Lose, MintInline, Count, queues
<1>2. \/ WGoto(j, w, "off") \/ WGoto(j, w, "head") \/ WGoto(j, w, "loop")
      \/ WGoto(j, w, "attempt") \/ WGoto(j, w, "have") \/ WGoto(j, w, "count")
  <2>1. CASE Take(j, w) \/ Begin(j, w) \/ Record(j, w) \/ MintInline(j, w) \/ Count(j, w)
    BY <2>1 DEF Take, Begin, Record, MintInline, Count, Leave
  <2>2. CASE Fail(j, w) \/ Lose(j, w)
    BY <2>2 DEF Fail, Lose, TryAgain, Leave
  <2>3. QED
    BY <2>1, <2>2
<1>3. \A k \in Jobs : \A v \in Workers : wpc'[k][v] = wpc[k][v] \/ wpc'[k][v] # "put"
  BY <1>2 DEF JobInv, TypeOK, WorkersOK, WGoto
<1>4. \A k \in Jobs : Placing(k)' \subseteq Placing(k)
  BY <1>3 DEF Placing
<1>5. QED
  BY <1>1, <1>4, BoundedLess

-----------------------------------------------------------------------------
\* The ledger grows by one account at a time.

LEMMA LedgerStep ==
  ASSUME JobInv, [Next]_vars
  PROVE  IsFiniteSet(ledger')
<1>1. ledger' = ledger \/ \E a \in Accounts : ledger' = ledger \cup {a}
  <2>1. CASE Next
    <3>1. PICK j \in Jobs :
            \/ Start(j) \/ StopJob(j) \/ Runner(j)
            \/ \E w \in Workers : Worker(j, w)
            \/ \E m \in MintIds : Minter(j, m)
      BY <2>1 DEF Next
    <3>2. CASE Start(j) \/ StopJob(j)
      BY <3>2 DEF Start, StopJob, cli
    <3>3. CASE Runner(j)
      BY <3>3 DEF Runner, Install, PrepareFails, NothingToDo, Prepare, Spawn, Spawned,
         SpawnStopped, Polled, Drain, Mark, Conclude, Restore, cli
    <3>4. ASSUME NEW w \in Workers, Worker(j, w)
          PROVE  ledger' = ledger \/ \E a \in Accounts : ledger' = ledger \cup {a}
      <4>1. CASE Record(j, w)
        BY <4>1, AccountType DEF Record
      <4>2. CASE ~Record(j, w)
        BY <3>4, <4>2 DEF Worker, Take, Begin, Fail, Lose, MintInline, PassRoom, Put, Count,
           cli
      <4>3. QED
        BY <4>1, <4>2
    <3>5. CASE \E m \in MintIds : Minter(j, m)
      BY <3>5 DEF Minter, TakeMint, Mint, Ack, TakeStop, cli
    <3>6. QED
      BY <3>1, <3>2, <3>3, <3>4, <3>5
  <2>2. CASE UNCHANGED vars
    BY <2>2 DEF vars, cli
  <2>3. QED
    BY <2>1, <2>2
<1>2. IsFiniteSet(ledger)
  BY DEF JobInv
<1>3. QED
  BY <1>1, <1>2, FS_AddElement

-----------------------------------------------------------------------------
\* The theorems.

LEMMA JobInvInit == Init => JobInv
<1> SUFFICES ASSUME Init PROVE JobInv
  OBVIOUS
<1>1. Workers \subseteq Nat /\ MintIds \subseteq Nat
  BY DEF Workers, MintIds
<1>2. (CHOOSE o \in Options : TRUE) \in Options
  BY OptionsAssumption
<1>3. RunnerOK
  BY <1>2, WorkersAssumption DEF Init, RunnerOK, NoStats, Counts
<1>4. CliOK
  BY DEF Init, CliOK, NoStats, Counts
<1>5. QueuesOK
  BY DEF Init, QueuesOK
<1>6. WorkersOK /\ MintersOK
  BY DEF Init, WorkersOK, MintersOK
<1>7. GhostsOK
  BY DEF Init, GhostsOK
<1>8. IsFiniteSet(ledger)
  BY FS_EmptySet DEF Init
<1>9. Carrying /\ Fresh
  BY DEF Init, Carrying, Fresh
<1>10. Cardinality({}) = 0 /\ Len(<<>>) = 0
  BY FS_EmptySet
<1>11. QueueCounted
  <2>1. SUFFICES ASSUME NEW j \in Jobs
                 PROVE  unfinished[j] = Len(mintq[j]) + Cardinality(Minting(j))
    BY DEF QueueCounted
  <2>2. Minting(j) = {} /\ mintq[j] = <<>> /\ unfinished[j] = 0
    BY DEF Init, Minting
  <2>3. Cardinality(Minting(j)) = 0 /\ Len(mintq[j]) = 0
    BY <2>2, <1>10
  <2>4. QED
    BY <2>2, <2>3
<1>12. Bounded
  <2>1. SUFFICES ASSUME QMax > 0, NEW j \in Jobs
                 PROVE  Cardinality(Held(mintq[j])) + Cardinality(Placing(j))
                          <= QMax + NumWorkers - 1
    BY DEF Bounded
  <2>2. Placing(j) = {} /\ mintq[j] = <<>>
    BY DEF Init, Placing
  <2>3. Held(<<>>) = {}
    BY DEF Held
  <2>4. Cardinality(Placing(j)) = 0 /\ Cardinality(Held(mintq[j])) = 0
    BY <2>2, <2>3, <1>10
  <2>5. QED
    BY <2>1, <2>4, WorkersAssumption
<1>13. QED
  BY <1>3, <1>4, <1>5, <1>6, <1>7, <1>8, <1>9, <1>11, <1>12 DEF JobInv, TypeOK

LEMMA QueueStep ==
  ASSUME JobInv, [Next]_vars
  PROVE  MintersInv' /\ Bounded'
<1>1. CASE Next
  <2>1. PICK j \in Jobs :
          \/ Start(j) \/ StopJob(j) \/ Runner(j)
          \/ \E w \in Workers : Worker(j, w)
          \/ \E m \in MintIds : Minter(j, m)
    BY <1>1 DEF Next
  <2>2. CASE Start(j) \/ StopJob(j)
    BY <2>2, MintersRunner, BoundedRunner
  <2>3. CASE Runner(j)
    <3>1. CASE Prepare(j)
      BY <3>1, MintersPrepare, BoundedRunner
    <3>2. CASE Mark(j)
      <4>1. Enqueue(j, Stop) /\ minters' = minters /\ pc' = pc /\ status' = status
        BY <3>2 DEF Mark
      <4>2. MintersInv'
        BY <4>1, MintersEnqueue DEF Items
      <4>3. QED
        BY <4>2, <3>2, BoundedMark
    <3>3. CASE ~Prepare(j) /\ ~Mark(j)
      BY <2>3, <3>3, MintersRunner, BoundedRunner DEF Runner
    <3>4. QED
      BY <3>1, <3>2, <3>3
  <2>4. ASSUME NEW w \in Workers, Worker(j, w)
        PROVE  MintersInv' /\ Bounded'
    <3>1. CASE PassRoom(j, w)
      BY <3>1, MintersWorker, BoundedPassRoom
    <3>2. CASE Put(j, w)
      <4>1. /\ Enqueue(j, Account(j, w))
            /\ minters' = minters /\ pc' = pc /\ status' = status
        BY <3>2 DEF Put, runner
      <4>2. MintersInv'
        BY <4>1, AccountType, MintersEnqueue DEF Items
      <4>3. QED
        BY <4>2, <3>2, BoundedPut
    <3>3. CASE ~PassRoom(j, w) /\ ~Put(j, w)
      BY <2>4, <3>3, MintersWorker, BoundedWorker DEF Worker
    <3>4. QED
      BY <3>1, <3>2, <3>3
  <2>5. CASE \E m \in MintIds : Minter(j, m)
    BY <2>5, MintersStep, BoundedMinter
  <2>6. QED
    BY <2>1, <2>2, <2>3, <2>4, <2>5
<1>2. CASE UNCHANGED vars
  <2>1. /\ mintq' = mintq /\ unfinished' = unfinished /\ mpc' = mpc /\ mint' = mint
        /\ pc' = pc /\ status' = status /\ wpc' = wpc
    BY <1>2 DEF vars, runner, queues, workers, minters
  <2>2. \A k \in Jobs : Placing(k)' \subseteq Placing(k)
    BY <2>1 DEF Placing
  <2>3. MintersInv'
    BY <2>1, MintersKept
  <2>4. QED
    BY <2>1, <2>2, <2>3, BoundedLess
<1>3. QED
  BY <1>1, <1>2

LEMMA JobInvStep == JobInv /\ [Next]_vars => JobInv'
<1> SUFFICES ASSUME JobInv, [Next]_vars PROVE JobInv'
  OBVIOUS
<1>1. QED
  BY TypeStep, LedgerStep, QueueStep DEF JobInv, MintersInv

\* Every state of the program is well typed; in particular a mint queue's count of
\* unfinished items never goes below zero, where Queue.task_done would raise.
THEOREM TypeCorrect == Spec => []TypeOK
<1>1. JobInv => TypeOK
  BY DEF JobInv
<1>2. QED
  BY <1>1, JobInvInit, JobInvStep, PTL DEF Spec

\* What the wait in _register_worker (register_cli.py) bounds: a mint queue never
\* holds more accounts than its limit and the workers but one.
THEOREM QueueBounded == Spec => []BackpressureBound
<1>1. JobInv => BackpressureBound
  <2> SUFFICES ASSUME JobInv, QMax > 0, NEW j \in Jobs
               PROVE  Cardinality(Held(mintq[j])) <= QMax + NumWorkers - 1
    BY DEF BackpressureBound
  <2>1. QED
    BY BoundedNow, WorkersAssumption DEF Bound
<1>2. QED
  BY <1>1, JobInvInit, JobInvStep, PTL DEF Spec

\* The unfinished items, for which the runner waits before it ends the mint workers,
\* are those on the queue and those in the hands of a mint worker.
THEOREM UnfinishedExact == Spec => []QueueCounted
<1>1. JobInv => QueueCounted
  BY DEF JobInv
<1>2. QED
  BY <1>1, JobInvInit, JobInvStep, PTL DEF Spec

-----------------------------------------------------------------------------
\* The log and the wrappers of register_cli.

\* The status of a job says where its runner is.
Working == {"prepare", "spawn", "poll", "drain", "mark"}
Phase == \A j \in Jobs :
  /\ pc[j] = "none" <=> status[j] = "none"
  /\ pc[j] = "start" <=> status[j] = "queued"
  /\ pc[j] \in Working <=> status[j] = "running"

\* One job at a time is queued or running; and no other is at its finally block,
\* unless a job was started in that moment.
Laned == \A j \in Jobs : status[j] \in {"queued", "running"} => active = j
Single == ~overlapped => \A j \in Jobs : pc[j] \notin {"none", "over"} => active = j

\* The job at work has found register_cli as it was and put its own in place.
Hooked == ~overlapped =>
  /\ \A j \in Jobs : pc[j] \in Working \cup {"finally"} => hook = j /\ saved[j] = NoJob
  /\ (\A j \in Jobs : pc[j] \in {"none", "start", "over"}) => hook = NoJob

WrapInv == Phase /\ Laned /\ Single /\ Hooked

LEMMA WrapKept ==
  ASSUME WrapInv, UNCHANGED <<active, status, pc, saved, hook, overlapped>>
  PROVE  WrapInv'
  BY DEF WrapInv, Phase, Laned, Single, Hooked

\* A runner goes from one place to the next while its job runs.
LEMMA WrapWorks ==
  ASSUME TypeOK, WrapInv, NEW j \in Jobs, NEW l \in Working, pc[j] \in Working, Goto(j, l),
         UNCHANGED <<active, status, saved, hook, overlapped>>
  PROVE  WrapInv'
<1>1. /\ \A k \in Jobs : pc'[k] = IF k = j THEN l ELSE pc[k]
      /\ "none" \notin Working /\ "start" \notin Working /\ "over" \notin Working
  BY DEF TypeOK, RunnerOK, Goto, Working
<1>2. Phase'
  BY <1>1 DEF WrapInv, Phase
<1>3. Laned' /\ Single'
  BY <1>1 DEF WrapInv, Laned, Single
<1>4. Hooked'
  BY <1>1 DEF WrapInv, Hooked
<1>5. QED
  BY <1>2, <1>3, <1>4 DEF WrapInv

\* Its job has ended: the finally block is left.
LEMMA WrapEnds ==
  ASSUME TypeOK, WrapInv, NEW j \in Jobs, NEW st \in Over, pc[j] \in Working, Finish(j, st),
         UNCHANGED <<active, saved, hook, overlapped>>
  PROVE  WrapInv'
<1>1. /\ \A k \in Jobs : pc'[k] = IF k = j THEN "finally" ELSE pc[k]
      /\ \A k \in Jobs : status'[k] = IF k = j THEN st ELSE status[k]
      /\ st \notin {"none", "queued", "running"}
      /\ "finally" \notin Working \cup {"none", "start", "over"}
      /\ Working \cap {"none", "start", "over"} = {}
  BY DEF TypeOK, RunnerOK, Finish, Goto, Working, Over
<1>2. Phase'
  BY <1>1 DEF WrapInv, Phase
<1>3. Laned' /\ Single'
  BY <1>1 DEF WrapInv, Laned, Single
<1>4. Hooked'
  BY <1>1 DEF WrapInv, Hooked
<1>5. QED
  BY <1>2, <1>3, <1>4 DEF WrapInv

LEMMA WrapStart ==
  ASSUME TypeOK, WrapInv, NEW j \in Jobs, Start(j)
  PROVE  WrapInv'
<1>1. /\ \A k \in Jobs : pc'[k] = IF k = j THEN "start" ELSE pc[k]
      /\ \A k \in Jobs : status'[k] = IF k = j THEN "queued" ELSE status[k]
      /\ active' = j /\ UNCHANGED <<saved, hook>>
      /\ overlapped' = (overlapped \/ \E k \in Jobs : pc[k] = "finally")
  BY DEF TypeOK, RunnerOK, Start, Goto, cli
<1>2. \A k \in Jobs : status[k] \notin {"queued", "running"}
  BY DEF Start, LaneFree, WrapInv, Laned
<1>3. \A k \in Jobs : pc[k] \notin Working \cup {"start"}
  BY <1>2 DEF WrapInv, Phase
<1>4. Phase' /\ Laned'
  BY <1>1, <1>2, <1>3 DEF WrapInv, Phase, Laned, Working
<1>5. ~overlapped' => \A k \in Jobs : pc[k] \in {"none", "over"}
  BY <1>1, <1>3 DEF TypeOK, RunnerOK, Working
<1>6. Single'
  BY <1>1, <1>5 DEF Single
<1>7. Hooked'
  BY <1>1, <1>5 DEF WrapInv, Hooked, Working
<1>8. QED
  BY <1>4, <1>6, <1>7 DEF WrapInv

LEMMA WrapInstall ==
  ASSUME TypeOK, WrapInv, NEW j \in Jobs, Install(j)
  PROVE  WrapInv'
<1>1. /\ \A k \in Jobs : pc'[k] = IF k = j THEN "prepare" ELSE pc[k]
      /\ \A k \in Jobs : status'[k] = IF k = j THEN "running" ELSE status[k]
      /\ \A k \in Jobs : saved'[k] = IF k = j THEN hook ELSE saved[k]
      /\ hook' = j /\ UNCHANGED <<active, overlapped>> /\ pc[j] = "start"
  BY DEF TypeOK, RunnerOK, Install, Goto, ghosts
<1>2. Phase' /\ Laned'
  BY <1>1 DEF WrapInv, Phase, Laned, Working
<1>3. Single'
  BY <1>1 DEF WrapInv, Single
<1>4. ~overlapped => \A k \in Jobs \ {j} : pc[k] \in {"none", "over"}
  BY <1>1 DEF WrapInv, Single
<1>5. Hooked'
  <2>1. ~overlapped => hook = NoJob
    BY <1>1, <1>4 DEF WrapInv, Hooked
  <2>2. QED
    BY <1>1, <1>4, <2>1 DEF Hooked, Working
<1>6. QED
  BY <1>2, <1>3, <1>5 DEF WrapInv

LEMMA WrapRestore ==
  ASSUME TypeOK, WrapInv, NEW j \in Jobs, Restore(j)
  PROVE  WrapInv'
<1>1. /\ \A k \in Jobs : pc'[k] = IF k = j THEN "over" ELSE pc[k]
      /\ hook' = saved[j] /\ UNCHANGED <<active, status, saved, overlapped>>
      /\ pc[j] = "finally"
  BY DEF TypeOK, RunnerOK, Restore, Goto, ghosts
<1>2. Phase' /\ Laned' /\ Single'
  BY <1>1 DEF WrapInv, Phase, Laned, Single, Working
<1>3. ~overlapped => \A k \in Jobs \ {j} : pc[k] \in {"none", "over"}
  BY <1>1 DEF WrapInv, Single
<1>4. Hooked'
  BY <1>1, <1>3 DEF WrapInv, Hooked, Working
<1>5. QED
  BY <1>2, <1>4 DEF WrapInv

LEMMA WrapRunner ==
  ASSUME TypeOK, WrapInv, NEW j \in Jobs, Runner(j)
  PROVE  WrapInv'
<1>1. /\ {"prepare", "spawn", "poll", "drain", "mark"} \subseteq Working
      /\ {"completed", "stopped", "failed"} \subseteq Over
  BY DEF Working, Over
<1>2. ASSUME Install(j) \/ Restore(j) PROVE WrapInv'
  BY <1>2, WrapInstall, WrapRestore
<1>3. ASSUME PrepareFails(j) PROVE WrapInv'
  BY <1>1, <1>3, WrapEnds DEF PrepareFails, ghosts
<1>4. ASSUME NothingToDo(j) PROVE WrapInv'
  BY <1>1, <1>4, WrapEnds DEF NothingToDo, ghosts, cli
<1>5. ASSUME Prepare(j) PROVE WrapInv'
  BY <1>1, <1>5, WrapWorks DEF Prepare
<1>6. ASSUME Spawn(j) PROVE WrapInv'
  BY <1>6, WrapKept DEF Spawn, cli, ghosts
<1>7. ASSUME Spawned(j) \/ Polled(j) \/ Drain(j) PROVE WrapInv'
  BY <1>1, <1>7, WrapWorks DEF Spawned, Polled, Drain, cli, ghosts
<1>8. ASSUME SpawnStopped(j) PROVE WrapInv'
  BY <1>1, <1>8, WrapWorks, WrapEnds DEF SpawnStopped, cli, ghosts
<1>9. ASSUME Mark(j) PROVE WrapInv'
  BY <1>9, WrapKept DEF Mark, cli, ghosts
<1>10. ASSUME Conclude(j) PROVE WrapInv'
  BY <1>1, <1>10, WrapEnds DEF Conclude, cli, ghosts
<1>11. QED
  BY <1>2, <1>3, <1>4, <1>5, <1>6, <1>7, <1>8, <1>9, <1>10 DEF Runner

\* The threads of a job leave its runner alone.
LEMMA WorkerFrame ==
  ASSUME NEW j \in Jobs, NEW w \in Workers, Worker(j, w)
  PROVE  UNCHANGED <<runner, hook, minters, mixed, overlapped>>
  BY DEF Worker, Take, Begin, Fail, Record, Lose, MintInline, PassRoom, Put, Count,
         cli, ghosts

LEMMA MinterFrame ==
  ASSUME NEW j \in Jobs, NEW m \in MintIds, Minter(j, m)
  PROVE  UNCHANGED <<runner, hook, ledger, tasks, workers, lost, late, mixed, overlapped>>
  BY DEF Minter, TakeMint, Mint, Ack, TakeStop, cli, queues, ghosts

LEMMA WrapStep == TypeOK /\ WrapInv /\ [Next]_vars => WrapInv'
<1> SUFFICES ASSUME TypeOK, WrapInv, [Next]_vars PROVE WrapInv'
  OBVIOUS
<1>1. ASSUME NEW j \in Jobs, Start(j) PROVE WrapInv'
  BY <1>1, WrapStart
<1>2. ASSUME NEW j \in Jobs, StopJob(j) PROVE WrapInv'
  BY <1>2, WrapKept DEF StopJob, cli, ghosts
<1>3. ASSUME NEW j \in Jobs, Runner(j) PROVE WrapInv'
  BY <1>3, WrapRunner
<1>4. ASSUME NEW j \in Jobs, NEW w \in Workers, Worker(j, w) PROVE WrapInv'
  BY <1>4, WorkerFrame, WrapKept DEF runner
<1>5. ASSUME NEW j \in Jobs, NEW m \in MintIds, Minter(j, m) PROVE WrapInv'
  BY <1>5, MinterFrame, WrapKept DEF runner
<1>6. ASSUME UNCHANGED vars PROVE WrapInv'
  BY <1>6, WrapKept DEF vars, runner, cli, ghosts
<1>7. QED
  BY <1>1, <1>2, <1>3, <1>4, <1>5, <1>6 DEF Next

LEMMA WrapInit == Init => WrapInv
  BY DEF Init, WrapInv, Phase, Laned, Single, Hooked, Working

\* A job works with its own log and wrappers in place, and register_cli has its own
\* functions back when no runner is at work, for any number of jobs one after the
\* other, if none was started between the end and the finally block of another.
THEOREM WrappersInPlaceAlways == Spec => []WrappersInPlace
<1>1. JobInv /\ WrapInv => WrappersInPlace
  BY DEF JobInv, TypeOK, RunnerOK, WrapInv, Hooked, WrappersInPlace, Working
<1>2. JobInv => TypeOK
  BY DEF JobInv
<1>3. QED
  BY <1>1, <1>2, JobInvInit, JobInvStep, WrapInit, WrapStep, PTL DEF Spec

-----------------------------------------------------------------------------
\* Accounts that are registered after a stop.

\* The registration workers that are at an attempt.
AtAttempt(j) == {w \in Workers : wpc[j][w] = "attempt"}

\* A worker that is at an attempt when the job is stopped may register one account,
\* and no other attempt begins.
LateInv ==
  /\ late \subseteq ledger
  /\ \A j \in Jobs :
       /\ ~cancel[j] => Of(j, late) = {}
       /\ cancel[j] => Cardinality(Of(j, late)) + Cardinality(AtAttempt(j)) <= NumWorkers

LEMMA LateSets ==
  ASSUME JobInv, LateInv, NEW j \in Jobs
  PROVE  /\ IsFiniteSet(Of(j, late)) /\ Cardinality(Of(j, late)) \in Nat
         /\ Cardinality(AtAttempt(j)) \in 0 .. NumWorkers
         /\ IsFiniteSet(AtAttempt(j))
<1>1. IsFiniteSet(Of(j, late))
  BY FS_Subset DEF JobInv, LateInv, Of
<1>2. AtAttempt(j) \subseteq Workers
  BY DEF AtAttempt
<1>3. QED
  BY <1>1, <1>2, FS_CardinalityType, WorkerSets

\* A step in which no attempt of a stopped job begins, and nothing is registered.
LEMMA LateKept ==
  ASSUME JobInv, LateInv, late' = late, ledger \subseteq ledger', cancel' = cancel,
         \A k \in Jobs : cancel[k] => AtAttempt(k)' \subseteq AtAttempt(k)
  PROVE  LateInv'
<1>1. SUFFICES ASSUME NEW k \in Jobs
               PROVE  /\ ~cancel[k] => Of(k, late) = {}
                      /\ cancel[k] => Cardinality(Of(k, late)) + Cardinality(AtAttempt(k)')
                                        <= NumWorkers
  BY DEF LateInv, Of
<1>2. cancel[k] => Cardinality(AtAttempt(k)') <= Cardinality(AtAttempt(k))
                   /\ Cardinality(AtAttempt(k)') \in Nat
  <2>1. ASSUME cancel[k] PROVE AtAttempt(k)' \subseteq AtAttempt(k)
    BY <2>1
  <2>2. IsFiniteSet(AtAttempt(k))
    BY LateSets
  <2>3. \A S \in SUBSET AtAttempt(k) : /\ Cardinality(S) <= Cardinality(AtAttempt(k))
                                        /\ Cardinality(S) \in Nat
    BY <2>2, FS_Subset, FS_CardinalityType
  <2>4. QED
    BY <2>1, <2>3
<1>3. QED
  BY <1>2, LateSets, WorkersAssumption DEF LateInv

LEMMA LateStop ==
  ASSUME JobInv, LateInv, NEW j \in Jobs, StopJob(j)
  PROVE  LateInv'
<1>1. /\ \A k \in Jobs : cancel'[k] = (k = j \/ cancel[k])
      /\ late' = late /\ ledger' = ledger /\ wpc' = wpc
  BY DEF JobInv, TypeOK, RunnerOK, StopJob, ghosts, cli, workers
<1>2. SUFFICES ASSUME NEW k \in Jobs
               PROVE  /\ ~cancel'[k] => Of(k, late) = {}
                      /\ cancel'[k] => Cardinality(Of(k, late)) + Cardinality(AtAttempt(k))
                                         <= NumWorkers
  BY <1>1 DEF LateInv, Of, AtAttempt
<1>3. CASE cancel[k]
  BY <1>1, <1>3 DEF LateInv
<1>4. CASE ~cancel[k]
  <2>1. Cardinality(Of(k, late)) = 0
    BY <1>4, FS_EmptySet DEF LateInv
  <2>2. QED
    BY <1>1, <1>4, <2>1, LateSets, WorkersAssumption DEF LateInv
<1>5. QED
  BY <1>3, <1>4

LEMMA LateRecord ==
  ASSUME JobInv, LateInv, NEW j \in Jobs, NEW w \in Workers, Record(j, w)
  PROVE  LateInv'
<1> DEFINE a == Account(j, w)
<1>1. /\ wpc[j][w] = "attempt" /\ cancel' = cancel
      /\ ledger' = ledger \cup {a}
      /\ late' = IF cancel[j] THEN late \cup {a} ELSE late
      /\ \A k \in Jobs : \A v \in Workers :
           wpc'[k][v] = IF k = j /\ v = w THEN "have" ELSE wpc[k][v]
  BY DEF JobInv, TypeOK, WorkersOK, Record, WGoto, runner
<1>2. a[1] = j
  BY DEF Account
<1> HIDE DEF a
<1>3. \A k \in Jobs \ {j} : Of(k, late)' = Of(k, late) /\ AtAttempt(k)' = AtAttempt(k)
  BY <1>1, <1>2 DEF Of, AtAttempt
<1>4. AtAttempt(j)' = AtAttempt(j) \ {w} /\ w \in AtAttempt(j)
  BY <1>1 DEF AtAttempt
<1>5. Cardinality(AtAttempt(j)') = Cardinality(AtAttempt(j)) - 1
  BY <1>4, LateSets, FS_RemoveElement
<1>6. cancel[j] => Cardinality(Of(j, late)') <= Cardinality(Of(j, late)) + 1
                   /\ Cardinality(Of(j, late)') \in Nat
  <2>1. SUFFICES ASSUME cancel[j]
                 PROVE  Cardinality(Of(j, late)') <= Cardinality(Of(j, late)) + 1
                        /\ Cardinality(Of(j, late)') \in Nat
    OBVIOUS
  <2>2. Of(j, late)' = Of(j, late) \cup {a}
    BY <1>1, <1>2, <2>1 DEF Of
  <2>3. IsFiniteSet(Of(j, late))
    BY LateSets
  <2>4. IsFiniteSet(Of(j, late) \cup {a}) /\ Cardinality(Of(j, late) \cup {a}) =
          IF a \in Of(j, late) THEN Cardinality(Of(j, late)) ELSE Cardinality(Of(j, late)) + 1
    BY <2>3, FS_AddElement
  <2>5. QED
    BY <2>2, <2>4, LateSets, FS_CardinalityType
<1>7. ~cancel[j] => Of(j, late)' = {}
  BY <1>1 DEF LateInv, Of
<1>8. late' \subseteq ledger'
  BY <1>1 DEF LateInv
<1>9. cancel[j] => Cardinality(Of(j, late)') + Cardinality(AtAttempt(j)') <= NumWorkers
  BY <1>5, <1>6, LateSets, WorkersAssumption DEF LateInv
<1>10. ASSUME NEW k \in Jobs
       PROVE  /\ ~cancel'[k] => Of(k, late)' = {}
              /\ cancel'[k] => Cardinality(Of(k, late)') + Cardinality(AtAttempt(k)') <= NumWorkers
  BY <1>1, <1>3, <1>7, <1>9 DEF LateInv
<1>11. QED
  BY <1>8, <1>10 DEF LateInv

\* A step of a worker but Record, and what it does to the attempts of its job.
LEMMA LateWorker ==
  ASSUME JobInv, LateInv, NEW j \in Jobs, NEW w \in Workers, Worker(j, w), ~Record(j, w)
  PROVE  LateInv'
<1>1. late' = late /\ ledger' = ledger /\ cancel' = cancel
  BY DEF Worker, Take, Begin, Fail, Lose, MintInline, PassRoom, Put, Count, runner, cli, ghosts
<1>2. \E l : wpc' = [wpc EXCEPT ![j][w] = l] /\ (l = "attempt" => ~cancel[j])
  <2>1. ASSUME Begin(j, w)
        PROVE  \E l : wpc' = [wpc EXCEPT ![j][w] = l] /\ (l = "attempt" => ~cancel[j])
    BY <2>1 DEF Begin, MayBegin, Leave, WGoto
  <2>2. ASSUME Fail(j, w) \/ Lose(j, w)
        PROVE  \E l : wpc' = [wpc EXCEPT ![j][w] = l] /\ (l = "attempt" => ~cancel[j])
    BY <2>2 DEF Fail, Lose, TryAgain, Leave, WGoto
  <2>3. ASSUME Take(j, w)
        PROVE  \E l : wpc' = [wpc EXCEPT ![j][w] = l] /\ (l = "attempt" => ~cancel[j])
    <3>1. wpc' = [wpc EXCEPT ![j][w] = "off"] \/ wpc' = [wpc EXCEPT ![j][w] = "loop"]
      BY <2>3 DEF Take, WGoto
    <3>2. QED
      BY <3>1
  <2>4. ASSUME MintInline(j, w) \/ PassRoom(j, w) \/ Put(j, w) \/ Count(j, w)
        PROVE  \E l : wpc' = [wpc EXCEPT ![j][w] = l] /\ (l = "attempt" => ~cancel[j])
    BY <2>4 DEF MintInline, PassRoom, Put, Count, Leave, WGoto
  <2>5. QED
    BY <2>1, <2>2, <2>3, <2>4 DEF Worker
<1>3. \A k \in Jobs : cancel[k] => AtAttempt(k)' \subseteq AtAttempt(k)
  BY <1>2 DEF JobInv, TypeOK, WorkersOK, AtAttempt
<1>4. QED
  BY <1>1, <1>3, LateKept

LEMMA LateRunner ==
  ASSUME JobInv, LateInv, NEW j \in Jobs, Start(j) \/ Runner(j)
  PROVE  LateInv'
<1>1. late' = late /\ ledger' = ledger /\ cancel' = cancel
  BY DEF Start, Runner, Install, PrepareFails, NothingToDo, Prepare, Spawn, Spawned,
         SpawnStopped, Polled, Drain, Mark, Conclude, Restore, cli, ghosts
<1>2. wpc' = wpc \/ wpc' = [wpc EXCEPT ![j][spawned[j] + 1] = "head"]
  BY DEF Start, Runner, Install, PrepareFails, NothingToDo, Prepare, Spawn, Spawned,
         SpawnStopped, Polled, Drain, Mark, Conclude, Restore, workers
<1>3. \A k \in Jobs : AtAttempt(k)' \subseteq AtAttempt(k)
  BY <1>2 DEF JobInv, TypeOK, WorkersOK, AtAttempt
<1>4. QED
  BY <1>1, <1>3, LateKept

LEMMA LateStep == JobInv /\ LateInv /\ [Next]_vars => LateInv'
<1> SUFFICES ASSUME JobInv, LateInv, [Next]_vars PROVE LateInv'
  OBVIOUS
<1>1. ASSUME NEW j \in Jobs, Start(j) \/ Runner(j) PROVE LateInv'
  BY <1>1, LateRunner
<1>2. ASSUME NEW j \in Jobs, StopJob(j) PROVE LateInv'
  BY <1>2, LateStop
<1>3. ASSUME NEW j \in Jobs, NEW w \in Workers, Worker(j, w) PROVE LateInv'
  BY <1>3, LateRecord, LateWorker
<1>4. ASSUME UNCHANGED <<late, ledger, cancel, wpc>> PROVE LateInv'
  BY <1>4, LateKept DEF AtAttempt
<1>5. ASSUME NEW j \in Jobs, NEW m \in MintIds, Minter(j, m) PROVE LateInv'
  BY <1>4, <1>5, MinterFrame DEF runner, workers
<1>6. ASSUME UNCHANGED vars PROVE LateInv'
  BY <1>4, <1>6 DEF vars, runner, workers, cli, ghosts
<1>7. QED
  BY <1>1, <1>2, <1>3, <1>5, <1>6 DEF Next

LEMMA LateInit == Init => LateInv
  BY DEF Init, LateInv, Of

\* However many accounts a job registers at once, a stop lets each of its workers
\* finish the attempt it is in and begin no other: at most one account each is written
\* to the ledger after it.
THEOREM StopBoundedAlways == Spec => []StopBounded
<1>1. JobInv /\ LateInv => StopBounded
  <2> SUFFICES ASSUME JobInv, LateInv, NEW j \in Jobs
               PROVE  Cardinality(Of(j, late)) <= NumWorkers
    BY DEF StopBounded
  <2>1. CASE cancel[j]
    BY <2>1, LateSets, WorkersAssumption DEF LateInv
  <2>2. CASE ~cancel[j]
    BY <2>2, FS_EmptySet, WorkersAssumption DEF LateInv
  <2>3. QED
    BY <2>1, <2>2 DEF JobInv, TypeOK, RunnerOK
<1>2. QED
  BY <1>1, JobInvInit, JobInvStep, LateInit, LateStep, PTL DEF Spec

-----------------------------------------------------------------------------
\* The accounts on a mint queue.

Queued(q) == {q[n] : n \in Held(q)}

LEMMA QueuedEmpty == Queued(<<>>) = {}
  BY DEF Queued, Held

LEMMA QueuedAppend ==
  ASSUME NEW q \in Seq(Items), NEW x \in Items
  PROVE  Queued(Append(q, x)) = Queued(q) \cup ({x} \ {Stop})
<1>1. /\ DOMAIN Append(q, x) = 1 .. Len(q) + 1
      /\ DOMAIN q = 1 .. Len(q)
      /\ Len(q) \in Nat
      /\ \A n \in 1 .. Len(q) : Append(q, x)[n] = q[n]
      /\ Append(q, x)[Len(q) + 1] = x
  OBVIOUS
<1>2. ASSUME NEW a \in Queued(Append(q, x)) PROVE a \in Queued(q) \cup ({x} \ {Stop})
  <2>1. PICK n \in Held(Append(q, x)) : a = Append(q, x)[n]
    BY DEF Queued
  <2>2. CASE n = Len(q) + 1
    BY <1>1, <2>1, <2>2 DEF Held
  <2>3. CASE n # Len(q) + 1
    <3>1. n \in 1 .. Len(q)
      BY <1>1, <2>3 DEF Held
    <3>2. n \in Held(q) /\ a = q[n]
      BY <1>1, <2>1, <3>1 DEF Held
    <3>3. QED
      BY <3>2 DEF Queued
  <2>4. QED
    BY <2>2, <2>3
<1>3. ASSUME NEW a \in Queued(q) PROVE a \in Queued(Append(q, x))
  <2>1. PICK n \in Held(q) : a = q[n]
    BY <1>3 DEF Queued
  <2>2. n \in Held(Append(q, x)) /\ a = Append(q, x)[n]
    BY <1>1, <2>1 DEF Held
  <2>3. QED
    BY <2>2 DEF Queued
<1>4. ASSUME x # Stop PROVE x \in Queued(Append(q, x))
  <2>1. Len(q) + 1 \in Held(Append(q, x))
    BY <1>1, <1>4 DEF Held
  <2>2. QED
    BY <1>1, <2>1 DEF Queued
<1>5. QED
  BY <1>2, <1>3, <1>4

LEMMA QueuedTail ==
  ASSUME NEW q \in Seq(Items), q # <<>>
  PROVE  Queued(q) = Queued(Tail(q)) \cup ({Head(q)} \ {Stop})
<1>1. /\ Len(q) \in Nat \ {0}
      /\ Len(Tail(q)) = Len(q) - 1 /\ Tail(q) \in Seq(Items)
      /\ \A n \in 1 .. Len(Tail(q)) : Tail(q)[n] = q[n + 1]
      /\ Head(q) = q[1]
  BY HeadTailProperties, EmptySeq
<1>2. DOMAIN Tail(q) = 1 .. Len(q) - 1 /\ DOMAIN q = 1 .. Len(q)
  BY <1>1, LenProperties
<1>3. ASSUME NEW a \in Queued(q), a # Head(q) PROVE a \in Queued(Tail(q))
  <2>1. PICK n \in Held(q) : a = q[n]
    BY DEF Queued
  <2>2. n \in 2 .. Len(q)
    BY <1>1, <1>2, <1>3, <2>1 DEF Held
  <2>3. n - 1 \in 1 .. Len(Tail(q)) /\ Tail(q)[n - 1] = q[n]
    BY <1>1, <2>2
  <2>4. n - 1 \in Held(Tail(q))
    BY <1>1, <1>2, <2>1, <2>3 DEF Held
  <2>5. QED
    BY <2>1, <2>3, <2>4 DEF Queued
<1>4. ASSUME NEW a \in Queued(Tail(q)) PROVE a \in Queued(q)
  <2>1. PICK n \in Held(Tail(q)) : a = Tail(q)[n]
    BY DEF Queued
  <2>2. n \in 1 .. Len(q) - 1
    BY <1>2, <2>1 DEF Held
  <2>3. n + 1 \in Held(q) /\ a = q[n + 1]
    BY <1>1, <1>2, <2>1, <2>2 DEF Held
  <2>4. QED
    BY <2>3 DEF Queued
<1>5. ASSUME Head(q) # Stop PROVE Head(q) \in Queued(q)
  <2>1. 1 \in Held(q)
    BY <1>1, <1>2, <1>5 DEF Held
  <2>2. QED
    BY <1>1, <2>1 DEF Queued
<1>6. Stop \notin Queued(q)
  BY DEF Queued, Held
<1>7. QED
  BY <1>3, <1>4, <1>5, <1>6

-----------------------------------------------------------------------------
\* What a step of one job leaves of another.

Same(k) ==
  /\ status'[k] = status[k] /\ cancel'[k] = cancel[k] /\ options'[k] = options[k]
  /\ shown'[k] = shown[k] /\ pc'[k] = pc[k] /\ spawned'[k] = spawned[k]
  /\ tasks'[k] = tasks[k] /\ mintq'[k] = mintq[k]
  /\ wpc'[k] = wpc[k] /\ idx'[k] = idx[k] /\ retry'[k] = retry[k]
  /\ mpc'[k] = mpc[k] /\ mint'[k] = mint[k]
  /\ Of(k, ledger)' = Of(k, ledger)
  /\ Of(k, minted)' = Of(k, minted) /\ Of(k, lost)' = Of(k, lost)

\* The accounts in the hands of the mint workers are those of their job.
Owned == \A j \in Jobs :
  /\ \A a \in Queued(mintq[j]) : a[1] = j
  /\ \A m \in MintIds : mpc[j][m] = "mint" => mint[j][m][1] = j

LEMMA SameRunner ==
  ASSUME JobInv, NEW j \in Jobs, NEW k \in Jobs \ {j}, Start(j) \/ StopJob(j) \/ Runner(j)
  PROVE  Same(k)
<1>1. CASE Start(j) \/ StopJob(j)
  BY <1>1 DEF JobInv, TypeOK, RunnerOK, Start, StopJob, Goto, cli, queues, workers, minters,
              ghosts, Same
<1>2. CASE Install(j) \/ PrepareFails(j) \/ NothingToDo(j) \/ Restore(j) \/ Conclude(j)
  BY <1>2 DEF JobInv, TypeOK, RunnerOK, Install, PrepareFails, NothingToDo, Restore, Conclude,
              Finish, Goto, cli, queues, workers, minters, ghosts, Same
<1>3. CASE Spawned(j) \/ SpawnStopped(j) \/ Polled(j) \/ Drain(j)
  BY <1>3 DEF JobInv, TypeOK, RunnerOK, Spawned, SpawnStopped, Polled, Drain,
              Finish, Goto, cli, queues, workers, minters, ghosts, Same
<1>4. CASE Prepare(j)
  BY <1>4 DEF JobInv, TypeOK, RunnerOK, QueuesOK, MintersOK, Prepare, Goto, workers, Same, Of
<1>5. CASE Spawn(j)
  BY <1>5 DEF JobInv, TypeOK, RunnerOK, WorkersOK, Spawn, cli, queues, minters, ghosts, Same
<1>6. CASE Mark(j)
  BY <1>6 DEF JobInv, TypeOK, RunnerOK, QueuesOK, Mark, Enqueue, cli, workers, minters,
              ghosts, Same
<1>7. QED
  BY <1>1, <1>2, <1>3, <1>4, <1>5, <1>6 DEF Runner

\* What the variables of the workers of another job, and of other workers, are after
\* a step of a worker.
Apart(j, w, k, v) == wpc'[k][v] = wpc[k][v] /\ idx'[k][v] = idx[k][v] /\ retry'[k][v] = retry[k][v]

LEMMA WorkerApart ==
  ASSUME JobInv, NEW j \in Jobs, NEW w \in Workers, Worker(j, w)
  PROVE  /\ \A k \in Jobs \ {j} : wpc'[k] = wpc[k] /\ idx'[k] = idx[k] /\ retry'[k] = retry[k]
         /\ \A v \in Workers \ {w} : Apart(j, w, j, v)
<1>1. \/ UNCHANGED wpc \/ \E l : wpc' = [wpc EXCEPT ![j][w] = l]
  <2>1. CASE Take(j, w)
    <3>1. wpc' = [wpc EXCEPT ![j][w] = "off"] \/ wpc' = [wpc EXCEPT ![j][w] = "loop"]
      BY <2>1 DEF Take, WGoto
    <3>2. QED
      BY <3>1
  <2>2. CASE Begin(j, w) \/ Fail(j, w) \/ Lose(j, w)
    BY <2>2 DEF Begin, Fail, Lose, TryAgain, Leave, WGoto
  <2>3. CASE Record(j, w) \/ MintInline(j, w) \/ PassRoom(j, w) \/ Put(j, w) \/ Count(j, w)
    BY <2>3 DEF Record, MintInline, PassRoom, Put, Count, Leave, WGoto
  <2>4. QED
    BY <2>1, <2>2, <2>3 DEF Worker
<1>2. \/ UNCHANGED idx \/ \E l : idx' = [idx EXCEPT ![j][w] = l]
  <2>1. CASE Take(j, w)
    <3>1. idx' = idx \/ idx' = [idx EXCEPT ![j][w] = Head(tasks[j])]
      BY <2>1 DEF Take
    <3>2. QED
      BY <3>1
  <2>2. CASE Begin(j, w) \/ Fail(j, w) \/ Lose(j, w)
    BY <2>2 DEF Begin, Fail, Lose, TryAgain, Leave
  <2>3. CASE Record(j, w) \/ MintInline(j, w) \/ PassRoom(j, w) \/ Put(j, w) \/ Count(j, w)
    BY <2>3 DEF Record, MintInline, PassRoom, Put, Count, Leave
  <2>4. QED
    BY <2>1, <2>2, <2>3 DEF Worker
<1>3. \/ UNCHANGED retry \/ \E l : retry' = [retry EXCEPT ![j][w] = l]
  <2>1. CASE Take(j, w)
    BY <2>1 DEF Take
  <2>2. CASE Begin(j, w) \/ Fail(j, w) \/ Lose(j, w)
    BY <2>2 DEF Begin, Fail, Lose, TryAgain, Leave
  <2>3. CASE Record(j, w) \/ MintInline(j, w) \/ PassRoom(j, w) \/ Put(j, w) \/ Count(j, w)
    BY <2>3 DEF Record, MintInline, PassRoom, Put, Count, Leave
  <2>4. QED
    BY <2>1, <2>2, <2>3 DEF Worker
<1>4. QED
  BY <1>1, <1>2, <1>3 DEF JobInv, TypeOK, WorkersOK, Apart

LEMMA SameWorker ==
  ASSUME JobInv, NEW j \in Jobs, NEW w \in Workers, Worker(j, w), NEW k \in Jobs \ {j}
  PROVE  Same(k)
<1>1. UNCHANGED <<runner, minters>>
  BY WorkerFrame
<1>2. wpc'[k] = wpc[k] /\ idx'[k] = idx[k] /\ retry'[k] = retry[k]
  BY WorkerApart
<1>3. tasks'[k] = tasks[k] /\ mintq'[k] = mintq[k]
  BY DEF Worker, Take, Begin, Fail, Record, Lose, MintInline, PassRoom, Put, Count, Enqueue,
         queues, JobInv, TypeOK, QueuesOK
<1>4. Account(j, w)[1] = j
  BY DEF Account
<1>5. /\ ledger' = ledger \/ ledger' = ledger \cup {Account(j, w)}
      /\ minted' = minted \/ minted' = minted \cup {Account(j, w)}
      /\ lost' = lost \/ lost' = lost \cup {Account(j, w)}
  BY DEF Worker, Take, Begin, Fail, Record, Lose, MintInline, PassRoom, Put, Count, cli, ghosts
<1>6. /\ Of(k, ledger)' = Of(k, ledger)
      /\ Of(k, minted)' = Of(k, minted) /\ Of(k, lost)' = Of(k, lost)
  BY <1>4, <1>5 DEF Of
<1>7. QED
  BY <1>1, <1>2, <1>3, <1>6 DEF Same, runner, minters

LEMMA SameMinter ==
  ASSUME JobInv, Owned, NEW j \in Jobs, NEW m \in MintIds, Minter(j, m), NEW k \in Jobs \ {j}
  PROVE  Same(k)
<1>1. UNCHANGED <<runner, ledger, tasks, workers, lost>>
  BY MinterFrame
<1>2. mintq'[k] = mintq[k] /\ mpc'[k] = mpc[k] /\ mint'[k] = mint[k]
  BY DEF Minter, TakeMint, Mint, Ack, TakeStop, MGoto, JobInv, TypeOK, QueuesOK, MintersOK,
         queues
<1>3. Of(k, minted)' = Of(k, minted)
  BY DEF Minter, TakeMint, Mint, Ack, TakeStop, Owned, Of, ghosts
<1>4. QED
  BY <1>1, <1>2, <1>3 DEF Same, runner, workers, Of

-----------------------------------------------------------------------------
\* What becomes of the numbers and the accounts of a job.

\* Before the runner has prepared its job, nothing is there.
Unstarted(j) == pc[j] \in Early =>
  /\ tasks[j] = <<>> /\ mintq[j] = <<>> /\ spawned[j] = 0
  /\ ~ThreadsAlive(j) /\ Of(j, ledger) = {}

\* Where an account of the ledger is that is not done with.
AtWorker(j, a) == \E w \in Workers : wpc[j][w] \in {"have", "put"} /\ a = Account(j, w)
InHand(j, a)   == \E m \in MintIds : mpc[j][m] = "mint" /\ a = mint[j][m]
LanePlaced(j) == \A a \in Of(j, ledger) :
  a \in minted \/ a \in lost \/ AtWorker(j, a) \/ a \in Queued(mintq[j]) \/ InHand(j, a)

OwnedBy(j) == /\ \A a \in Queued(mintq[j]) : a[1] = j
              /\ \A m \in MintIds : mpc[j][m] = "mint" => mint[j][m][1] = j

\* A worker that has been started leaves when there is no number left, if not earlier.
NotYet(j) == \A w \in Workers : w > spawned[j] => wpc[j][w] = "off"
Used(j) == ~cancel[j] =>
  /\ pc[j] = "poll" => spawned[j] = NumWorkers
  /\ pc[j] \in {"spawn", "poll"} =>
       \A w \in Workers : w <= spawned[j] /\ wpc[j][w] = "off" => tasks[j] = <<>>

\* A job that mints inline has no use for its mint queue.
Inline(j) == options[j].inline =>
  /\ \A w \in Workers : wpc[j][w] # "put"
  /\ Queued(mintq[j]) = {} /\ \A m \in MintIds : mpc[j][m] = "off"

NoWork(j)    == tasks[j] = <<>> /\ ~WorkersAlive(j)
Settled(j) == Queued(mintq[j]) = {} /\ \A m \in MintIds : mpc[j][m] # "mint"
\* A runner that goes on to the end has waited for all of it.
Winding(j) ==
  /\ ~cancel[j] /\ pc[j] \in {"drain", "mark"} => NoWork(j)
  /\ ~cancel[j] /\ pc[j] = "mark" => Settled(j)
  /\ status[j] = "completed" => NoWork(j) /\ Settled(j)

LaneKept(j) == /\ Unstarted(j) /\ LanePlaced(j) /\ OwnedBy(j) /\ NotYet(j) /\ Used(j)
           /\ Inline(j) /\ Winding(j)
KeptInv == \A j \in Jobs : LaneKept(j)

LEMMA KeptElsewhere ==
  ASSUME NEW k \in Jobs, LaneKept(k), Same(k)
  PROVE  LaneKept(k)'
<1>1. Unstarted(k)' /\ NotYet(k)' /\ Used(k)' /\ Inline(k)' /\ Winding(k)'
  BY DEF LaneKept, Same, Unstarted, NotYet, Used, Inline, Winding, NoWork, Settled, ThreadsAlive,
         WorkersAlive
<1>2. OwnedBy(k)'
  BY DEF LaneKept, Same, OwnedBy
<1>3. LanePlaced(k)'
  <2>1. ASSUME NEW a \in Of(k, ledger)'
        PROVE  a \in minted' \/ a \in lost' \/ AtWorker(k, a)' \/ a \in Queued(mintq[k])'
               \/ InHand(k, a)'
    <3>1. /\ a \in Of(k, ledger)
          /\ a \in minted => a \in minted'
          /\ a \in lost => a \in lost'
      BY DEF Same, Of
    <3>2. AtWorker(k, a)' = AtWorker(k, a) /\ InHand(k, a)' = InHand(k, a)
      BY DEF Same, AtWorker, InHand, Account
    <3>3. QED
      BY <3>1, <3>2 DEF LaneKept, LanePlaced, Same
  <2>2. QED
    BY <2>1 DEF LanePlaced
<1>4. QED
  BY <1>1, <1>2, <1>3 DEF LaneKept

\* A step of the runner, or of a handler, that touches no queue and no thread.
LEMMA KeptQuiet ==
  ASSUME NEW j \in Jobs, LaneKept(j),
         UNCHANGED <<ledger, minted, lost, tasks, mintq, wpc, idx, retry, mpc, mint, spawned>>,
         pc'[j] \in Early => pc[j] \in Early,
         options'[j] = options[j] \/ pc[j] \in Early,
         Used(j)', Winding(j)'
  PROVE  LaneKept(j)'
<1>1. Unstarted(j)' /\ NotYet(j)' /\ OwnedBy(j)'
  BY DEF LaneKept, Unstarted, NotYet, ThreadsAlive, WorkersAlive, OwnedBy, Of
<1>2. LanePlaced(j)'
  BY DEF LaneKept, LanePlaced, AtWorker, InHand, Account, Of
<1>3. Inline(j)'
  BY QueuedEmpty DEF LaneKept, Inline, Unstarted, ThreadsAlive, WorkersAlive
<1>4. QED
  BY <1>1, <1>2, <1>3 DEF LaneKept

\* Such a step that does not end the job, nor leaves its workers behind.
LEMMA KeptOn ==
  ASSUME NEW j \in Jobs, LaneKept(j),
         UNCHANGED <<ledger, minted, lost, tasks, mintq, wpc, idx, retry, mpc, mint, spawned>>,
         pc'[j] \in Early => pc[j] \in Early,
         options'[j] = options[j] \/ pc[j] \in Early,
         cancel'[j] \/ pc'[j] \notin {"spawn", "poll", "drain", "mark"},
         status'[j] # "completed"
  PROVE  LaneKept(j)'
<1>1. Used(j)' /\ Winding(j)'
  BY DEF Used, Winding
<1>2. QED
  BY <1>1, KeptQuiet

LEMMA KeptHandlers ==
  ASSUME JobInv, WrapInv, NEW j \in Jobs, LaneKept(j), Start(j) \/ StopJob(j)
  PROVE  LaneKept(j)'
<1>1. CASE Start(j)
  <2>1. pc'[j] = "start" /\ status'[j] = "queued" /\ pc[j] \in Early
    BY <1>1 DEF Start, Goto, JobInv, TypeOK, RunnerOK, WrapInv, Phase, Early
  <2>2. UNCHANGED <<ledger, minted, lost, tasks, mintq, wpc, idx, retry, mpc, mint, spawned>>
    BY <1>1 DEF Start, cli, queues, workers, minters
  <2>3. QED
    BY <2>1, <2>2, KeptOn
<1>2. CASE StopJob(j)
  <2>1. cancel'[j] /\ status'[j] # "completed" /\ pc'[j] = pc[j] /\ options'[j] = options[j]
    BY <1>2 DEF StopJob, JobInv, TypeOK, RunnerOK
  <2>2. UNCHANGED <<ledger, minted, lost, tasks, mintq, wpc, idx, retry, mpc, mint, spawned>>
    BY <1>2 DEF StopJob, cli, queues, workers, minters, ghosts
  <2>3. QED
    BY <2>1, <2>2, KeptOn
<1>3. QED
  BY <1>1, <1>2

LEMMA KeptQuietRunner ==
  ASSUME JobInv, WrapInv, NEW j \in Jobs, LaneKept(j),
         \/ Install(j) \/ PrepareFails(j) \/ NothingToDo(j) \/ Spawned(j) \/ SpawnStopped(j)
         \/ Polled(j) \/ Drain(j) \/ Conclude(j) \/ Restore(j)
  PROVE  LaneKept(j)'
<1>1. UNCHANGED <<ledger, minted, lost, tasks, mintq, wpc, idx, retry, mpc, mint, spawned>>
  BY DEF Install, PrepareFails, NothingToDo, Spawned, SpawnStopped, Polled, Drain, Conclude,
         Restore, cli, queues, workers, minters, ghosts
<1>2. UNCHANGED <<options, cancel>>
  BY DEF Install, PrepareFails, NothingToDo, Spawned, SpawnStopped, Polled, Drain, Conclude,
         Restore
<1>3. pc[j] \in Working => status[j] = "running"
  BY DEF WrapInv, Phase
<1>4. \A w \in Workers : w \in Nat /\ w <= NumWorkers
  BY WorkersAssumption DEF Workers
<1>5. CASE Install(j) \/ PrepareFails(j)
  <2>1. pc'[j] \in {"prepare", "finally"} /\ status'[j] \in {"running", "failed"}
        /\ pc[j] \in Early
    BY <1>5 DEF Install, PrepareFails, Finish, Goto, JobInv, TypeOK, RunnerOK, Early
  <2>2. QED
    BY <1>1, <1>2, <2>1, KeptOn
<1>6. CASE NothingToDo(j)
  <2>1. pc'[j] = "finally" /\ pc[j] \in Early
    BY <1>6 DEF NothingToDo, Finish, Goto, JobInv, TypeOK, RunnerOK, Early
  <2>2. NoWork(j) /\ Settled(j)
    BY <2>1, QueuedEmpty DEF LaneKept, Unstarted, NoWork, Settled, ThreadsAlive
  <2>3. Used(j)' /\ Winding(j)'
    BY <1>1, <2>1, <2>2 DEF Used, Winding, NoWork, Settled, WorkersAlive
  <2>4. QED
    BY <1>1, <1>2, <2>1, <2>3, KeptQuiet
<1>7. CASE Spawned(j)
  <2>1. /\ pc[j] = "spawn" /\ pc'[j] = "poll" /\ spawned[j] = NumWorkers
        /\ status'[j] = "running"
    BY <1>3, <1>7 DEF Spawned, Goto, JobInv, TypeOK, RunnerOK, Working
  <2>2. Used(j)' /\ Winding(j)'
    BY <1>1, <1>2, <2>1 DEF LaneKept, Used, Winding
  <2>3. QED
    BY <1>1, <1>2, <2>1, <2>2, KeptQuiet DEF Early
<1>8. CASE SpawnStopped(j)
  <2>1. /\ pc'[j] \in {"poll", "finally"} /\ cancel'[j]
        /\ status'[j] \in {"running", "failed"}
    BY <1>2, <1>3, <1>8 DEF SpawnStopped, Finish, Goto, JobInv, TypeOK, RunnerOK, Working
  <2>2. QED
    BY <1>1, <1>2, <2>1, KeptOn DEF Early
<1>9. CASE Polled(j)
  <2>1. /\ pc[j] = "poll" /\ pc'[j] = "drain" /\ status'[j] = "running"
        /\ cancel[j] \/ ~WorkersAlive(j)
    BY <1>3, <1>9 DEF Polled, Goto, JobInv, TypeOK, RunnerOK, Working
  <2>2. ASSUME ~cancel[j] PROVE NoWork(j)
    <3>1. 1 \in Workers /\ 1 <= NumWorkers
      BY WorkersAssumption DEF Workers
    <3>2. spawned[j] = NumWorkers /\ wpc[j][1] = "off"
      BY <2>1, <2>2, <3>1 DEF LaneKept, Used, WorkersAlive
    <3>3. tasks[j] = <<>>
      BY <2>1, <2>2, <3>1, <3>2 DEF LaneKept, Used
    <3>4. QED
      BY <2>1, <2>2, <3>3 DEF NoWork
  <2>3. Used(j)' /\ Winding(j)'
    BY <1>1, <1>2, <2>1, <2>2 DEF Used, Winding, NoWork, WorkersAlive
  <2>4. QED
    BY <1>1, <1>2, <2>1, <2>3, KeptQuiet DEF Early
<1>10. CASE Drain(j)
  <2>1. /\ pc[j] = "drain" /\ pc'[j] = "mark" /\ status'[j] = "running"
        /\ options[j].inline \/ cancel[j] \/ unfinished[j] = 0
    BY <1>3, <1>10 DEF Drain, Drained, Goto, JobInv, TypeOK, RunnerOK, Working
  <2>2. ASSUME ~cancel[j] PROVE NoWork(j) /\ Settled(j)
    <3>1. NoWork(j)
      BY <2>1, <2>2 DEF LaneKept, Winding
    <3>2. CASE options[j].inline
      BY <3>1, <3>2 DEF LaneKept, Inline, Settled
    <3>3. CASE unfinished[j] = 0
      <4>1. mintq[j] = <<>> /\ Minting(j) = {}
        BY <3>3, CountedQueue, CountedBusy
      <4>2. QED
        BY <3>1, <4>1, QueuedEmpty DEF Settled, Minting
    <3>4. QED
      BY <2>1, <2>2, <3>2, <3>3
  <2>3. Used(j)' /\ Winding(j)'
    BY <1>1, <1>2, <2>1, <2>2 DEF Used, Winding, NoWork, Settled, WorkersAlive
  <2>4. QED
    BY <1>1, <1>2, <2>1, <2>3, KeptQuiet DEF Early
<1>11. CASE Conclude(j)
  <2>1. /\ pc[j] = "mark" /\ pc'[j] = "finally"
        /\ status'[j] = IF cancel[j] THEN "stopped" ELSE "completed"
    BY <1>11 DEF Conclude, Finish, Goto, JobInv, TypeOK, RunnerOK
  <2>2. Used(j)' /\ Winding(j)'
    BY <1>1, <1>2, <2>1 DEF LaneKept, Used, Winding, NoWork, Settled, WorkersAlive
  <2>3. QED
    BY <1>1, <1>2, <2>1, <2>2, KeptQuiet DEF Early
<1>12. CASE Restore(j)
  <2>1. pc[j] = "finally" /\ pc'[j] = "over" /\ status'[j] = status[j]
    BY <1>12 DEF Restore, Goto, JobInv, TypeOK, RunnerOK
  <2>2. Used(j)' /\ Winding(j)'
    BY <1>1, <1>2, <2>1 DEF LaneKept, Used, Winding, NoWork, Settled, WorkersAlive
  <2>3. QED
    BY <1>1, <1>2, <2>1, <2>2, KeptQuiet DEF Early
<1>13. QED
  BY <1>5, <1>6, <1>7, <1>8, <1>9, <1>10, <1>11, <1>12

-----------------------------------------------------------------------------
\* The steps of the runner that fill a queue or start threads.

LEMMA KeptPrepare ==
  ASSUME JobInv, WrapInv, NEW j \in Jobs, LaneKept(j), Prepare(j)
  PROVE  LaneKept(j)'
<1>1. /\ pc[j] = "prepare" /\ pc'[j] = "spawn" /\ status'[j] = "running"
      /\ tasks[j] = <<>> /\ mintq[j] = <<>> /\ spawned[j] = 0
      /\ ~ThreadsAlive(j) /\ Of(j, ledger) = {}
  BY DEF Prepare, Goto, JobInv, TypeOK, RunnerOK, WrapInv, Phase, Working, LaneKept, Unstarted, Early
<1>2. /\ UNCHANGED <<options, cancel, spawned, ledger, mintq, wpc, idx, retry>>
      /\ mpc'[j] = [m \in MintIds |-> IF options[j].inline THEN "off" ELSE "get"]
  BY DEF Prepare, workers, JobInv, TypeOK, MintersOK
<1>3. \A w \in Workers : w \in Nat /\ w > 0
  BY WorkersAssumption DEF Workers
<1>4. Unstarted(j)' /\ Winding(j)'
  BY <1>1 DEF Unstarted, Winding, Early
<1>5. LanePlaced(j)'
  BY <1>1, <1>2 DEF LanePlaced, Of
<1>6. NotYet(j)' /\ Used(j)'
  BY <1>1, <1>2, <1>3 DEF LaneKept, NotYet, Used
<1>7. OwnedBy(j)' /\ Inline(j)'
  BY <1>1, <1>2, QueuedEmpty DEF OwnedBy, Inline, ThreadsAlive, WorkersAlive
<1>8. QED
  BY <1>4, <1>5, <1>6, <1>7 DEF LaneKept

LEMMA KeptSpawn ==
  ASSUME JobInv, WrapInv, NEW j \in Jobs, LaneKept(j), Spawn(j)
  PROVE  LaneKept(j)'
<1>1. /\ pc[j] = "spawn" /\ pc' = pc /\ status'[j] = "running"
  BY DEF Spawn, WrapInv, Phase, Working
<1>2. /\ UNCHANGED <<options, cancel, ledger, minted, lost, tasks, mintq, idx, retry, mpc, mint>>
      /\ spawned[j] < NumWorkers /\ spawned[j] \in Nat /\ spawned'[j] = spawned[j] + 1
      /\ \A w \in Workers : wpc'[j][w] = IF w = spawned[j] + 1 THEN "head" ELSE wpc[j][w]
  BY WorkersAssumption
  DEF Spawn, cli, queues, minters, ghosts, JobInv, TypeOK, RunnerOK, WorkersOK, Workers
<1>3. \A w \in Workers : w \in Nat
  BY WorkersAssumption DEF Workers
<1>4. Unstarted(j)' /\ Winding(j)'
  BY <1>1 DEF Unstarted, Winding, Early
<1>5. LanePlaced(j)'
  <2>1. \A w \in Workers : wpc[j][w] \in {"have", "put"} => wpc'[j][w] = wpc[j][w]
    <3>1. \A w \in Workers : w = spawned[j] + 1 => wpc[j][w] = "off"
      BY <1>2, <1>3 DEF LaneKept, NotYet
    <3>2. QED
      BY <1>2, <3>1
  <2>2. \A a : AtWorker(j, a) => AtWorker(j, a)'
    BY <1>2, <2>1 DEF AtWorker, Account
  <2>3. \A a : InHand(j, a) => InHand(j, a)'
    BY <1>2 DEF InHand
  <2>4. QED
    BY <1>2, <2>2, <2>3 DEF LaneKept, LanePlaced, Of
<1>6. NotYet(j)'
  BY <1>2, <1>3 DEF LaneKept, NotYet
<1>7. Used(j)'
  BY <1>1, <1>2, <1>3 DEF LaneKept, Used
<1>8. OwnedBy(j)' /\ Inline(j)'
  BY <1>2 DEF LaneKept, OwnedBy, Inline
<1>9. QED
  BY <1>4, <1>5, <1>6, <1>7, <1>8 DEF LaneKept

LEMMA KeptMark ==
  ASSUME JobInv, WrapInv, NEW j \in Jobs, LaneKept(j), Mark(j)
  PROVE  LaneKept(j)'
<1>1. /\ pc[j] = "mark" /\ pc' = pc /\ status'[j] = "running"
  BY DEF Mark, WrapInv, Phase, Working
<1>2. /\ UNCHANGED <<options, cancel, ledger, minted, lost, tasks, wpc, idx, retry, mpc, mint,
                     spawned>>
      /\ mintq'[j] = Append(mintq[j], Stop) /\ mintq[j] \in Seq(Items)
  BY DEF Mark, Enqueue, cli, workers, minters, ghosts, JobInv, TypeOK, QueuesOK, Items
<1>3. Queued(mintq'[j]) = Queued(mintq[j])
  BY <1>2, QueuedAppend DEF Items
<1>4. Unstarted(j)' /\ NotYet(j)' /\ Used(j)'
  BY <1>1, <1>2 DEF LaneKept, Unstarted, NotYet, Used, Early
<1>5. LanePlaced(j)'
  BY <1>2, <1>3 DEF LaneKept, LanePlaced, AtWorker, InHand, Account, Of
<1>6. OwnedBy(j)' /\ Inline(j)'
  BY <1>2, <1>3 DEF LaneKept, OwnedBy, Inline
<1>7. Winding(j)'
  BY <1>1, <1>2, <1>3 DEF LaneKept, Winding, NoWork, Settled, WorkersAlive
<1>8. QED
  BY <1>4, <1>5, <1>6, <1>7 DEF LaneKept

-----------------------------------------------------------------------------
\* The steps of the workers.

\* What a step of a registration worker has to show for its own account.
LEMMA WorkerPlaces ==
  ASSUME JobInv, NEW j \in Jobs, NEW w \in Workers, LanePlaced(j), Worker(j, w),
         minted \subseteq minted', lost \subseteq lost',
         Queued(mintq[j]) \subseteq Queued(mintq'[j]),
         Of(j, ledger)' \subseteq Of(j, ledger) \cup {Account(j, w)},
         \/ wpc[j][w] \notin {"have", "put"} /\ ledger' = ledger
         \/ Account(j, w) \in minted' \cup lost' \cup Queued(mintq'[j])
         \/ \A a : a = Account(j, w) => AtWorker(j, a)'
  PROVE  LanePlaced(j)'
<1>1. ASSUME NEW a \in Of(j, ledger)'
      PROVE  a \in minted' \/ a \in lost' \/ AtWorker(j, a)' \/ a \in Queued(mintq[j])'
             \/ InHand(j, a)'
  <2>1. CASE a = Account(j, w) /\ ~(wpc[j][w] \notin {"have", "put"} /\ ledger' = ledger)
    BY <2>1
  <2>2. CASE \/ a # Account(j, w)
             \/ wpc[j][w] \notin {"have", "put"} /\ ledger' = ledger
    <3>1. a \in Of(j, ledger)
      BY <2>2 DEF Of
    <3>2. InHand(j, a)' = InHand(j, a)
      BY WorkerFrame DEF InHand, minters
    <3>3. ASSUME AtWorker(j, a) PROVE AtWorker(j, a)'
      <4>1. PICK v \in Workers : wpc[j][v] \in {"have", "put"} /\ a = Account(j, v)
        BY <3>3 DEF AtWorker
      <4>2. v # w
        BY <2>2, <4>1
      <4>3. wpc'[j][v] = wpc[j][v] /\ Account(j, v)' = Account(j, v)
        BY <4>2, WorkerApart DEF Apart, Account
      <4>4. QED
        BY <4>1, <4>3 DEF AtWorker
    <3>4. QED
      BY <3>1, <3>2, <3>3 DEF LanePlaced
  <2>3. QED
    BY <2>1, <2>2
<1>2. QED
  BY <1>1 DEF LanePlaced

\* The rest, a step of a worker keeps as soon as it leaves for a reason.
LEMMA WorkerKeeps ==
  ASSUME JobInv, NEW j \in Jobs, NEW w \in Workers, LaneKept(j), Worker(j, w),
         LanePlaced(j)', OwnedBy(j)', tasks[j] = <<>> => tasks'[j] = <<>>,
         wpc'[j][w] = "off" => cancel[j] \/ tasks[j] = <<>>,
         options[j].inline =>
           wpc'[j][w] # "put" /\ Queued(mintq'[j]) = Queued(mintq[j])
  PROVE  LaneKept(j)'
<1>1. wpc[j][w] # "off"
  BY DEF Worker, Take, Begin, Fail, Record, Lose, MintInline, PassRoom, Put, Count
<1>2. /\ UNCHANGED <<pc, status, cancel, options, spawned, mpc>>
      /\ \A v \in Workers : v # w => wpc'[j][v] = wpc[j][v]
  BY WorkerFrame, WorkerApart DEF runner, minters, Apart
<1>3. pc[j] \notin Early /\ ~NoWork(j)
  BY <1>1 DEF LaneKept, Unstarted, ThreadsAlive, WorkersAlive, NoWork
<1>4. Unstarted(j)' /\ Winding(j)'
  BY <1>2, <1>3 DEF LaneKept, Unstarted, Winding
<1>5. NotYet(j)' /\ Used(j)'
  BY <1>1, <1>2 DEF LaneKept, NotYet, Used
<1>6. Inline(j)'
  BY <1>2 DEF LaneKept, Inline
<1>7. QED
  BY <1>4, <1>5, <1>6 DEF LaneKept

LEMMA KeptWorker ==
  ASSUME JobInv, NEW j \in Jobs, NEW w \in Workers, LaneKept(j), Worker(j, w)
  PROVE  LaneKept(j)'
<1>1. Account(j, w)[1] = j /\ Account(j, w) \in Items /\ Account(j, w) # Stop
  BY AccountType, JobsAssumption DEF Account, Items, Stop
<1>2. mint' = mint /\ mpc' = mpc
  BY WorkerFrame DEF minters
<1>3. LanePlaced(j) /\ OwnedBy(j)
  BY DEF LaneKept
<1>4. CASE Take(j, w)
  <2>1. wpc[j][w] = "head" /\ UNCHANGED <<ledger, minted, lost, mintq>>
    BY <1>4 DEF Take, cli, ghosts
  <2>2. tasks[j] = <<>> => tasks'[j] = <<>>
    BY <1>4 DEF Take
  <2>3. wpc'[j][w] = IF cancel[j] \/ tasks[j] = <<>> THEN "off" ELSE "loop"
    BY <1>4 DEF Take, WGoto, JobInv, TypeOK, WorkersOK
  <2>4. LanePlaced(j)' /\ OwnedBy(j)'
    BY <1>2, <1>3, <2>1, WorkerPlaces DEF Of, OwnedBy
  <2>5. QED
    BY <2>1, <2>2, <2>3, <2>4, WorkerKeeps
<1>5. CASE Begin(j, w) \/ Fail(j, w) \/ Count(j, w)
  <2>1. wpc[j][w] \in {"loop", "attempt", "count"}
        /\ UNCHANGED <<ledger, minted, lost, mintq, tasks>>
    BY <1>5 DEF Begin, Fail, Count, cli, ghosts, queues
  <2>2. \/ wpc'[j][w] \in {"attempt", "head", "loop"}
        \/ wpc'[j][w] = "off" /\ cancel[j]
    BY <1>5 DEF Begin, Fail, Count, MayBegin, TryAgain, Leave, WGoto, JobInv, TypeOK, WorkersOK
  <2>3. LanePlaced(j)' /\ OwnedBy(j)'
    BY <1>2, <1>3, <2>1, WorkerPlaces DEF Of, OwnedBy
  <2>4. QED
    BY <2>1, <2>2, <2>3, WorkerKeeps
<1>6. CASE Record(j, w)
  <2>1. /\ UNCHANGED <<minted, lost, mintq, tasks, idx, retry>>
        /\ ledger' = ledger \cup {Account(j, w)} /\ wpc'[j][w] = "have"
    BY <1>6 DEF Record, WGoto, queues, JobInv, TypeOK, WorkersOK
  <2>2. \A a : a = Account(j, w) => AtWorker(j, a)'
    BY <2>1 DEF AtWorker, Account
  <2>3. LanePlaced(j)' /\ OwnedBy(j)'
    BY <1>2, <1>3, <2>1, <2>2, WorkerPlaces DEF Of, OwnedBy
  <2>4. QED
    BY <2>1, <2>3, WorkerKeeps
<1>7. CASE Lose(j, w)
  <2>1. /\ UNCHANGED <<ledger, minted, mintq, tasks>> /\ lost' = lost \cup {Account(j, w)}
        /\ wpc'[j][w] \in {"loop", "head"}
    BY <1>7 DEF Lose, TryAgain, Leave, WGoto, cli, queues, JobInv, TypeOK, WorkersOK
  <2>2. LanePlaced(j)' /\ OwnedBy(j)'
    BY <1>2, <1>3, <2>1, WorkerPlaces DEF Of, OwnedBy
  <2>3. QED
    BY <2>1, <2>2, WorkerKeeps
<1>8. CASE MintInline(j, w)
  <2>1. /\ UNCHANGED <<ledger, lost, mintq, tasks>> /\ minted' = minted \cup {Account(j, w)}
        /\ wpc'[j][w] = "count"
    BY <1>8 DEF MintInline, WGoto, cli, queues, JobInv, TypeOK, WorkersOK
  <2>2. LanePlaced(j)' /\ OwnedBy(j)'
    BY <1>2, <1>3, <2>1, WorkerPlaces DEF Of, OwnedBy
  <2>3. QED
    BY <2>1, <2>2, WorkerKeeps
<1>9. CASE PassRoom(j, w)
  <2>1. /\ UNCHANGED <<ledger, minted, lost, mintq, tasks, idx, retry>>
        /\ ~options[j].inline /\ wpc'[j][w] = "put"
    BY <1>9 DEF PassRoom, WGoto, cli, queues, ghosts, JobInv, TypeOK, WorkersOK
  <2>2. \A a : a = Account(j, w) => AtWorker(j, a)'
    BY <2>1 DEF AtWorker, Account
  <2>3. LanePlaced(j)' /\ OwnedBy(j)'
    BY <1>2, <1>3, <2>1, <2>2, WorkerPlaces DEF Of, OwnedBy
  <2>4. QED
    BY <2>1, <2>3, WorkerKeeps
<1>10. CASE Put(j, w)
  <2>1. /\ UNCHANGED <<ledger, minted, lost, tasks>>
        /\ mintq'[j] = Append(mintq[j], Account(j, w)) /\ mintq[j] \in Seq(Items)
        /\ wpc[j][w] = "put" /\ wpc'[j][w] = "count"
    BY <1>10 DEF Put, WGoto, Enqueue, cli, ghosts, JobInv, TypeOK, WorkersOK, QueuesOK, Items
  <2>2. Queued(mintq'[j]) = Queued(mintq[j]) \cup {Account(j, w)}
    BY <1>1, <2>1, QueuedAppend
  <2>3. LanePlaced(j)' /\ OwnedBy(j)'
    BY <1>1, <1>2, <1>3, <2>1, <2>2, WorkerPlaces DEF Of, OwnedBy
  <2>4. ~options[j].inline
    BY <2>1 DEF LaneKept, Inline
  <2>5. QED
    BY <2>1, <2>3, <2>4, WorkerKeeps
<1>11. QED
  BY <1>4, <1>5, <1>6, <1>7, <1>8, <1>9, <1>10 DEF Worker

LEMMA KeptMinter ==
  ASSUME JobInv, NEW j \in Jobs, NEW m \in MintIds, LaneKept(j), Minter(j, m)
  PROVE  LaneKept(j)'
<1>1. mpc[j][m] # "off" /\ UNCHANGED <<runner, ledger, tasks, workers, lost>>
  BY MinterFrame DEF Minter, TakeMint, Mint, Ack, TakeStop
<1>2. UNCHANGED <<pc, status, cancel, options, spawned, wpc, idx, retry>>
  BY <1>1 DEF runner, workers
<1>3. pc[j] \notin Early /\ ~options[j].inline
  BY <1>1 DEF LaneKept, Unstarted, ThreadsAlive, Inline
<1>4. Unstarted(j)' /\ NotYet(j)' /\ Used(j)' /\ Inline(j)'
  BY <1>1, <1>2, <1>3 DEF LaneKept, Unstarted, NotYet, Used, Inline
<1>5. /\ mintq[j] \in Seq(Items)
      /\ \A n \in MintIds : n # m => mpc'[j][n] = mpc[j][n] /\ mint'[j][n] = mint[j][n]
  BY DEF Minter, TakeMint, Mint, Ack, TakeStop, MGoto, JobInv, TypeOK, QueuesOK, MintersOK,
         Items
<1>6. NoWork(j)' = NoWork(j)
  BY <1>1, <1>2 DEF NoWork, WorkersAlive
<1>7. CASE TakeMint(j, m)
  <2>1. /\ mintq[j] # <<>> /\ mintq'[j] = Tail(mintq[j]) /\ Head(mintq[j]) # Stop
        /\ mpc'[j][m] = "mint" /\ mint'[j][m] = Head(mintq[j]) /\ minted' = minted
        /\ mpc[j][m] = "get"
    BY <1>7 DEF TakeMint, MGoto, ghosts, JobInv, TypeOK, QueuesOK, MintersOK
  <2>2. Queued(mintq[j]) = Queued(mintq'[j]) \cup {Head(mintq[j])}
    BY <1>5, <2>1, QueuedTail
  <2>3. ~Settled(j)
    BY <2>2 DEF Settled
  <2>4. Winding(j)'
    BY <1>2, <1>6, <2>3 DEF LaneKept, Winding
  <2>5. OwnedBy(j)'
    BY <1>5, <2>1, <2>2 DEF LaneKept, OwnedBy
  <2>6. \A a : InHand(j, a) => InHand(j, a)'
    BY <1>5, <2>1 DEF InHand
  <2>7. \A a : a = Head(mintq[j]) => InHand(j, a)'
    BY <2>1 DEF InHand
  <2>8. LanePlaced(j)'
    BY <1>1, <1>2, <2>1, <2>2, <2>6, <2>7 DEF LaneKept, LanePlaced, Of, AtWorker, Account
  <2>9. QED
    BY <1>4, <2>4, <2>5, <2>8 DEF LaneKept
<1>8. CASE Mint(j, m)
  <2>1. /\ mintq' = mintq /\ mint' = mint /\ minted' = minted \cup {mint[j][m]}
        /\ mpc[j][m] = "mint" /\ mpc'[j][m] = "ack"
    BY <1>8 DEF Mint, MGoto, queues, JobInv, TypeOK, MintersOK
  <2>2. Winding(j)'
    BY <1>2, <1>6, <2>1 DEF LaneKept, Winding, Settled
  <2>3. OwnedBy(j)'
    BY <1>5, <2>1 DEF LaneKept, OwnedBy
  <2>4. \A a : InHand(j, a) => InHand(j, a)' \/ a \in minted'
    BY <1>5, <2>1 DEF InHand
  <2>5. LanePlaced(j)'
    BY <1>1, <1>2, <2>1, <2>4 DEF LaneKept, LanePlaced, Of, AtWorker, Account
  <2>6. QED
    BY <1>4, <2>2, <2>3, <2>5 DEF LaneKept
<1>9. CASE Ack(j, m) \/ TakeStop(j, m)
  <2>1. mpc[j][m] \in {"ack", "get"} /\ mpc'[j][m] \in {"get", "off"} /\ minted' = minted
    BY <1>9 DEF Ack, TakeStop, MGoto, ghosts, JobInv, TypeOK, MintersOK
  <2>2. Queued(mintq'[j]) = Queued(mintq[j])
    <3>1. CASE Ack(j, m)
      BY <3>1 DEF Ack
    <3>2. CASE TakeStop(j, m)
      <4>1. mintq[j] # <<>> /\ mintq'[j] = Tail(mintq[j]) /\ Head(mintq[j]) = Stop
        BY <3>2 DEF TakeStop, JobInv, TypeOK, QueuesOK
      <4>2. Queued(mintq[j]) = Queued(Tail(mintq[j])) \cup ({Stop} \ {Stop})
        BY <1>5, <4>1, QueuedTail
      <4>3. QED
        BY <4>1, <4>2
    <3>3. QED
      BY <1>9, <3>1, <3>2
  <2>3. Winding(j)' /\ OwnedBy(j)'
    BY <1>2, <1>5, <1>6, <2>1, <2>2 DEF LaneKept, Winding, Settled, OwnedBy
  <2>4. \A a : InHand(j, a) => InHand(j, a)'
    BY <1>5, <2>1 DEF InHand
  <2>5. LanePlaced(j)'
    BY <1>1, <1>2, <2>1, <2>2, <2>4 DEF LaneKept, LanePlaced, Of, AtWorker, Account
  <2>6. QED
    BY <1>4, <2>3, <2>5 DEF LaneKept
<1>10. QED
  BY <1>7, <1>8, <1>9 DEF Minter

LEMMA LaneKeptStep ==
  ASSUME JobInv, WrapInv, KeptInv, [Next]_vars
  PROVE  KeptInv'
<1>1. Owned
  BY DEF KeptInv, LaneKept, OwnedBy, Owned
<1>2. ASSUME NEW j \in Jobs, Start(j) \/ StopJob(j) \/ Runner(j) PROVE KeptInv'
  <2>1. LaneKept(j)'
    BY <1>2, KeptHandlers, KeptQuietRunner, KeptPrepare, KeptSpawn, KeptMark
    DEF Runner, KeptInv
  <2>2. ASSUME NEW k \in Jobs, k # j PROVE LaneKept(k)'
    BY <1>2, <2>2, SameRunner, KeptElsewhere DEF KeptInv
  <2>3. QED
    BY <2>1, <2>2 DEF KeptInv
<1>3. ASSUME NEW j \in Jobs, NEW w \in Workers, Worker(j, w) PROVE KeptInv'
  <2>1. LaneKept(j)'
    BY <1>3, KeptWorker DEF KeptInv
  <2>2. ASSUME NEW k \in Jobs, k # j PROVE LaneKept(k)'
    BY <1>3, <2>2, SameWorker, KeptElsewhere DEF KeptInv
  <2>3. QED
    BY <2>1, <2>2 DEF KeptInv
<1>4. ASSUME NEW j \in Jobs, NEW m \in MintIds, Minter(j, m) PROVE KeptInv'
  <2>1. LaneKept(j)'
    BY <1>4, KeptMinter DEF KeptInv
  <2>2. ASSUME NEW k \in Jobs, k # j PROVE LaneKept(k)'
    BY <1>1, <1>4, <2>2, SameMinter, KeptElsewhere DEF KeptInv
  <2>3. QED
    BY <2>1, <2>2 DEF KeptInv
<1>5. ASSUME UNCHANGED vars PROVE KeptInv'
  <2>1. ASSUME NEW k \in Jobs PROVE Same(k)
    BY <1>5 DEF vars, runner, cli, queues, workers, minters, ghosts, Same, Of
  <2>2. QED
    BY <2>1, KeptElsewhere DEF KeptInv
<1>6. QED
  BY <1>2, <1>3, <1>4, <1>5 DEF Next

LEMMA KeptInit == Init => KeptInv
<1> SUFFICES ASSUME Init, NEW j \in Jobs PROVE LaneKept(j)
  BY DEF KeptInv
<1>1. /\ tasks[j] = <<>> /\ mintq[j] = <<>> /\ spawned[j] = 0 /\ ledger = {}
      /\ pc[j] = "none" /\ status[j] = "none"
      /\ \A w \in Workers : wpc[j][w] = "off"
      /\ \A m \in MintIds : mpc[j][m] = "off"
  BY DEF Init
<1>2. QED
  BY <1>1, QueuedEmpty DEF LaneKept, Unstarted, LanePlaced, OwnedBy, NotYet, Used, Inline, Winding,
                           ThreadsAlive, WorkersAlive, Of

\* A job is "completed" only when all its numbers were taken, its workers are gone,
\* and each account it wrote to the ledger was minted or counted as a failure, for
\* any number of workers and minters and any bound on the queue between them.
THEOREM CompletedMeansDoneAlways == Spec => []CompletedMeansDone
<1>1. KeptInv => CompletedMeansDone
  <2> SUFFICES ASSUME KeptInv, NEW j \in Jobs, status[j] = "completed"
               PROVE  /\ tasks[j] = <<>> /\ ~WorkersAlive(j)
                      /\ Of(j, ledger) \subseteq minted \cup lost
    BY DEF CompletedMeansDone
  <2>1. NoWork(j) /\ Settled(j) /\ LanePlaced(j)
    BY DEF KeptInv, LaneKept, Winding
  <2>2. ASSUME NEW a \in Of(j, ledger) PROVE a \in minted \cup lost
    BY <2>1 DEF LanePlaced, NoWork, WorkersAlive, AtWorker, Settled, InHand
  <2>3. QED
    BY <2>1, <2>2 DEF NoWork
<1>2. JobInv => TypeOK
  BY DEF JobInv
<1>3. QED
  BY <1>1, <1>2, JobInvInit, JobInvStep, WrapInit, WrapStep, KeptInit, LaneKeptStep, PTL DEF Spec

-----------------------------------------------------------------------------
\* The numbers of a job and the attempts at them.

\* No two places of D hold the same.
Unrepeated(q, D) == \A n, m \in D : n # m => q[n] # q[m]
NumbersIn(q) == {q[n] : n \in DOMAIN q}

LEMMA WaitsTail ==
  ASSUME NEW q \in Seq(Nat), q # <<>>, Unrepeated(q, DOMAIN q)
  PROVE  /\ Unrepeated(Tail(q), DOMAIN Tail(q))
         /\ NumbersIn(Tail(q)) = NumbersIn(q) \ {Head(q)}
         /\ Head(q) \in NumbersIn(q)
<1>1. /\ Len(q) \in Nat \ {0}
      /\ Len(Tail(q)) = Len(q) - 1 /\ Tail(q) \in Seq(Nat)
      /\ \A n \in 1 .. Len(Tail(q)) : Tail(q)[n] = q[n + 1]
      /\ Head(q) = q[1]
  BY HeadTailProperties, EmptySeq
<1>2. DOMAIN Tail(q) = 1 .. Len(q) - 1 /\ DOMAIN q = 1 .. Len(q)
  BY <1>1, LenProperties
<1>3. \A n \in DOMAIN Tail(q) : n + 1 \in DOMAIN q /\ n + 1 # 1 /\ Tail(q)[n] = q[n + 1]
  BY <1>1, <1>2
<1>4. Unrepeated(Tail(q), DOMAIN Tail(q))
  BY <1>1, <1>2, <1>3 DEF Unrepeated
<1>5. 1 \in DOMAIN q
  BY <1>1, <1>2
<1>6. ASSUME NEW a \in NumbersIn(Tail(q)) PROVE a \in NumbersIn(q) /\ a # Head(q)
  <2>1. PICK n \in DOMAIN Tail(q) : a = Tail(q)[n]
    BY DEF NumbersIn
  <2>2. a = q[n + 1] /\ n + 1 \in DOMAIN q /\ n + 1 # 1
    BY <1>3, <2>1
  <2>3. QED
    BY <1>1, <1>5, <2>2 DEF NumbersIn, Unrepeated
<1>7. ASSUME NEW a \in NumbersIn(q), a # Head(q) PROVE a \in NumbersIn(Tail(q))
  <2>1. PICK n \in DOMAIN q : a = q[n]
    BY DEF NumbersIn
  <2>2. n - 1 \in DOMAIN Tail(q) /\ (n - 1) + 1 = n
    BY <1>1, <1>2, <1>7, <2>1
  <2>3. QED
    BY <1>3, <2>1, <2>2 DEF NumbersIn
<1>8. QED
  BY <1>1, <1>4, <1>5, <1>6, <1>7 DEF NumbersIn

\* A worker that has a number, and one that has a registered account besides.
Engaged(j, w)  == wpc[j][w] \in {"loop", "attempt", "have", "put", "count"}
ToCount(j, w) == wpc[j][w] \in {"have", "put", "count"}

\* No number is given twice.
NumberedOnce(j) ==
  /\ Unrepeated(tasks[j], DOMAIN tasks[j])
  /\ \A v, w \in Workers : v # w /\ Engaged(j, v) /\ Engaged(j, w) => idx[j][v] # idx[j][w]
  /\ \A a \in Of(j, ledger) : a[2] \notin NumbersIn(tasks[j])

\* What a worker has registered under its number was registered by earlier attempts, if
\* it is not the account it has.
LaneTracked(j, w) == Engaged(j, w) =>
  /\ idx[j][w] \notin NumbersIn(tasks[j])
  /\ \A a \in Of(j, ledger) : a[2] = idx[j][w] =>
       a[3] < retry[j][w] \/ (ToCount(j, w) /\ a = Account(j, w))
  /\ \A a \in Of(j, lost) : a[2] = idx[j][w] => a[3] < retry[j][w]
  /\ ToCount(j, w) => Account(j, w) \in ledger

Ordered(j) == NumberedOnce(j) /\ \A w \in Workers : LaneTracked(j, w)
OrderInv == \A j \in Jobs : Ordered(j)

\* What is minted or counted as a failure was written to the ledger, and no account is
\* in two places: minted, on the queue, with a mint worker, or with a worker that still
\* has to hand it over.
OnceOnly(j) ==
  /\ Of(j, minted) \subseteq ledger /\ Of(j, lost) \subseteq ledger
  /\ Unrepeated(mintq[j], Held(mintq[j]))
  /\ \A a \in Queued(mintq[j]) : a \in ledger /\ a \notin minted
  /\ \A a : InHand(j, a) => a \in ledger /\ a \notin minted /\ a \notin Queued(mintq[j])
  /\ \A m, n \in MintIds :
       m # n /\ mpc[j][m] = "mint" /\ mpc[j][n] = "mint" => mint[j][m] # mint[j][n]
  /\ \A a : AtWorker(j, a) =>
       a \notin minted /\ a \notin Queued(mintq[j]) /\ ~InHand(j, a)
OnceInv == \A j \in Jobs : OnceOnly(j)

LEMMA OrderElsewhere ==
  ASSUME NEW k \in Jobs, Ordered(k), tasks'[k] = tasks[k], wpc'[k] = wpc[k],
         idx'[k] = idx[k], retry'[k] = retry[k],
         Of(k, ledger)' = Of(k, ledger), Of(k, lost)' = Of(k, lost)
  PROVE  Ordered(k)'
<1>1. NumberedOnce(k)'
  BY DEF Ordered, NumberedOnce, Engaged
<1>2. ASSUME NEW w \in Workers PROVE LaneTracked(k, w)'
  <2>1. /\ LaneTracked(k, w) /\ Account(k, w)' = Account(k, w)
        /\ Engaged(k, w)' = Engaged(k, w) /\ ToCount(k, w)' = ToCount(k, w)
    BY DEF Ordered, Account, Engaged, ToCount
  <2>2. (Account(k, w) \in ledger')  = (Account(k, w) \in ledger)
    BY DEF Of, Account
  <2>3. QED
    BY <2>1, <2>2 DEF LaneTracked
<1>3. QED
  BY <1>1, <1>2 DEF Ordered

\* The steps of the runner.
LEMMA OrderRunner ==
  ASSUME JobInv, NEW j \in Jobs, LaneKept(j), Ordered(j), Start(j) \/ StopJob(j) \/ Runner(j)
  PROVE  Ordered(j)'
<1>1. CASE Prepare(j)
  <2>1. pc[j] \in Early /\ tasks'[j] = Numbers(j) /\ UNCHANGED <<wpc, ledger>>
    BY <1>1 DEF Prepare, Early, workers, JobInv, TypeOK, QueuesOK
  <2>2. Of(j, ledger)' = {} /\ \A w \in Workers : wpc'[j][w] = "off"
    BY <2>1 DEF LaneKept, Unstarted, ThreadsAlive, WorkersAlive, Of
  <2>3. Unrepeated(Numbers(j), DOMAIN Numbers(j))
    <3>1. Cardinality(ledger) \in Nat
      BY FS_CardinalityType DEF JobInv
    <3>2. Remaining(j) \in Nat
      BY <3>1 , OptionsAssumption DEF Remaining, JobInv, TypeOK, RunnerOK
    <3>3. QED
      BY <3>1, <3>2 DEF Unrepeated, Numbers
  <2>4. QED
    BY <2>1, <2>2, <2>3 DEF Ordered, NumberedOnce, LaneTracked, Engaged
<1>2. CASE Spawn(j)
  <2>1. /\ UNCHANGED <<tasks, idx, retry, ledger, lost>>
        /\ \A w \in Workers : wpc'[j][w] = "head" \/ wpc'[j][w] = wpc[j][w]
    BY <1>2 DEF Spawn, cli, queues, ghosts, JobInv, TypeOK, WorkersOK
  <2>2. \A w \in Workers : Engaged(j, w)' => wpc'[j][w] = wpc[j][w]
    BY <2>1 DEF Engaged
  <2>3. QED
    BY <2>1, <2>2 DEF Ordered, NumberedOnce, LaneTracked, Engaged, ToCount, Account, Of
<1>3. CASE ~Prepare(j) /\ ~Spawn(j)
  <2>1. UNCHANGED <<tasks, wpc, idx, retry, ledger, lost>>
    BY <1>3 DEF Start, StopJob, Runner, Install, PrepareFails, NothingToDo, Spawned,
                SpawnStopped, Polled, Drain, Mark, Enqueue, Conclude, Restore, cli, queues,
                workers, ghosts
  <2>2. QED
    BY <2>1, OrderElsewhere DEF Of
<1>4. QED
  BY <1>1, <1>2, <1>3

LEMMA OrderOthers ==
  ASSUME JobInv, NEW j \in Jobs, NEW w \in Workers, Ordered(j), Worker(j, w),
         NumbersIn(tasks'[j]) \subseteq NumbersIn(tasks[j]),
         Unrepeated(tasks'[j], DOMAIN tasks'[j]),
         ledger \subseteq ledger',
         Of(j, ledger)' \subseteq Of(j, ledger) \cup {Account(j, w)},
         Of(j, lost)' \subseteq Of(j, lost) \cup {Account(j, w)},
         \/ Engaged(j, w) /\ (Engaged(j, w)' => idx'[j][w] = idx[j][w])
         \/ ledger' = ledger /\ lost' = lost /\ idx'[j][w] \in NumbersIn(tasks[j])
         \/ ledger' = ledger /\ lost' = lost /\ ~Engaged(j, w)',
         LaneTracked(j, w)'
  PROVE  Ordered(j)'
<1>1. \A v \in Workers \ {w} : Apart(j, w, j, v)
  BY WorkerApart
<1>2. Account(j, w)[2] = idx[j][w]
  BY DEF Account
<1>3. ASSUME NEW v \in Workers, v # w PROVE LaneTracked(j, v)'
  <2>1. /\ LaneTracked(j, v) /\ Account(j, v)' = Account(j, v)
        /\ Engaged(j, v)' = Engaged(j, v) /\ ToCount(j, v)' = ToCount(j, v)
        /\ idx'[j][v] = idx[j][v] /\ retry'[j][v] = retry[j][v]
    BY <1>1, <1>3 DEF Apart, Ordered, Account, Engaged, ToCount
  <2>2. Engaged(j, v) /\ Engaged(j, w) => idx[j][v] # idx[j][w]
    BY <1>3 DEF Ordered, NumberedOnce
  <2>3. ASSUME Engaged(j, v), NEW a \in Of(j, ledger)', a[2] = idx[j][v]
        PROVE  a \in Of(j, ledger)
    BY <1>2, <2>2, <2>3 DEF Of
  <2>4. ASSUME Engaged(j, v), NEW a \in Of(j, lost)', a[2] = idx[j][v]
        PROVE  a \in Of(j, lost)
    BY <1>2, <2>2, <2>4 DEF Of
  <2>5. QED
    BY <2>1, <2>3, <2>4 DEF LaneTracked
<1>4. ASSUME NEW a \in Of(j, ledger)' PROVE a[2] \notin NumbersIn(tasks'[j])
  <2>1. CASE a \in Of(j, ledger)
    BY <2>1 DEF Ordered, NumberedOnce
  <2>2. CASE a = Account(j, w) /\ Engaged(j, w)
    BY <1>2, <2>2 DEF Ordered, LaneTracked
  <2>3. QED
    BY <2>1, <2>2 DEF Of
<1>5. ASSUME NEW v \in Workers, v # w, Engaged(j, v)', Engaged(j, w)'
      PROVE  idx'[j][v] # idx'[j][w]
  <2>1. /\ Engaged(j, v) /\ idx'[j][v] = idx[j][v]
    BY <1>1, <1>5 DEF Apart, Engaged
  <2>2. Engaged(j, w) => idx[j][v] # idx[j][w]
    BY <1>5, <2>1 DEF Ordered, NumberedOnce
  <2>3. idx[j][v] \notin NumbersIn(tasks[j])
    BY <2>1 DEF Ordered, LaneTracked
  <2>4. QED
    BY <1>5, <2>1, <2>2, <2>3
<1>6. \A u, v \in Workers : u # w /\ v # w /\ u # v /\ Engaged(j, u)' /\ Engaged(j, v)' =>
        idx'[j][u] # idx'[j][v]
  BY <1>1 DEF Apart, Engaged, Ordered, NumberedOnce
<1>7. NumberedOnce(j)'
  <2>1. \A u, v \in Workers : u # v /\ Engaged(j, u)' /\ Engaged(j, v)' =>
          idx'[j][u] # idx'[j][v]
    BY <1>5, <1>6
  <2>2. QED
    BY <1>4, <2>1 DEF NumberedOnce
<1>8. QED
  BY <1>3, <1>7 DEF Ordered

LEMMA OrderWorker ==
  ASSUME JobInv, NEW j \in Jobs, NEW w \in Workers, Ordered(j), OnceOnly(j), Worker(j, w)
  PROVE  Ordered(j)'
<1>1. /\ Of(j, ledger) \subseteq Accounts /\ Of(j, lost) \subseteq Accounts
      /\ retry[j][w] \in {0, 1}
      /\ tasks[j] \in Seq(Nat) /\ Unrepeated(tasks[j], DOMAIN tasks[j])
      /\ LaneTracked(j, w) /\ Account(j, w)[1] = j
  BY DEF JobInv, TypeOK, CliOK, WorkersOK, QueuesOK, GhostsOK, Ordered, NumberedOnce, Of, Account
<1>2. \A a \in Accounts : ~(a[3] < 0) /\ (a[3] = 0 => a[3] < 1)
  BY DEF Accounts
<1>3. CASE Take(j, w)
  <2>1. /\ UNCHANGED <<ledger, lost, retry>> /\ wpc[j][w] = "head"
        /\ IF cancel[j] \/ tasks[j] = <<>>
           THEN wpc'[j][w] = "off" /\ tasks' = tasks
           ELSE wpc'[j][w] = "loop" /\ idx'[j][w] = Head(tasks[j])
                /\ tasks'[j] = Tail(tasks[j])
    BY <1>3 DEF Take, WGoto, cli, ghosts, JobInv, TypeOK, WorkersOK, QueuesOK
  <2>2. CASE cancel[j] \/ tasks[j] = <<>>
    <3>1. ~Engaged(j, w)'
      BY <2>1, <2>2 DEF Engaged
    <3>2. QED
      BY <1>1, <2>1, <2>2, <3>1, OrderOthers DEF Of, LaneTracked
  <2>3. CASE ~cancel[j] /\ tasks[j] # <<>>
    <3>1. /\ NumbersIn(tasks'[j]) = NumbersIn(tasks[j]) \ {Head(tasks[j])}
          /\ Unrepeated(tasks'[j], DOMAIN tasks'[j]) /\ Head(tasks[j]) \in NumbersIn(tasks[j])
      BY <1>1, <2>1, <2>3, WaitsTail
    <3>2. \A a \in Of(j, ledger) : a[2] # Head(tasks[j])
      BY <3>1 DEF Ordered, NumberedOnce
    <3>3. Of(j, lost) \subseteq Of(j, ledger)
      BY DEF OnceOnly, Of
    <3>4. LaneTracked(j, w)'
      BY <2>1, <2>3, <3>1, <3>2, <3>3 DEF LaneTracked, Of, Engaged, ToCount
    <3>5. QED
      BY <2>1, <2>3, <3>1, <3>4, OrderOthers DEF Of
  <2>4. QED
    BY <2>2, <2>3
<1>4. CASE Record(j, w)
  <2>1. /\ UNCHANGED <<tasks, idx, retry, lost>> /\ ledger' = ledger \cup {Account(j, w)}
        /\ wpc[j][w] = "attempt" /\ wpc'[j][w] = "have"
    BY <1>4 DEF Record, WGoto, queues, JobInv, TypeOK, WorkersOK
  <2>2. Engaged(j, w) /\ Account(j, w)' = Account(j, w) /\ ToCount(j, w)'
    BY <2>1 DEF Engaged, Account, ToCount
  <2>3. LaneTracked(j, w)'
    BY <1>1, <2>1, <2>2 DEF LaneTracked, Of, ToCount
  <2>4. QED
    BY <1>1, <2>1, <2>2, <2>3, OrderOthers DEF Of
<1>5. CASE Lose(j, w)
  <2>1. /\ UNCHANGED <<tasks, ledger>> /\ lost' = lost \cup {Account(j, w)}
        /\ wpc[j][w] = "have"
        /\ \/ wpc'[j][w] = "head"
           \/ wpc'[j][w] = "loop" /\ retry[j][w] = 0 /\ retry'[j][w] = 1 /\ idx' = idx
    BY <1>5 DEF Lose, TryAgain, Leave, WGoto, cli, queues, JobInv, TypeOK, WorkersOK
  <2>2. Engaged(j, w) /\ (Engaged(j, w)' => idx'[j][w] = idx[j][w])
    BY <2>1 DEF Engaged
  <2>3. Account(j, w) \in Accounts /\ Account(j, w)[3] = retry[j][w]
    BY AccountType DEF Account
  <2>4. ASSUME Engaged(j, w)' PROVE LaneTracked(j, w)'
    <3>1. retry[j][w] = 0 /\ retry'[j][w] = 1 /\ idx'[j][w] = idx[j][w]
      BY <2>1, <2>4 DEF Engaged
    <3>2. \A a \in Of(j, ledger) : a[2] = idx[j][w] => a = Account(j, w)
      BY <1>1, <1>2, <2>2, <3>1 DEF LaneTracked
    <3>3. \A a \in Of(j, lost)' : a[2] = idx[j][w] => a = Account(j, w)
      BY <1>1, <1>2, <2>1, <2>2, <3>1 DEF LaneTracked, Of
    <3>4. Account(j, w)[3] < 1
      BY <1>2, <2>3, <3>1
    <3>5. ~ToCount(j, w)'
      BY <2>1, <2>4 DEF ToCount, Engaged
    <3>6. QED
      BY <1>1, <2>1, <2>2, <3>1, <3>2, <3>3, <3>4, <3>5 DEF LaneTracked, Of
  <2>5. LaneTracked(j, w)'
    BY <2>4 DEF LaneTracked
  <2>6. QED
    BY <1>1, <2>1, <2>2, <2>5, OrderOthers DEF Of
<1>6. CASE Begin(j, w) \/ Fail(j, w)
  <2>1. /\ UNCHANGED <<tasks, ledger, lost>> /\ wpc[j][w] \in {"loop", "attempt"}
        /\ \/ wpc'[j][w] \in {"head", "off"}
           \/ wpc'[j][w] = "attempt" /\ retry' = retry /\ idx' = idx
           \/ wpc'[j][w] = "loop" /\ retry[j][w] = 0 /\ retry'[j][w] = 1 /\ idx' = idx
    BY <1>6 DEF Begin, Fail, TryAgain, Leave, WGoto, cli, queues, ghosts, JobInv, TypeOK,
                WorkersOK
  <2>2. Engaged(j, w) /\ (Engaged(j, w)' => idx'[j][w] = idx[j][w])
    BY <2>1 DEF Engaged
  <2>3. ASSUME Engaged(j, w)' PROVE LaneTracked(j, w)'
    <3>1. \A a \in Accounts : a[3] < retry[j][w] => a[3] < retry'[j][w]
      BY <1>2, <2>1, <2>3 DEF Engaged
    <3>2. ~ToCount(j, w) /\ ~ToCount(j, w)' /\ idx'[j][w] = idx[j][w]
      BY <2>1, <2>3 DEF ToCount, Engaged
    <3>3. QED
      BY <1>1, <2>1, <2>2, <3>1, <3>2 DEF LaneTracked, Of
  <2>4. LaneTracked(j, w)'
    BY <2>3 DEF LaneTracked
  <2>5. QED
    BY <1>1, <2>1, <2>2, <2>4, OrderOthers DEF Of
<1>7. CASE MintInline(j, w) \/ PassRoom(j, w) \/ Put(j, w) \/ Count(j, w)
  <2>1. /\ UNCHANGED <<tasks, ledger, lost>> /\ ToCount(j, w)
        /\ \/ wpc'[j][w] = "head"
           \/ wpc'[j][w] \in {"put", "count"} /\ retry' = retry /\ idx' = idx
    BY <1>7 DEF MintInline, PassRoom, Put, Enqueue, Count, Leave, WGoto, cli, queues, ghosts,
                JobInv, TypeOK, WorkersOK, ToCount
  <2>2. Engaged(j, w) /\ (Engaged(j, w)' => idx'[j][w] = idx[j][w])
    BY <2>1 DEF Engaged, ToCount
  <2>3. LaneTracked(j, w)'
    BY <1>1, <2>1, <2>2 DEF LaneTracked, Of, Engaged, ToCount, Account
  <2>4. QED
    BY <1>1, <2>1, <2>2, <2>3, OrderOthers DEF Of
<1>8. QED
  BY <1>3, <1>4, <1>5, <1>6, <1>7 DEF Worker

-----------------------------------------------------------------------------
\* No account is in two places.

LEMMA UnrepeatedAppend ==
  ASSUME NEW q \in Seq(Items), NEW x \in Items, Unrepeated(q, Held(q)),
         x = Stop \/ x \notin Queued(q)
  PROVE  Unrepeated(Append(q, x), Held(Append(q, x)))
<1>1. /\ DOMAIN Append(q, x) = 1 .. Len(q) + 1
      /\ DOMAIN q = 1 .. Len(q)
      /\ Len(q) \in Nat
      /\ \A n \in 1 .. Len(q) : Append(q, x)[n] = q[n]
      /\ Append(q, x)[Len(q) + 1] = x
  OBVIOUS
<1>2. \A n \in Held(Append(q, x)) :
        \/ n \in Held(q) /\ Append(q, x)[n] = q[n]
        \/ n = Len(q) + 1 /\ x # Stop
  BY <1>1 DEF Held
<1>3. \A n \in Held(q) : q[n] \in Queued(q)
  BY DEF Queued
<1>4. QED
  BY <1>1, <1>2, <1>3 DEF Unrepeated

LEMMA UnrepeatedTail ==
  ASSUME NEW q \in Seq(Items), q # <<>>, Unrepeated(q, Held(q))
  PROVE  /\ Unrepeated(Tail(q), Held(Tail(q)))
         /\ Head(q) # Stop => Head(q) \notin Queued(Tail(q))
<1>1. /\ Len(q) \in Nat \ {0}
      /\ Len(Tail(q)) = Len(q) - 1 /\ Tail(q) \in Seq(Items)
      /\ \A n \in 1 .. Len(Tail(q)) : Tail(q)[n] = q[n + 1]
      /\ Head(q) = q[1]
  BY HeadTailProperties, EmptySeq
<1>2. DOMAIN Tail(q) = 1 .. Len(q) - 1 /\ DOMAIN q = 1 .. Len(q)
  BY <1>1, LenProperties
<1>3. \A n \in Held(Tail(q)) :
        n \in Nat /\ n + 1 \in Held(q) /\ n + 1 # 1 /\ Tail(q)[n] = q[n + 1]
  BY <1>1, <1>2 DEF Held
<1>4. Unrepeated(Tail(q), Held(Tail(q)))
  <2>1. ASSUME NEW n \in Held(Tail(q)), NEW m \in Held(Tail(q)), n # m
        PROVE  Tail(q)[n] # Tail(q)[m]
    <3>1. n + 1 # m + 1 /\ n + 1 \in Held(q) /\ m + 1 \in Held(q)
      BY <1>3, <2>1
    <3>2. q[n + 1] # q[m + 1]
      BY <3>1 DEF Unrepeated
    <3>3. QED
      BY <1>3, <3>2
  <2>2. QED
    BY <2>1 DEF Unrepeated
<1>5. ASSUME Head(q) # Stop, Head(q) \in Queued(Tail(q)) PROVE FALSE
  <2>1. PICK n \in Held(Tail(q)) : Head(q) = Tail(q)[n]
    BY <1>5 DEF Queued
  <2>2. 1 \in Held(q)
    BY <1>1, <1>2, <1>5 DEF Held
  <2>3. QED
    BY <1>1, <1>3, <2>1, <2>2 DEF Unrepeated
<1>6. QED
  BY <1>4, <1>5

LEMMA OnceElsewhere ==
  ASSUME NEW k \in Jobs, LaneKept(k), OnceOnly(k), Same(k)
  PROVE  OnceOnly(k)'
<1>1. /\ \A a : AtWorker(k, a)' = AtWorker(k, a)
      /\ \A a : InHand(k, a)' = InHand(k, a)
      /\ Queued(mintq'[k]) = Queued(mintq[k])
  BY DEF Same, AtWorker, InHand, Account
<1>2. \A a : a[1] = k => /\ a \in ledger' <=> a \in ledger
                         /\ a \in minted' <=> a \in minted
  BY DEF Same, Of
<1>3. /\ \A a \in Queued(mintq[k]) : a[1] = k
      /\ \A a : AtWorker(k, a) => a[1] = k
      /\ \A a : InHand(k, a) => a[1] = k
  BY DEF LaneKept, OwnedBy, AtWorker, InHand, Account
<1>4. Of(k, minted)' \subseteq ledger' /\ Of(k, lost)' \subseteq ledger'
  BY <1>2 DEF OnceOnly, Same, Of
<1>5. QED
  BY <1>1, <1>2, <1>3, <1>4 DEF OnceOnly, Same

\* A step by which no account is minted, and none gets on the queue or to a mint worker.
LEMMA OnceQuiet ==
  ASSUME NEW j \in Jobs, OnceOnly(j), minted' = minted, ledger \subseteq ledger',
         Of(j, lost)' \subseteq ledger',
         Queued(mintq'[j]) = Queued(mintq[j]), Unrepeated(mintq'[j], Held(mintq'[j])),
         \A m \in MintIds : mpc'[j][m] = "mint" =>
           mpc[j][m] = "mint" /\ mint'[j][m] = mint[j][m],
         \A a : AtWorker(j, a)' => AtWorker(j, a) \/ a \notin ledger
  PROVE  OnceOnly(j)'
<1>1. \A a : InHand(j, a)' => InHand(j, a)
  BY DEF InHand
<1>2. ASSUME NEW a, AtWorker(j, a)'
      PROVE  a \notin minted' /\ a \notin Queued(mintq'[j]) /\ ~InHand(j, a)'
  <2>1. a[1] = j
    BY <1>2 DEF AtWorker, Account
  <2>2. QED
    BY <1>1, <1>2, <2>1 DEF OnceOnly, Of
<1>3. Of(j, minted)' \subseteq ledger'
  BY DEF OnceOnly, Of
<1>4. QED
  BY <1>1, <1>2, <1>3 DEF OnceOnly

LEMMA OnceRunner ==
  ASSUME JobInv, NEW j \in Jobs, OnceOnly(j), Start(j) \/ StopJob(j) \/ Runner(j)
  PROVE  OnceOnly(j)'
<1>1. UNCHANGED <<minted, ledger, lost, idx, retry, mint>>
  BY DEF Start, StopJob, Runner, Install, PrepareFails, NothingToDo, Prepare, Spawn, Spawned,
         SpawnStopped, Polled, Drain, Mark, Conclude, Restore, cli, workers, minters, ghosts
<1>2. Queued(mintq'[j]) = Queued(mintq[j]) /\ Unrepeated(mintq'[j], Held(mintq'[j]))
  <2>1. CASE Mark(j)
    <3>1. mintq'[j] = Append(mintq[j], Stop) /\ mintq[j] \in Seq(Items)
      BY <2>1 DEF Mark, Enqueue, JobInv, TypeOK, QueuesOK, Items
    <3>2. Queued(mintq'[j]) = Queued(mintq[j])
      BY <3>1, QueuedAppend DEF Items
    <3>3. Unrepeated(mintq[j], Held(mintq[j]))
      BY DEF OnceOnly
    <3>4. Unrepeated(mintq'[j], Held(mintq'[j]))
      BY <3>1, <3>3, UnrepeatedAppend DEF Items
    <3>5. QED
      BY <3>2, <3>4
  <2>2. CASE ~Mark(j)
    <3>1. mintq' = mintq
      BY <2>2 DEF Start, StopJob, Runner, Install, PrepareFails, NothingToDo, Prepare, Spawn,
                  Spawned, SpawnStopped, Polled, Drain, Conclude, Restore, queues
    <3>2. QED
      BY <3>1 DEF OnceOnly
  <2>3. QED
    BY <2>1, <2>2
<1>3. \A m \in MintIds : mpc'[j][m] = "mint" => mpc[j][m] = "mint"
  <2>1. CASE Prepare(j)
    BY <2>1 DEF Prepare, JobInv, TypeOK, MintersOK
  <2>2. CASE ~Prepare(j)
    BY <2>2 DEF Start, StopJob, Runner, Install, PrepareFails, NothingToDo, Spawn, Spawned,
                SpawnStopped, Polled, Drain, Mark, Conclude, Restore, minters
  <2>3. QED
    BY <2>1, <2>2
<1>4. \A w \in Workers : wpc'[j][w] \in {"have", "put"} => wpc'[j][w] = wpc[j][w]
  <2>1. CASE Spawn(j)
    BY <2>1 DEF Spawn, JobInv, TypeOK, WorkersOK
  <2>2. CASE ~Spawn(j)
    BY <2>2 DEF Start, StopJob, Runner, Install, PrepareFails, NothingToDo, Prepare, Spawned,
                SpawnStopped, Polled, Drain, Mark, Conclude, Restore, workers
  <2>3. QED
    BY <2>1, <2>2
<1>5. \A a : AtWorker(j, a)' => AtWorker(j, a)
  BY <1>1, <1>4 DEF AtWorker, Account
<1>6. Of(j, lost)' \subseteq ledger'
  BY <1>1 DEF OnceOnly, Of
<1>7. QED
  BY <1>1, <1>2, <1>3, <1>5, <1>6, OnceQuiet

\* The account of a worker is with no other worker.
LEMMA Handover ==
  ASSUME JobInv, NEW j \in Jobs, NEW w \in Workers, Ordered(j), Worker(j, w),
         wpc[j][w] \in {"have", "put"}, wpc'[j][w] \notin {"have", "put"}
  PROVE  \A a : AtWorker(j, a)' => AtWorker(j, a) /\ a # Account(j, w)
<1> SUFFICES ASSUME NEW a, AtWorker(j, a)' PROVE AtWorker(j, a) /\ a # Account(j, w)
  OBVIOUS
<1>1. PICK v \in Workers : wpc'[j][v] \in {"have", "put"} /\ a = Account(j, v)'
  BY DEF AtWorker
<1>2. v # w
  BY <1>1
<1>3. wpc'[j][v] = wpc[j][v] /\ a = Account(j, v)
  BY <1>1, <1>2, WorkerApart DEF Apart, Account
<1>4. idx[j][v] # idx[j][w]
  BY <1>1, <1>2, <1>3 DEF Ordered, NumberedOnce, Engaged
<1>5. QED
  BY <1>1, <1>3, <1>4 DEF AtWorker, Account

LEMMA OnceWorker ==
  ASSUME JobInv, NEW j \in Jobs, NEW w \in Workers, LaneKept(j), Ordered(j), OnceOnly(j),
         Worker(j, w)
  PROVE  OnceOnly(j)'
<1>1. mint' = mint /\ mpc' = mpc
  BY WorkerFrame DEF minters
<1>2. Account(j, w)[1] = j /\ Account(j, w) \in Items /\ Account(j, w) # Stop
  BY AccountType, JobsAssumption DEF Account, Items, Stop
<1>3. \A v \in Workers \ {w} : Apart(j, w, j, v)
  BY WorkerApart
<1>4. LaneTracked(j, w)
  BY DEF Ordered
<1>5. \A a : InHand(j, a)' = InHand(j, a)
  BY <1>1 DEF InHand
<1>6. CASE Take(j, w) \/ Begin(j, w) \/ Fail(j, w) \/ PassRoom(j, w) \/ Count(j, w)
  <2>1. UNCHANGED <<ledger, minted, lost, mintq>>
    BY <1>6 DEF Take, Begin, Fail, PassRoom, Count, cli, queues, ghosts
  <2>2. wpc'[j][w] \in {"have", "put"} =>
          wpc[j][w] \in {"have", "put"} /\ Account(j, w)' = Account(j, w)
    BY <1>6 DEF Take, Begin, Fail, PassRoom, Count, TryAgain, Leave, WGoto, Account, JobInv,
                TypeOK, WorkersOK
  <2>3. \A a : AtWorker(j, a)' => AtWorker(j, a)
    BY <1>3, <2>2 DEF AtWorker, Apart, Account
  <2>4. QED
    BY <1>1, <2>1, <2>3, OnceQuiet DEF OnceOnly, Of
<1>7. CASE Record(j, w)
  <2>1. /\ UNCHANGED <<minted, lost, mintq, idx, retry>>
        /\ ledger' = ledger \cup {Account(j, w)} /\ wpc[j][w] = "attempt"
    BY <1>7 DEF Record, queues
  <2>2. Account(j, w) \notin ledger
    <3>1. ~(retry[j][w] < retry[j][w])
      BY DEF JobInv, TypeOK, WorkersOK
    <3>2. QED
      BY <1>2, <1>4, <2>1, <3>1 DEF LaneTracked, Engaged, ToCount, Account, Of
  <2>3. \A a : AtWorker(j, a)' => AtWorker(j, a) \/ a = Account(j, w)
    BY <1>3, <2>1 DEF AtWorker, Apart, Account
  <2>4. Of(j, lost)' \subseteq ledger'
    BY <2>1 DEF OnceOnly, Of
  <2>5. QED
    BY <1>1, <2>1, <2>2, <2>3, <2>4, OnceQuiet DEF OnceOnly
<1>8. CASE Lose(j, w)
  <2>1. /\ UNCHANGED <<ledger, minted, mintq>> /\ lost' = lost \cup {Account(j, w)}
        /\ wpc[j][w] = "have" /\ wpc'[j][w] \notin {"have", "put"}
    BY <1>8 DEF Lose, TryAgain, Leave, WGoto, cli, queues, JobInv, TypeOK, WorkersOK
  <2>2. Account(j, w) \in ledger
    BY <1>4, <2>1 DEF LaneTracked, Engaged, ToCount
  <2>3. Of(j, lost)' \subseteq ledger'
    BY <2>1, <2>2 DEF OnceOnly, Of
  <2>4. \A a : AtWorker(j, a)' => AtWorker(j, a)
    BY <2>1, Handover
  <2>5. QED
    BY <1>1, <2>1, <2>3, <2>4, OnceQuiet DEF OnceOnly
<1>9. CASE MintInline(j, w)
  <2>1. /\ UNCHANGED <<ledger, lost, mintq>> /\ minted' = minted \cup {Account(j, w)}
        /\ wpc[j][w] = "have" /\ wpc'[j][w] \notin {"have", "put"}
    BY <1>9 DEF MintInline, WGoto, cli, queues, JobInv, TypeOK, WorkersOK
  <2>2. Account(j, w) \in ledger /\ AtWorker(j, Account(j, w))
    BY <1>4, <2>1 DEF LaneTracked, Engaged, ToCount, AtWorker
  <2>3. Account(j, w) \notin Queued(mintq[j]) /\ ~InHand(j, Account(j, w))
    BY <2>2 DEF OnceOnly
  <2>4. \A a : AtWorker(j, a)' => AtWorker(j, a) /\ a # Account(j, w)
    BY <2>1, Handover
  <2>5. \A m, n \in MintIds :
          m # n /\ mpc'[j][m] = "mint" /\ mpc'[j][n] = "mint" => mint'[j][m] # mint'[j][n]
    BY <1>1 DEF OnceOnly
  <2>6. Of(j, minted)' \subseteq ledger' /\ Of(j, lost)' \subseteq ledger'
    BY <2>1, <2>2 DEF OnceOnly, Of
  <2>7. QED
    BY <1>5, <2>1, <2>3, <2>4, <2>5, <2>6 DEF OnceOnly
<1>10. CASE Put(j, w)
  <2>1. /\ UNCHANGED <<ledger, minted, lost>>
        /\ mintq'[j] = Append(mintq[j], Account(j, w)) /\ mintq[j] \in Seq(Items)
        /\ wpc[j][w] = "put" /\ wpc'[j][w] \notin {"have", "put"}
    BY <1>10 DEF Put, WGoto, Enqueue, cli, ghosts, JobInv, TypeOK, WorkersOK, QueuesOK, Items
  <2>2. Account(j, w) \in ledger /\ AtWorker(j, Account(j, w))
    BY <1>4, <2>1 DEF LaneTracked, Engaged, ToCount, AtWorker
  <2>3. /\ Account(j, w) \notin minted /\ Account(j, w) \notin Queued(mintq[j])
        /\ ~InHand(j, Account(j, w))
    BY <2>2 DEF OnceOnly
  <2>4. /\ Queued(mintq'[j]) = Queued(mintq[j]) \cup {Account(j, w)}
        /\ Unrepeated(mintq'[j], Held(mintq'[j]))
    BY <1>2, <2>1, <2>3, QueuedAppend, UnrepeatedAppend DEF OnceOnly
  <2>5. \A a : AtWorker(j, a)' => AtWorker(j, a) /\ a # Account(j, w)
    BY <2>1, Handover
  <2>6. \A m, n \in MintIds :
          m # n /\ mpc'[j][m] = "mint" /\ mpc'[j][n] = "mint" => mint'[j][m] # mint'[j][n]
    BY <1>1 DEF OnceOnly
  <2>7. Of(j, minted)' \subseteq ledger' /\ Of(j, lost)' \subseteq ledger'
    BY <2>1 DEF OnceOnly, Of
  <2>8. QED
    BY <1>5, <2>1, <2>2, <2>3, <2>4, <2>5, <2>6, <2>7 DEF OnceOnly
<1>11. QED
  BY <1>6, <1>7, <1>8, <1>9, <1>10 DEF Worker

LEMMA OnceMinter ==
  ASSUME JobInv, NEW j \in Jobs, NEW m \in MintIds, LaneKept(j), OnceOnly(j), Minter(j, m)
  PROVE  OnceOnly(j)'
<1>1. UNCHANGED <<ledger, lost, wpc, idx, retry>>
  BY MinterFrame DEF workers
<1>2. \A a : AtWorker(j, a)' = AtWorker(j, a)
  BY <1>1 DEF AtWorker, Account
<1>3. /\ mintq[j] \in Seq(Items) /\ Unrepeated(mintq[j], Held(mintq[j]))
      /\ \A n \in MintIds : n # m => mpc'[j][n] = mpc[j][n] /\ mint'[j][n] = mint[j][n]
  BY DEF Minter, TakeMint, Mint, Ack, TakeStop, MGoto, JobInv, TypeOK, QueuesOK, MintersOK,
         Items, OnceOnly
<1>4. CASE TakeMint(j, m)
  <2> DEFINE h == Head(mintq[j])
  <2>1. /\ mintq[j] # <<>> /\ mintq'[j] = Tail(mintq[j]) /\ h # Stop
        /\ mpc'[j][m] = "mint" /\ mint'[j][m] = h /\ minted' = minted
        /\ mpc[j][m] = "get"
    BY <1>4 DEF TakeMint, MGoto, ghosts, JobInv, TypeOK, QueuesOK, MintersOK
  <2>2. /\ Queued(mintq[j]) = Queued(mintq'[j]) \cup {h} /\ h \notin Queued(mintq'[j])
        /\ Unrepeated(mintq'[j], Held(mintq'[j]))
    BY <1>3, <2>1, QueuedTail, UnrepeatedTail
  <2>3. \A a : InHand(j, a)' => InHand(j, a) \/ a = h
    BY <1>3, <2>1 DEF InHand
  <2>4. h \in ledger /\ h \notin minted /\ ~InHand(j, h) /\ ~AtWorker(j, h)
    BY <2>2 DEF OnceOnly
  <2>5. \A n \in MintIds : n # m /\ mpc'[j][n] = "mint" => mint'[j][n] # h
    BY <1>3, <2>4 DEF InHand
  <2>6. \A n, o \in MintIds :
          n # o /\ mpc'[j][n] = "mint" /\ mpc'[j][o] = "mint" => mint'[j][n] # mint'[j][o]
    BY <1>3, <2>1, <2>5 DEF OnceOnly
  <2>7. \A a \in Queued(mintq'[j]) : a \in ledger' /\ a \notin minted'
    BY <1>1, <2>1, <2>2 DEF OnceOnly
  <2>8. \A a : InHand(j, a)' => a \in ledger' /\ a \notin minted' /\ a \notin Queued(mintq'[j])
    BY <1>1, <2>1, <2>2, <2>3, <2>4 DEF OnceOnly
  <2>9. \A a : AtWorker(j, a)' =>
          a \notin minted' /\ a \notin Queued(mintq'[j]) /\ ~InHand(j, a)'
    BY <1>2, <2>1, <2>2, <2>3, <2>4 DEF OnceOnly
  <2>10. Of(j, minted)' \subseteq ledger' /\ Of(j, lost)' \subseteq ledger'
    BY <1>1, <2>1 DEF OnceOnly, Of
  <2>11. QED
    BY <2>2, <2>6, <2>7, <2>8, <2>9, <2>10 DEF OnceOnly
<1>5. CASE Mint(j, m)
  <2> DEFINE x == mint[j][m]
  <2>1. /\ mintq' = mintq /\ mint' = mint /\ minted' = minted \cup {x}
        /\ mpc[j][m] = "mint" /\ mpc'[j][m] = "ack"
    BY <1>5 DEF Mint, MGoto, queues, JobInv, TypeOK, MintersOK
  <2>2. InHand(j, x)
    BY <2>1 DEF InHand
  <2>3. x \in ledger /\ x \notin Queued(mintq[j]) /\ ~AtWorker(j, x)
    BY <2>2 DEF OnceOnly
  <2>4. ASSUME NEW a, InHand(j, a)' PROVE InHand(j, a) /\ a # x
    <3>1. PICK n \in MintIds : mpc'[j][n] = "mint" /\ a = mint'[j][n]
      BY <2>4 DEF InHand
    <3>2. n # m /\ mpc[j][n] = "mint" /\ a = mint[j][n]
      BY <1>3, <2>1, <3>1
    <3>3. QED
      BY <2>1, <3>2 DEF InHand, OnceOnly
  <2>5. \A n, o \in MintIds :
          n # o /\ mpc'[j][n] = "mint" /\ mpc'[j][o] = "mint" => mint'[j][n] # mint'[j][o]
    BY <1>3, <2>1 DEF OnceOnly
  <2>6. Of(j, minted)' \subseteq ledger' /\ Of(j, lost)' \subseteq ledger'
    BY <1>1, <2>1, <2>3 DEF OnceOnly, Of
  <2>7. QED
    BY <1>1, <1>2, <2>1, <2>3, <2>4, <2>5, <2>6 DEF OnceOnly
<1>6. CASE Ack(j, m) \/ TakeStop(j, m)
  <2>1. mpc'[j][m] # "mint" /\ minted' = minted
    BY <1>6 DEF Ack, TakeStop, MGoto, ghosts, JobInv, TypeOK, MintersOK
  <2>2. Queued(mintq'[j]) = Queued(mintq[j]) /\ Unrepeated(mintq'[j], Held(mintq'[j]))
    <3>1. CASE Ack(j, m)
      BY <1>3, <3>1 DEF Ack
    <3>2. CASE TakeStop(j, m)
      <4>1. mintq[j] # <<>> /\ mintq'[j] = Tail(mintq[j]) /\ Head(mintq[j]) = Stop
        BY <3>2 DEF TakeStop, JobInv, TypeOK, QueuesOK
      <4>2. Queued(mintq[j]) = Queued(Tail(mintq[j])) \cup ({Stop} \ {Stop})
        BY <1>3, <4>1, QueuedTail
      <4>3. QED
        BY <1>3, <4>1, <4>2, UnrepeatedTail
    <3>3. QED
      BY <1>6, <3>1, <3>2
  <2>3. Of(j, lost)' \subseteq ledger'
    BY <1>1 DEF OnceOnly, Of
  <2>4. QED
    BY <1>1, <1>2, <1>3, <2>1, <2>2, <2>3, OnceQuiet
<1>7. QED
  BY <1>4, <1>5, <1>6 DEF Minter

LEMMA PlacesStep ==
  ASSUME JobInv, KeptInv, OrderInv, OnceInv, [Next]_vars
  PROVE  OrderInv' /\ OnceInv'
<1>1. Owned
  BY DEF KeptInv, LaneKept, OwnedBy, Owned
<1>2. ASSUME NEW k \in Jobs, Same(k) PROVE Ordered(k)' /\ OnceOnly(k)'
  BY <1>2, OrderElsewhere, OnceElsewhere DEF OrderInv, OnceInv, KeptInv, Same
<1>3. ASSUME NEW j \in Jobs, Start(j) \/ StopJob(j) \/ Runner(j)
      PROVE  \A k \in Jobs : Ordered(k)' /\ OnceOnly(k)'
  <2>1. Ordered(j)' /\ OnceOnly(j)'
    BY <1>3, OrderRunner, OnceRunner DEF OrderInv, OnceInv, KeptInv
  <2>2. QED
    BY <1>2, <1>3, <2>1, SameRunner
<1>4. ASSUME NEW j \in Jobs, NEW w \in Workers, Worker(j, w)
      PROVE  \A k \in Jobs : Ordered(k)' /\ OnceOnly(k)'
  <2>1. Ordered(j)' /\ OnceOnly(j)'
    BY <1>4, OrderWorker, OnceWorker DEF OrderInv, OnceInv, KeptInv
  <2>2. QED
    BY <1>2, <1>4, <2>1, SameWorker
<1>5. ASSUME NEW j \in Jobs, NEW m \in MintIds, Minter(j, m)
      PROVE  \A k \in Jobs : Ordered(k)' /\ OnceOnly(k)'
  <2>1. OnceOnly(j)'
    BY <1>5, OnceMinter DEF OnceInv, KeptInv
  <2>2. Ordered(j)'
    BY <1>5, MinterFrame, OrderElsewhere DEF OrderInv, workers, Of
  <2>3. QED
    BY <1>1, <1>2, <1>5, <2>1, <2>2, SameMinter
<1>6. ASSUME UNCHANGED vars PROVE \A k \in Jobs : Ordered(k)' /\ OnceOnly(k)'
  <2>1. ASSUME NEW k \in Jobs PROVE Same(k)
    BY <1>6 DEF vars, runner, cli, queues, workers, minters, ghosts, Same, Of
  <2>2. QED
    BY <1>2, <2>1
<1>7. QED
  BY <1>3, <1>4, <1>5, <1>6 DEF Next, OrderInv, OnceInv

LEMMA PlacesInit == Init => OrderInv /\ OnceInv
<1> SUFFICES ASSUME Init, NEW j \in Jobs PROVE Ordered(j) /\ OnceOnly(j)
  BY DEF OrderInv, OnceInv
<1>1. /\ tasks[j] = <<>> /\ mintq[j] = <<>> /\ ledger = {} /\ minted = {} /\ lost = {}
      /\ \A w \in Workers : wpc[j][w] = "off"
      /\ \A m \in MintIds : mpc[j][m] = "off"
  BY DEF Init
<1>2. Ordered(j)
  BY <1>1 DEF Ordered, NumberedOnce, LaneTracked, Engaged, Unrepeated, Of
<1>3. OnceOnly(j)
  BY <1>1, QueuedEmpty DEF OnceOnly, Unrepeated, Of, Held, AtWorker, InHand
<1>4. QED
  BY <1>2, <1>3

-----------------------------------------------------------------------------
\* The common statistics while a job runs alone.

Counters(j) == {w \in Workers : ToCount(j, w)}

\* The registered accounts of the job that runs, less the failures, are those counted
\* and those that a worker is about to count.
Tallied(j) == status[j] = "running" /\ pc[j] # "prepare" /\ j \notin mixed =>
  /\ \A k \in Jobs \ {j} : ~ThreadsAlive(k)
  /\ stats.registered + Cardinality(Counters(j)) = Cardinality(Of(j, ledger \ lost))
  /\ stats.minted = Cardinality(Of(j, minted))
Reported(j) == status[j] = "completed" /\ spawned[j] > 0 /\ j \notin mixed =>
  /\ shown[j].registered = Cardinality(Of(j, ledger \ lost))
  /\ shown[j].minted = Cardinality(Of(j, minted))
TallyInv == \A j \in Jobs : Tallied(j) /\ Reported(j)

\* A step of another job than the one that runs alone.
LEMMA TallyElsewhere ==
  ASSUME JobInv, WrapInv, NEW k \in Jobs, Tallied(k), Reported(k), Same(k),
         mixed' = mixed \/ \E j \in Jobs \ {k} : mixed' = mixed \cup {j},
         (status[k] = "running" /\ pc[k] # "prepare" /\ k \notin mixed
            /\ \A j \in Jobs \ {k} : ~ThreadsAlive(j)) =>
           stats' = stats /\ \A j \in Jobs \ {k} : ~ThreadsAlive(j)'
  PROVE  Tallied(k)' /\ Reported(k)'
<1>1. /\ (k \in mixed') = (k \in mixed)
      /\ Of(k, ledger \ lost)' = Of(k, ledger \ lost)
  BY DEF Same, Of
<1>2. Counters(k)' = Counters(k)
  BY DEF Same, Counters, ToCount
<1>3. Reported(k)'
  BY <1>1 DEF Same, Reported
<1>4. Tallied(k)'
  BY <1>1, <1>2 DEF Same, Tallied
<1>5. QED
  BY <1>3, <1>4

\* The steps that leave the accounts of the job and its counters alone.
LEMMA TallyQuiet ==
  ASSUME NEW j \in Jobs, Tallied(j), Reported(j),
         UNCHANGED <<stats, ledger, lost, minted, mixed>>, Counters(j)' = Counters(j),
         \A k \in Jobs : ThreadsAlive(k)' => ThreadsAlive(k) \/ k = j,
         status'[j] = "running" /\ pc'[j] # "prepare" =>
           status[j] = "running" /\ pc[j] # "prepare",
         Reported(j)'
  PROVE  Tallied(j)' /\ Reported(j)'
  BY DEF Tallied, Of

-----------------------------------------------------------------------------
\* While a job runs, no other can do more than its finally block.
LEMMA RunnerAlone ==
  ASSUME JobInv, WrapInv, NEW j \in Jobs, NEW k \in Jobs \ {j}, status[k] = "running",
         Start(j) \/ StopJob(j) \/ Runner(j)
  PROVE  Restore(j)
<1>1. active = k /\ status[j] \notin {"queued", "running"}
  BY DEF WrapInv, Laned
<1>2. ~Start(j) /\ ~StopJob(j)
  BY <1>1 DEF Start, LaneFree, StopJob
<1>3. pc[j] # "start" /\ pc[j] \notin Working
  BY <1>1 DEF WrapInv, Phase
<1>4. QED
  BY <1>2, <1>3 DEF Runner, Install, PrepareFails, NothingToDo, Prepare, Spawn, Spawned,
                    SpawnStopped, Polled, Drain, Mark, Conclude, Working

LEMMA TallyBeside ==
  ASSUME JobInv, WrapInv, NEW j \in Jobs, NEW k \in Jobs \ {j}, Tallied(k), Reported(k), Same(k),
         \/ Start(j) \/ StopJob(j) \/ Runner(j)
         \/ \E w \in Workers : Worker(j, w)
         \/ \E m \in MintIds : Minter(j, m)
  PROVE  Tallied(k)' /\ Reported(k)'
<1>1. CASE Start(j) \/ StopJob(j) \/ Runner(j)
  <2>1. mixed' = mixed \/ mixed' = mixed \cup {j}
    BY <1>1 DEF Start, StopJob, Runner, Install, PrepareFails, NothingToDo, Prepare, Spawn,
                Spawned, SpawnStopped, Polled, Drain, Mark, Conclude, Restore, ghosts
  <2>2. ASSUME status[k] = "running", \A i \in Jobs \ {k} : ~ThreadsAlive(i)
        PROVE  stats' = stats /\ \A i \in Jobs \ {k} : ~ThreadsAlive(i)'
    <3>1. Restore(j)
      BY <1>1, <2>2, RunnerAlone
    <3>2. UNCHANGED <<stats, wpc, mpc>>
      BY <3>1 DEF Restore, workers, minters
    <3>3. QED
      BY <2>2, <3>2 DEF ThreadsAlive, WorkersAlive
  <2>3. QED
    BY <2>1, <2>2, TallyElsewhere
<1>2. CASE (\E w \in Workers : Worker(j, w)) \/ \E m \in MintIds : Minter(j, m)
  <2>1. ThreadsAlive(j)
    BY <1>2 DEF Worker, Take, Begin, Fail, Record, Lose, MintInline, PassRoom, Put, Count,
                Minter, TakeMint, Mint, Ack, TakeStop, ThreadsAlive, WorkersAlive
  <2>2. mixed' = mixed
    BY <1>2, WorkerFrame, MinterFrame
  <2>3. QED
    BY <2>1, <2>2, TallyElsewhere
<1>3. QED
  BY <1>1, <1>2

LEMMA TallyRunner ==
  ASSUME JobInv, WrapInv, NEW j \in Jobs, LaneKept(j), OnceOnly(j), Tallied(j), Reported(j),
         Start(j) \/ StopJob(j) \/ Runner(j)
  PROVE  Tallied(j)' /\ Reported(j)'
<1>1. pc[j] \in Working => status[j] = "running"
  BY DEF WrapInv, Phase
<1>2. CASE Start(j) \/ Install(j) \/ PrepareFails(j)
  <2>1. status'[j] \in {"queued", "failed"} \/ (status'[j] = "running" /\ pc'[j] = "prepare")
    BY <1>2 DEF Start, Install, PrepareFails, Finish, Goto, JobInv, TypeOK, RunnerOK
  <2>2. QED
    BY <2>1 DEF Tallied, Reported
<1>3. CASE NothingToDo(j)
  <2>1. status'[j] \in {"completed", "stopped"} /\ pc[j] \in Early /\ spawned' = spawned
    BY <1>3 DEF NothingToDo, Finish, Early, JobInv, TypeOK, RunnerOK
  <2>2. spawned'[j] = 0
    BY <2>1 DEF LaneKept, Unstarted
  <2>3. QED
    BY <2>1, <2>2 DEF Tallied, Reported
<1>4. CASE Prepare(j)
  <2>1. /\ pc[j] \in Early /\ status'[j] = "running" /\ stats' = NoStats
        /\ UNCHANGED <<ledger, lost, minted, wpc>>
        /\ \A k \in Jobs \ {j} : mpc'[k] = mpc[k]
    BY <1>1, <1>4 DEF Prepare, StatsReset, Early, Working, workers, JobInv, TypeOK, MintersOK
  <2>2. Of(j, ledger) = {} /\ ~WorkersAlive(j)
    BY <2>1 DEF LaneKept, Unstarted, ThreadsAlive
  <2>3. Of(j, minted)' = {} /\ Of(j, ledger \ lost)' = {}
    BY <2>1, <2>2 DEF OnceOnly, Of
  <2>4. Counters(j)' = {}
    BY <2>1, <2>2 DEF Counters, ToCount, WorkersAlive
  <2>5. ASSUME j \notin mixed' PROVE \A k \in Jobs \ {j} : ~ThreadsAlive(k)'
    <3>1. \A k \in Jobs : ~ThreadsAlive(k)
      BY <1>4, <2>5 DEF Prepare
    <3>2. QED
      BY <2>1, <3>1 DEF ThreadsAlive, WorkersAlive
  <2>6. stats'.registered = 0 /\ stats'.minted = 0
    BY <2>1 DEF NoStats
  <2>7. /\ Cardinality(Counters(j)') = 0 /\ Cardinality(Of(j, minted)') = 0
        /\ Cardinality(Of(j, ledger \ lost)') = 0
    BY <2>3, <2>4, FS_EmptySet
  <2>8. Tallied(j)'
    BY <2>5, <2>6, <2>7 DEF Tallied
  <2>9. QED
    BY <2>1, <2>8 DEF Reported
<1>5. CASE Conclude(j)
  <2>1. /\ pc[j] = "mark" /\ status'[j] = IF cancel[j] THEN "stopped" ELSE "completed"
        /\ shown'[j] = stats /\ UNCHANGED <<stats, ledger, lost, minted, mixed>>
    BY <1>5 DEF Conclude, Finish, cli, ghosts, JobInv, TypeOK, RunnerOK
  <2>2. ASSUME ~cancel[j], j \notin mixed PROVE Reported(j)'
    <3>1. Counters(j) = {}
      BY <2>1, <2>2 DEF LaneKept, Winding, NoWork, WorkersAlive, Counters, ToCount
    <3>2. /\ stats.registered + Cardinality(Counters(j)) = Cardinality(Of(j, ledger \ lost))
          /\ stats.minted = Cardinality(Of(j, minted))
      BY <1>1, <2>1, <2>2 DEF Tallied, Working
    <3>3. stats.registered \in Nat
      BY DEF JobInv, TypeOK, CliOK, Counts
    <3>4. stats.registered = Cardinality(Of(j, ledger \ lost))
      BY <3>1, <3>2, <3>3, FS_EmptySet
    <3>5. QED
      BY <2>1, <3>2, <3>4 DEF Reported, Of
  <2>3. QED
    BY <2>1, <2>2 DEF Tallied, Reported
<1>6. CASE Spawn(j)
  <2>1. /\ pc[j] = "spawn" /\ pc' = pc /\ status'[j] = "running"
        /\ UNCHANGED <<stats, ledger, lost, minted, mixed, mpc>>
        /\ \A k \in Jobs \ {j} : wpc'[k] = wpc[k]
        /\ \A w \in Workers : wpc'[j][w] = IF w = spawned[j] + 1 THEN "head" ELSE wpc[j][w]
    BY <1>1, <1>6
    DEF Spawn, Working, cli, minters, ghosts, JobInv, TypeOK, WorkersOK, RunnerOK, Workers
  <2>2. \A w \in Workers : w = spawned[j] + 1 => wpc[j][w] = "off"
    BY DEF LaneKept, NotYet, JobInv, TypeOK, RunnerOK
  <2>3. Counters(j)' = Counters(j)
    BY <2>1, <2>2 DEF Counters, ToCount
  <2>4. \A k \in Jobs : ThreadsAlive(k)' => ThreadsAlive(k) \/ k = j
    BY <2>1 DEF ThreadsAlive, WorkersAlive
  <2>5. Reported(j)'
    BY <2>1 DEF Reported
  <2>6. status[j] = "running"
    BY <1>1, <2>1 DEF Working
  <2>7. QED
    BY <2>1, <2>3, <2>4, <2>5, <2>6, TallyQuiet
<1>7. CASE \/ StopJob(j) \/ Spawned(j) \/ SpawnStopped(j) \/ Polled(j) \/ Drain(j) \/ Mark(j)
           \/ Restore(j)
  <2>1. UNCHANGED <<stats, ledger, lost, minted, mixed, wpc, mpc, spawned, shown>>
    BY <1>7 DEF StopJob, Spawned, SpawnStopped, Polled, Drain, Mark, Restore, cli, workers,
                minters, ghosts
  <2>2. /\ status'[j] = status[j] \/ status'[j] = "failed"
        /\ pc[j] = "prepare" => pc'[j] = "prepare"
    BY <1>7 DEF StopJob, Spawned, SpawnStopped, Polled, Drain, Mark, Restore, Finish, Goto,
                JobInv, TypeOK, RunnerOK
  <2>3. /\ Counters(j)' = Counters(j)
        /\ \A k \in Jobs : ThreadsAlive(k)' = ThreadsAlive(k)
    BY <2>1 DEF Counters, ToCount, ThreadsAlive, WorkersAlive
  <2>4. Reported(j)'
    BY <2>1, <2>2 DEF Reported, Of
  <2>5. QED
    BY <2>1, <2>2, <2>3, <2>4, TallyQuiet
<1>8. QED
  BY <1>2, <1>3, <1>4, <1>5, <1>6, <1>7 DEF Runner

\* One account more or less, and one counter more or less.
LEMMA TallySets ==
  ASSUME JobInv, NEW j \in Jobs, OnceOnly(j), NEW a
  PROVE  LET C == Counters(j)
             R == Of(j, ledger \ lost)
             M == Of(j, minted)
         IN  /\ Cardinality(C) \in Nat /\ Cardinality(R) \in Nat /\ Cardinality(M) \in Nat
             /\ a \notin R => Cardinality(R \cup {a}) = Cardinality(R) + 1
             /\ a \in R => Cardinality(R \ {a}) = Cardinality(R) - 1
             /\ a \notin M => Cardinality(M \cup {a}) = Cardinality(M) + 1
             /\ \A w \in Workers :
                  /\ w \notin C => Cardinality(C \cup {w}) = Cardinality(C) + 1
                  /\ w \in C => Cardinality(C \ {w}) = Cardinality(C) - 1
<1>1. IsFiniteSet(Counters(j))
  BY WorkerSets DEF Counters
<1>2. IsFiniteSet(Of(j, ledger \ lost))
  BY FS_Subset DEF JobInv, Of
<1>3. IsFiniteSet(Of(j, minted))
  BY FS_Subset DEF JobInv, OnceOnly
<1>4. QED
  BY <1>1, <1>2, <1>3, FS_CardinalityType, FS_AddElement, FS_RemoveElement

LEMMA TallyWorker ==
  ASSUME JobInv, NEW j \in Jobs, NEW w \in Workers, LaneKept(j), Ordered(j), OnceOnly(j),
         Tallied(j), Worker(j, w)
  PROVE  Tallied(j)' /\ Reported(j)'
<1> DEFINE a == Account(j, w)
           C == Counters(j)
           R == Of(j, ledger \ lost)
           M == Of(j, minted)
<1>1. /\ UNCHANGED <<runner, mixed>> /\ UNCHANGED <<status, pc, mpc>>
  BY WorkerFrame DEF runner, minters
<1>2. wpc[j][w] # "off"
  BY DEF Worker, Take, Begin, Fail, Record, Lose, MintInline, PassRoom, Put, Count
<1>3. Reported(j)'
  BY <1>1, <1>2 DEF Reported, LaneKept, Winding, NoWork, WorkersAlive
<1>4. /\ \A k \in Jobs \ {j} : wpc'[k] = wpc[k]
      /\ \A v \in Workers \ {w} : ToCount(j, v)' = ToCount(j, v)
  BY WorkerApart DEF Apart, ToCount
<1>5. \A k \in Jobs \ {j} : ThreadsAlive(k)' = ThreadsAlive(k)
  BY <1>1, <1>4 DEF ThreadsAlive, WorkersAlive
<1>6. stats \in Counts /\ stats.registered \in Nat /\ stats.minted \in Nat
  BY DEF JobInv, TypeOK, CliOK, Counts
<1>7. /\ Cardinality(C) \in Nat /\ Cardinality(R) \in Nat /\ Cardinality(M) \in Nat
      /\ a \notin R => Cardinality(R \cup {a}) = Cardinality(R) + 1
      /\ a \in R => Cardinality(R \ {a}) = Cardinality(R) - 1
      /\ a \notin M => Cardinality(M \cup {a}) = Cardinality(M) + 1
      /\ w \notin C => Cardinality(C \cup {w}) = Cardinality(C) + 1
      /\ w \in C => Cardinality(C \ {w}) = Cardinality(C) - 1
  BY TallySets
<1>8. SUFFICES
        /\ (stats.registered + Cardinality(C) = Cardinality(R)) =>
             stats'.registered + Cardinality(C') = Cardinality(R')
        /\ (stats.minted = Cardinality(M)) => stats'.minted = Cardinality(M')
  BY <1>1, <1>3, <1>5 DEF Tallied
<1>9. a[1] = j /\ a[2] = idx[j][w] /\ a[3] = retry[j][w] /\ ~(retry[j][w] < retry[j][w])
  BY DEF Account, JobInv, TypeOK, WorkersOK
<1>10. LaneTracked(j, w)
  BY DEF Ordered
<1>11. CASE Take(j, w) \/ Begin(j, w) \/ Fail(j, w) \/ PassRoom(j, w) \/ Put(j, w)
  <2>1. UNCHANGED <<stats, ledger, lost, minted>>
    BY <1>11 DEF Take, Begin, Fail, PassRoom, Put, cli, ghosts
  <2>2. ToCount(j, w)' = ToCount(j, w)
    BY <1>11 DEF Take, Begin, Fail, PassRoom, Put, TryAgain, Leave, WGoto, ToCount, JobInv,
                 TypeOK, WorkersOK
  <2>3. C' = C /\ R' = R /\ M' = M
    BY <1>4, <2>1, <2>2 DEF Counters, Of
  <2>4. QED
    BY <2>1, <2>3
<1>12. CASE Record(j, w)
  <2>1. /\ UNCHANGED <<stats, lost, minted>> /\ ledger' = ledger \cup {a}
        /\ wpc[j][w] = "attempt" /\ wpc'[j][w] = "have"
    BY <1>12 DEF Record, WGoto, JobInv, TypeOK, WorkersOK
  <2>2. a \notin ledger
    BY <1>9, <1>10, <2>1 DEF LaneTracked, Engaged, ToCount, Of
  <2>3. a \notin lost
    BY <1>9, <1>10, <2>1 DEF LaneTracked, Engaged, Of
  <2>4. C' = C \cup {w} /\ w \notin C
    BY <1>4, <2>1 DEF Counters, ToCount
  <2>5. R' = R \cup {a} /\ a \notin R /\ M' = M
    BY <1>9, <2>1, <2>2, <2>3 DEF Of
  <2>6. stats'.registered = stats.registered /\ stats'.minted = stats.minted
    BY <2>1
  <2>7. Cardinality(C') = Cardinality(C) + 1 /\ Cardinality(R') = Cardinality(R) + 1
    BY <1>7, <2>4, <2>5
  <2> HIDE DEF C, R, M
  <2>8. QED
    BY <1>6, <1>7, <2>5, <2>6, <2>7
<1>13. CASE Lose(j, w)
  <2>1. /\ UNCHANGED <<stats, ledger, minted>> /\ lost' = lost \cup {a}
        /\ wpc[j][w] = "have" /\ wpc'[j][w] \in {"loop", "head"}
    BY <1>13 DEF Lose, TryAgain, Leave, WGoto, cli, JobInv, TypeOK, WorkersOK
  <2>2. a \in ledger /\ a \notin lost
    BY <1>9, <1>10, <2>1 DEF LaneTracked, Engaged, ToCount, Of
  <2>3. C' = C \ {w} /\ w \in C
    BY <1>4, <2>1 DEF Counters, ToCount
  <2>4. R' = R \ {a} /\ a \in R /\ M' = M
    BY <1>9, <2>1, <2>2 DEF Of
  <2>5. stats'.registered = stats.registered /\ stats'.minted = stats.minted
    BY <2>1
  <2>6. Cardinality(C') = Cardinality(C) - 1 /\ Cardinality(R') = Cardinality(R) - 1
    BY <1>7, <2>3, <2>4
  <2> HIDE DEF C, R, M
  <2>7. QED
    BY <1>6, <1>7, <2>4, <2>5, <2>6
<1>14. CASE MintInline(j, w)
  <2>1. /\ UNCHANGED <<ledger, lost>> /\ minted' = minted \cup {a}
        /\ wpc[j][w] = "have" /\ wpc'[j][w] = "count"
        /\ stats' = [stats EXCEPT !.minted = @ + 1]
    BY <1>14 DEF MintInline, WGoto, JobInv, TypeOK, WorkersOK
  <2>2. a \notin minted
    BY <2>1 DEF OnceOnly, AtWorker
  <2>3. C' = C /\ R' = R
    BY <1>4, <2>1 DEF Counters, ToCount, Of
  <2>4. M' = M \cup {a} /\ a \notin M
    BY <1>9, <2>1, <2>2 DEF Of
  <2>5. stats'.registered = stats.registered /\ stats'.minted = stats.minted + 1
    BY <1>6, <2>1 DEF Counts
  <2>6. QED
    BY <1>7, <2>3, <2>4, <2>5
<1>15. CASE Count(j, w)
  <2>1. /\ UNCHANGED <<ledger, lost, minted>>
        /\ wpc[j][w] = "count" /\ wpc'[j][w] = "head"
        /\ stats' = [stats EXCEPT !.registered = @ + 1]
    BY <1>15 DEF Count, Leave, WGoto, ghosts, JobInv, TypeOK, WorkersOK
  <2>2. C' = C \ {w} /\ w \in C /\ R' = R /\ M' = M
    BY <1>4, <2>1 DEF Counters, ToCount, Of
  <2>3. stats'.registered = stats.registered + 1 /\ stats'.minted = stats.minted
    BY <1>6, <2>1 DEF Counts
  <2>4. QED
    BY <1>6, <1>7, <2>2, <2>3
<1>16. QED
  BY <1>11, <1>12, <1>13, <1>14, <1>15 DEF Worker

LEMMA TallyMinter ==
  ASSUME JobInv, NEW j \in Jobs, NEW m \in MintIds, LaneKept(j), OnceOnly(j), Tallied(j),
         Reported(j), Minter(j, m)
  PROVE  Tallied(j)' /\ Reported(j)'
<1>1. UNCHANGED <<runner, mixed, ledger, lost>> /\ UNCHANGED <<status, pc, spawned, shown, wpc>>
  BY MinterFrame DEF runner, workers
<1>2. \A k \in Jobs \ {j} : ThreadsAlive(k)' = ThreadsAlive(k)
  BY <1>1 DEF Minter, TakeMint, Mint, Ack, TakeStop, MGoto, ThreadsAlive, WorkersAlive, JobInv,
              TypeOK, MintersOK
<1>3. Counters(j)' = Counters(j) /\ Of(j, ledger \ lost)' = Of(j, ledger \ lost)
  BY <1>1 DEF Counters, ToCount, Of
<1>4. CASE Mint(j, m)
  <2> DEFINE x == mint[j][m]
             M == Of(j, minted)
  <2>1. /\ minted' = minted \cup {x} /\ mpc[j][m] = "mint"
        /\ stats' = [stats EXCEPT !.minted = @ + 1]
    BY <1>4 DEF Mint
  <2>2. x[1] = j /\ x \notin minted
    BY <2>1 DEF LaneKept, OwnedBy, OnceOnly, InHand
  <2>3. M' = M \cup {x} /\ x \notin M
    BY <2>1, <2>2 DEF Of
  <2>4. Cardinality(M') = Cardinality(M) + 1
    BY <2>3, TallySets
  <2>5. stats'.registered = stats.registered /\ stats'.minted = stats.minted + 1
    BY <2>1 DEF JobInv, TypeOK, CliOK, Counts
  <2>6. status[j] # "completed"
    BY <2>1 DEF LaneKept, Winding, Settled
  <2>7. QED
    BY <1>1, <1>2, <1>3, <2>4, <2>5, <2>6 DEF Tallied, Reported
<1>5. CASE TakeMint(j, m) \/ Ack(j, m) \/ TakeStop(j, m)
  <2>1. UNCHANGED <<stats, minted>>
    BY <1>5 DEF TakeMint, Ack, TakeStop, cli, ghosts
  <2>2. Reported(j)'
    BY <1>1, <1>3, <2>1 DEF Reported, Of
  <2>3. QED
    BY <1>1, <1>2, <1>3, <2>1, <2>2, TallyQuiet
<1>6. QED
  BY <1>4, <1>5 DEF Minter

LEMMA TallyStep ==
  ASSUME JobInv, WrapInv, KeptInv, OrderInv, OnceInv, TallyInv, [Next]_vars
  PROVE  TallyInv'
<1>1. Owned
  BY DEF KeptInv, LaneKept, OwnedBy, Owned
<1>2. ASSUME NEW j \in Jobs, Start(j) \/ StopJob(j) \/ Runner(j) PROVE TallyInv'
  <2>1. Tallied(j)' /\ Reported(j)'
    BY <1>2, TallyRunner DEF TallyInv, OnceInv, KeptInv
  <2>2. ASSUME NEW k \in Jobs, k # j PROVE Tallied(k)' /\ Reported(k)'
    BY <1>2, <2>2, SameRunner, TallyBeside DEF TallyInv
  <2>3. QED
    BY <2>1, <2>2 DEF TallyInv
<1>3. ASSUME NEW j \in Jobs, NEW w \in Workers, Worker(j, w) PROVE TallyInv'
  <2>1. Tallied(j)' /\ Reported(j)'
    BY <1>3, TallyWorker DEF TallyInv, OrderInv, OnceInv, KeptInv
  <2>2. ASSUME NEW k \in Jobs, k # j PROVE Tallied(k)' /\ Reported(k)'
    BY <1>3, <2>2, SameWorker, TallyBeside DEF TallyInv
  <2>3. QED
    BY <2>1, <2>2 DEF TallyInv
<1>4. ASSUME NEW j \in Jobs, NEW m \in MintIds, Minter(j, m) PROVE TallyInv'
  <2>1. Tallied(j)' /\ Reported(j)'
    BY <1>4, TallyMinter DEF TallyInv, OnceInv, KeptInv
  <2>2. ASSUME NEW k \in Jobs, k # j PROVE Tallied(k)' /\ Reported(k)'
    BY <1>1, <1>4, <2>2, SameMinter, TallyBeside DEF TallyInv
  <2>3. QED
    BY <2>1, <2>2 DEF TallyInv
<1>5. ASSUME UNCHANGED vars PROVE TallyInv'
  BY <1>5 DEF vars, runner, cli, workers, minters, ghosts, TallyInv, Tallied, Reported, Of,
              Counters, ToCount, ThreadsAlive, WorkersAlive
<1>6. QED
  BY <1>2, <1>3, <1>4, <1>5 DEF Next

LEMMA TallyInit == Init => TallyInv
  BY DEF Init, TallyInv, Tallied, Reported

\* The statistics a completed job shows are its own and final, although all jobs
\* count in the same register_cli._stats, if no thread of an earlier job was alive
\* when it began: for any number of jobs, workers and mint workers.
THEOREM CompletedStatsAlways == Spec => []CompletedStats
<1>1. TallyInv => CompletedStats
  BY DEF TallyInv, Reported, CompletedStats
<1>2. JobInv => TypeOK
  BY DEF JobInv
<1>3. QED
  BY <1>1, <1>2, JobInvInit, JobInvStep, WrapInit, WrapStep, KeptInit, LaneKeptStep, PlacesInit,
     PlacesStep, TallyInit, TallyStep, PTL DEF Spec
=============================================================================
