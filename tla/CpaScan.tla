------------------------------ MODULE CpaScan ------------------------------
(***************************************************************************)
(* The scan ("巡检") of the CPA account pool: CpaPoolMonitor in             *)
(* src/webui/cpa_pool.py.  A scan takes a snapshot of the accounts to       *)
(* probe, probes them with a pool of workers, and writes a checkpoint for   *)
(* each finished account, so that a restarted service resumes where it      *)
(* stopped.                                                                 *)
(*                                                                          *)
(* Several threads touch one monitor: the HTTP handlers that start, stop    *)
(* and poll a scan, the scheduler, and the scan threads.  One step of the   *)
(* model is one block under self._lock, or one file operation under         *)
(* self._state_write_lock.  A handler that starts a scan and the scan       *)
(* thread it creates share one thread slot here, as the handler's last act  *)
(* is Thread.start().                                                       *)
(***************************************************************************)
EXTENDS Naturals, FiniteSets

CONSTANTS
  Items,        \* the accounts (auth files) of the inventory
  NoItem,       \* no account
  Threads,      \* slots for scan threads, each with the handler that starts it
  Selections,   \* the snapshots that options and due times may select
  MaxScans,     \* bound: scans started
  MaxCrashes,   \* bound: process crashes, each followed by a restart
  MaxStops,     \* bound: stop requests that find a scan running
  MaxSaveFaults,    \* bound: failed writes of cpa_pool_state.json
  MaxJournalFaults, \* bound: failed appends to the scan journal
  TornWrites    \* may a crash leave an unterminated line in the journal?

ASSUME ItemsAssumption   == IsFiniteSet(Items) /\ NoItem \notin Items
ASSUME ThreadsAssumption == Threads # {}
ASSUME SelectionsAssumption == Selections \subseteq SUBSET Items
ASSUME BoundsAssumption ==
  /\ MaxScans \in Nat /\ MaxCrashes \in Nat /\ MaxStops \in Nat
  /\ MaxSaveFaults \in Nat /\ MaxJournalFaults \in Nat
  /\ TornWrites \in BOOLEAN

VARIABLES
  \* memory of the monitor, under self._lock
  running,      \* self._running
  cancel,       \* self._cancel
  active,       \* self._active_scan; id 0 stands for the empty dict
  scanId,       \* self._scan_id
  summary,      \* done and total of self._summary and self._progress
  lastError,    \* is self._last_error non-empty?
  history,      \* self._scan_history, by scan id
  \* files
  disk,         \* cpa_pool_state.json
  journal,      \* the scan journal: its readable rows, and whether its tail is torn
  \* scan threads, and the locals of _run_scan
  pc, job, items, done, queue, rows, skipped, cur,
  \* the other handlers
  fin,          \* _finalize_persisted_cancellation
  stopper,      \* stop_scan between its lock block and its save: the scan id, or 0
  serving,      \* has the startup hook returned?
  \* bookkeeping of the model
  nScans,       \* scan ids issued
  budget,       \* crashes, stops and faults still allowed
  \* history variables, read by properties only
  acked,        \* <<scan, item>>: a checkpoint of the item was reported written
  stopAcked,    \* scans whose stop request was reported written
  overlapped    \* has a scan been started while another was still unwinding?

memory  == <<running, cancel, active, scanId, summary, lastError, history>>
files   == <<disk, journal>>
threads == <<pc, job, items, done, queue, rows, skipped, cur>>
ghosts  == <<acked, stopAcked, overlapped>>
vars == <<memory, files, threads, fin, stopper, serving, nScans, budget, ghosts>>

ScanIds  == 1 .. MaxScans
NoScan   == [id |-> 0, cancelReq |-> FALSE, ready |-> FALSE,
             items |-> {}, completed |-> {}]
NewScan(s) == [NoScan EXCEPT !.id = s]
NoRecord == [outcome |-> "none", done |-> 0, total |-> 0]
EmptyJournal == [rows |-> {}, torn |-> FALSE]

(***************************************************************************)
(* Helpers.                                                                *)
(***************************************************************************)

RecoveredFromState(d, j) == d.active.completed    \* mutant: the journal is not read
\* The accounts a restart finds completed: the list in the state file and
\* the journal rows of the same scan, for accounts of its snapshot.
Recovered(d, j) ==
  d.active.completed \cup {i \in d.active.items : <<d.active.id, i>> \in j.rows}

\* What _save_state writes.
Payload == [active |-> active, scanId |-> scanId, summary |-> summary,
            lastError |-> lastError, history |-> history]

SaveOk   == disk' = Payload /\ UNCHANGED <<journal, budget>>
SaveFail == /\ budget.save > 0
            /\ budget' = [budget EXCEPT !.save = @ - 1]
            /\ UNCHANGED files
Save     == SaveOk \/ SaveFail       \* for the callers that ignore the result

ClearJournal == \/ journal' = EmptyJournal /\ UNCHANGED <<disk, budget>>
                \/ /\ budget.journal > 0
                   /\ budget' = [budget EXCEPT !.journal = @ - 1]
                   /\ UNCHANGED files

\* mutant: the cancellation is not looked at
AppendHistoryUncancelled ==
  history' = [history EXCEPT ![scanId] =
    [outcome |-> IF lastError THEN "error" ELSE "ok",
     done |-> summary.done, total |-> summary.total]]
\* _append_scan_history: one record per scan id, an error before a cancellation.
AppendHistory ==
  history' = [history EXCEPT ![scanId] =
    [outcome |-> IF lastError THEN "error" ELSE IF cancel THEN "cancelled" ELSE "ok",
     done |-> summary.done, total |-> summary.total]]

\* What a restart finds in the active scan: something to resume, or a stop request
\* whose scan has yet to be closed.
ResumableSnapshot == active.ready /\ ~active.cancelReq  \* mutant: not before the snapshot
ResumableAlways   == active.id # 0                      \* mutant: a stop is forgotten
Resumable == active.id # 0 /\ ~active.cancelReq
CancelledSnapshot == active.ready /\ active.cancelReq   \* mutant: not before the snapshot
Cancelled == active.id # 0 /\ active.cancelReq

\* The accounts a thread need not probe: the completed list of whatever scan is active.
PlannedAfresh(t) == {}                                  \* mutant: it starts afresh
Planned(t) == active.completed \cap items[t]

\* The accounts a thread has yet to probe.
PendingAll(t) == items[t]                               \* mutant: completed ones too
Pending(t) == items[t] \ done[t]

\* The loop looks at the cancellation before it merges a row.
MayMergeAlways(t) == pc[t] = "loop"                     \* mutant: it does not
MayMerge(t) == pc[t] = "loop" /\ ~cancel

\* What the end of a scan leaves of the active scan.
Closed(t) == IF active.id = job[t] THEN NoScan ELSE active

Goto(t, l) == pc' = [pc EXCEPT ![t] = l]
\* The thread ends, and its locals with it.
Exit(t)    == /\ Goto(t, "idle")
              /\ job'   = [job EXCEPT ![t] = 0]
              /\ items' = [items EXCEPT ![t] = {}]
              /\ done'  = [done EXCEPT ![t] = {}]
Live(t)    == pc[t] # "idle"
\* Is a scan thread, or the finalizer of a cancelled scan, still at work?
Unwinding  == fin # "idle" \/ \E t \in Threads : Live(t)

\* Where a thread has a merged row in hand, and where its workers may be at work.
Holding == {"journal", "record", "recordUnsaved"}
Looping == Holding \cup {"loop", "fallback"}

-----------------------------------------------------------------------------
(***************************************************************************)
(* Starting a scan: start_scan.                                            *)
(***************************************************************************)

Start(t) ==
  /\ serving /\ ~running /\ pc[t] = "idle" /\ nScans < MaxScans
  /\ nScans' = nScans + 1
  /\ running' = TRUE /\ cancel' = FALSE /\ lastError' = FALSE
  /\ scanId' = nScans'
  /\ summary' = [done |-> 0, total |-> 0]
  /\ active' = NewScan(nScans')
  /\ overlapped' = (overlapped \/ Unwinding)
  /\ Goto(t, "clear")
  /\ UNCHANGED <<history, files, job, items, done, queue, rows, skipped, cur,
                 fin, stopper, serving, budget, acked, stopAcked>>

StartClear(t) ==
  /\ pc[t] = "clear"
  /\ ClearJournal
  /\ Goto(t, "startSave")
  /\ UNCHANGED <<memory, job, items, done, queue, rows, skipped, cur,
                 fin, stopper, serving, nScans, ghosts>>

StartSave(t) ==
  /\ pc[t] = "startSave"
  /\ \/ /\ SaveOk /\ Goto(t, "init")
        /\ UNCHANGED memory
     \/ /\ SaveFail /\ Goto(t, "idle")
        /\ running' = FALSE /\ active' = NoScan /\ lastError' = TRUE
        /\ UNCHANGED <<cancel, scanId, summary, history>>
  /\ UNCHANGED <<job, items, done, queue, rows, skipped, cur,
                 fin, stopper, serving, nScans, ghosts>>

(***************************************************************************)
(* The scan thread: _run_scan.                                             *)
(***************************************************************************)

\* The thread copies the active scan, which need not be the one it was
\* started for.
ScanInit(t) ==
  /\ pc[t] = "init"
  /\ job'   = [job EXCEPT ![t] = IF active.id # 0 THEN active.id ELSE scanId]
  /\ items' = [items EXCEPT ![t] = active.items]
  /\ Goto(t, IF active.ready THEN "plan" ELSE "snapshot")
  /\ UNCHANGED <<memory, files, done, queue, rows, skipped, cur,
                 fin, stopper, serving, nScans, budget, ghosts>>

ScanSnapshot(t) ==
  /\ pc[t] = "snapshot"
  /\ \E S \in Selections :
       /\ items' = [items EXCEPT ![t] = S]
       /\ active' = IF active.id = job[t]
                    THEN [active EXCEPT !.ready = TRUE, !.items = S]
                    ELSE active
  /\ Goto(t, "snapshotSave")
  /\ UNCHANGED <<running, cancel, scanId, summary, lastError, history, files,
                 job, done, queue, rows, skipped, cur,
                 fin, stopper, serving, nScans, budget, ghosts>>

\* A failed write raises: the error is noted and the thread unwinds.
ScanSnapshotSave(t) ==
  /\ pc[t] = "snapshotSave"
  /\ \/ SaveOk /\ Goto(t, "plan") /\ UNCHANGED lastError
     \/ SaveFail /\ Goto(t, "history") /\ lastError' = TRUE
  /\ UNCHANGED <<running, cancel, active, scanId, summary, history,
                 job, items, done, queue, rows, skipped, cur,
                 fin, stopper, serving, nScans, ghosts>>

ScanPlan(t) ==
  /\ pc[t] = "plan"
  /\ done' = [done EXCEPT ![t] = Planned(t)]
  /\ summary' = [done |-> Cardinality(done'[t]), total |-> Cardinality(items[t])]
  /\ active' = IF active.id = job[t]
               THEN [active EXCEPT !.completed = done'[t]] ELSE active
  /\ Goto(t, "planSave")
  /\ UNCHANGED <<running, cancel, scanId, lastError, history, files,
                 job, items, queue, rows, skipped, cur,
                 fin, stopper, serving, nScans, budget, ghosts>>

ScanPlanSave(t) ==
  /\ pc[t] = "planSave"
  /\ \/ /\ SaveOk /\ Goto(t, "loop")
        /\ queue' = [queue EXCEPT ![t] = IF cancel THEN {} ELSE Pending(t)]
        /\ UNCHANGED lastError
     \/ /\ SaveFail /\ Goto(t, "history") /\ lastError' = TRUE
        /\ UNCHANGED queue
  /\ UNCHANGED <<running, cancel, active, scanId, summary, history,
                 job, items, done, rows, skipped, cur,
                 fin, stopper, serving, nScans, ghosts>>

\* run_item in a pool worker: the account is probed, unless the scan is being
\* cancelled, in which case the worker returns a made-up "soft_fail" row.
Probe(t, i) ==
  /\ pc[t] \in Looping
  /\ i \in queue[t]
  /\ queue' = [queue EXCEPT ![t] = @ \ {i}]
  /\ IF cancel
     THEN skipped' = [skipped EXCEPT ![t] = @ \cup {i}] /\ UNCHANGED rows
     ELSE rows' = [rows EXCEPT ![t] = @ \cup {i}] /\ UNCHANGED skipped
  /\ UNCHANGED <<memory, files, pc, job, items, done, cur,
                 fin, stopper, serving, nScans, budget, ghosts>>

\* mutant: the row is merged, and its account forgotten
MergeForgets(t, i) ==
  /\ MayMerge(t)
  /\ i \in rows[t]
  /\ rows' = [rows EXCEPT ![t] = @ \ {i}]
  /\ Goto(t, "journal")
  /\ UNCHANGED <<memory, files, job, items, done, queue, skipped, cur,
                 fin, stopper, serving, nScans, budget, ghosts>>
\* The loop over as_completed takes a finished row; _merge_result and
\* _apply_policy then change the health of the account.
Merge(t, i) ==
  /\ MayMerge(t)
  /\ i \in rows[t] \cup skipped[t]
  /\ rows'    = [rows EXCEPT ![t] = @ \ {i}]
  /\ skipped' = [skipped EXCEPT ![t] = @ \ {i}]
  /\ cur'     = [cur EXCEPT ![t] = i]
  /\ Goto(t, "journal")
  /\ UNCHANGED <<memory, files, job, items, done, queue,
                 fin, stopper, serving, nScans, budget, ghosts>>

\* A row is taken after a cancellation: the loop drops every other future.
BreakLoop(t) ==
  /\ pc[t] = "loop" /\ cancel /\ rows[t] \cup skipped[t] # {}
  /\ queue'   = [queue EXCEPT ![t] = {}]
  /\ rows'    = [rows EXCEPT ![t] = {}]
  /\ skipped' = [skipped EXCEPT ![t] = {}]
  /\ Goto(t, "tail")
  /\ UNCHANGED <<memory, files, job, items, done, cur,
                 fin, stopper, serving, nScans, budget, ghosts>>

EndLoop(t) ==
  /\ pc[t] = "loop"
  /\ queue[t] = {} /\ rows[t] = {} /\ skipped[t] = {}
  /\ Goto(t, "tail")
  /\ UNCHANGED <<memory, files, job, items, done, queue, rows, skipped, cur,
                 fin, stopper, serving, nScans, budget, ghosts>>

\* _append_scan_journal.  After a torn tail the new line continues the old one
\* and neither can be parsed.
Journal(t) ==
  LET row == <<job[t], cur[t]>> IN
  /\ pc[t] = "journal"
  /\ \/ /\ journal' = IF journal.torn
                      THEN [journal EXCEPT !.torn = FALSE]
                      ELSE [journal EXCEPT !.rows = @ \cup {row}]
        /\ acked' = acked \cup {row}
        /\ Goto(t, "record")
        /\ UNCHANGED <<disk, budget>>
     \/ /\ budget.journal > 0
        /\ budget' = [budget EXCEPT !.journal = @ - 1]
        /\ Goto(t, "recordUnsaved")
        /\ UNCHANGED <<files, acked>>
  /\ UNCHANGED <<memory, job, items, done, queue, rows, skipped, cur,
                 fin, stopper, serving, nScans, stopAcked, overlapped>>

\* The lock block that publishes the row and its progress.
Record(t) ==
  /\ pc[t] \in {"record", "recordUnsaved"}
  /\ done' = [done EXCEPT ![t] = @ \cup {cur[t]}]
  /\ cur'  = [cur EXCEPT ![t] = NoItem]
  /\ summary' = [done |-> Cardinality(done'[t]), total |-> Cardinality(items[t])]
  /\ active' = IF active.id = job[t]
               THEN [active EXCEPT !.completed = done'[t]] ELSE active
  /\ Goto(t, IF pc[t] = "record" THEN "loop" ELSE "fallback")
  /\ UNCHANGED <<running, cancel, scanId, lastError, history, files,
                 job, items, queue, rows, skipped,
                 fin, stopper, serving, nScans, budget, ghosts>>

\* The journal failed: the whole state is written instead.
Fallback(t) ==
  /\ pc[t] = "fallback"
  /\ \/ /\ SaveOk
        /\ acked' = acked \cup {<<active.id, i>> : i \in active.completed}
     \/ SaveFail /\ UNCHANGED acked
  /\ Goto(t, "loop")
  /\ UNCHANGED <<memory, job, items, done, queue, rows, skipped, cur,
                 fin, stopper, serving, nScans, stopAcked, overlapped>>

\* After the loop: a cancelled scan skips the refill; another one saves its
\* phase, rebalances the tiers and may start a refill job.
Tail(t) ==
  /\ pc[t] = "tail"
  /\ \/ cancel /\ Goto(t, "summaryCut") /\ UNCHANGED <<files, budget>>
     \/ ~cancel /\ Goto(t, "history") /\ Save
  /\ UNCHANGED <<memory, job, items, done, queue, rows, skipped, cur,
                 fin, stopper, serving, nScans, ghosts>>

\* The summary reads the result of the rebalance unless the scan is
\* cancelled: when the cancellation it skipped the rebalance for has been
\* taken back in between, the name is unbound and the block raises.
SummaryCut(t) ==
  /\ pc[t] = "summaryCut"
  /\ lastError' = (lastError \/ ~cancel)
  /\ Goto(t, "history")
  /\ UNCHANGED <<running, cancel, active, scanId, summary, history, files,
                 job, items, done, queue, rows, skipped, cur,
                 fin, stopper, serving, nScans, budget, ghosts>>

\* The finally block: history, then the lock block that ends the scan, then
\* the save and the removal of the journal, which are outside of it.
ScanHistory(t) ==
  /\ pc[t] = "history"
  /\ AppendHistory
  /\ Goto(t, "release")
  /\ UNCHANGED <<running, cancel, active, scanId, summary, lastError, files,
                 job, items, done, queue, rows, skipped, cur,
                 fin, stopper, serving, nScans, budget, ghosts>>

Release(t) ==
  /\ pc[t] = "release"
  /\ running' = FALSE
  /\ active' = Closed(t)
  /\ Goto(t, "finalSave")
  /\ UNCHANGED <<cancel, scanId, summary, lastError, history, files,
                 job, items, done, queue, rows, skipped, cur,
                 fin, stopper, serving, nScans, budget, ghosts>>

FinalSave(t) ==
  /\ pc[t] = "finalSave"
  /\ \/ SaveOk /\ Goto(t, "finalClear") /\ UNCHANGED <<job, items, done>>
     \/ SaveFail /\ Exit(t)
  /\ UNCHANGED <<memory, queue, rows, skipped, cur,
                 fin, stopper, serving, nScans, ghosts>>

FinalClear(t) ==
  /\ pc[t] = "finalClear"
  /\ ClearJournal
  /\ Exit(t)
  /\ UNCHANGED <<memory, queue, rows, skipped, cur,
                 fin, stopper, serving, nScans, ghosts>>

-----------------------------------------------------------------------------
(***************************************************************************)
(* Stopping a scan: stop_scan, whose last act is a status poll.            *)
(***************************************************************************)

Stop ==
  /\ serving /\ running /\ stopper = 0 /\ budget.stop > 0
  /\ budget' = [budget EXCEPT !.stop = @ - 1]
  /\ cancel' = TRUE
  /\ active' = IF active.id # 0 THEN [active EXCEPT !.cancelReq = TRUE] ELSE active
  /\ stopper' = scanId
  /\ UNCHANGED <<running, scanId, summary, lastError, history, files, threads,
                 fin, serving, nScans, ghosts>>

StopSave ==
  /\ stopper # 0
  /\ \/ SaveOk /\ stopAcked' = stopAcked \cup {stopper}
     \/ SaveFail /\ UNCHANGED stopAcked
  /\ stopper' = 0
  /\ UNCHANGED <<memory, threads, fin, serving, nScans, acked, overlapped>>

(***************************************************************************)
(* ensure_scheduler: the startup hook, and the head of every status().  It *)
(* resumes an interrupted scan and finalizes a cancelled one.              *)
(***************************************************************************)

\* _prepare_recovery_locked
Recover(t) ==
  /\ Resumable /\ ~running /\ pc[t] = "idle"
  /\ running' = TRUE /\ cancel' = FALSE /\ lastError' = FALSE
  /\ scanId' = active.id
  /\ overlapped' = (overlapped \/ Unwinding)
  /\ Goto(t, "resumeSave")
  /\ UNCHANGED <<active, summary, history, files, job, items, done, queue, rows,
                 skipped, cur, fin, stopper, serving, nScans, budget, acked, stopAcked>>

ResumeSave(t) ==
  /\ pc[t] = "resumeSave"
  /\ Save
  /\ Goto(t, "init")
  /\ serving' = TRUE
  /\ UNCHANGED <<memory, job, items, done, queue, rows, skipped, cur,
                 fin, stopper, nScans, ghosts>>

\* _finalize_persisted_cancellation: its lock block, which also runs when the
\* scan thread of this very process is still unwinding.
Finalize ==
  /\ Cancelled /\ fin = "idle"
  /\ scanId' = active.id
  /\ cancel' = TRUE /\ running' = FALSE /\ active' = NoScan
  /\ fin' = "history"
  /\ UNCHANGED <<summary, lastError, history, files, threads, stopper, serving,
                 nScans, budget, ghosts>>

FinalizeHistory ==
  /\ fin = "history"
  /\ AppendHistory
  /\ fin' = "save"
  /\ UNCHANGED <<running, cancel, active, scanId, summary, lastError, files, threads,
                 stopper, serving, nScans, budget, ghosts>>

FinalizeSave ==
  /\ fin = "save"
  /\ \/ SaveOk /\ fin' = "clear" /\ UNCHANGED serving
     \/ SaveFail /\ fin' = "idle" /\ serving' = TRUE
  /\ UNCHANGED <<memory, threads, stopper, nScans, ghosts>>

FinalizeClear ==
  /\ fin = "clear"
  /\ ClearJournal
  /\ fin' = "idle" /\ serving' = TRUE
  /\ UNCHANGED <<memory, threads, stopper, nScans, ghosts>>

\* The startup hook finds nothing to resume.
Serve ==
  /\ ~serving /\ active.id = 0 /\ ~Unwinding
  /\ serving' = TRUE
  /\ UNCHANGED <<memory, files, threads, fin, stopper, nScans, budget, ghosts>>

\* _sync_schedule_locked finds that the interval was edited: the scheduler, or a
\* status poll, saves the state in the middle of whatever else goes on.
SchedulerSave ==
  /\ serving
  /\ SaveOk
  /\ UNCHANGED <<memory, threads, fin, stopper, serving, nScans, ghosts>>

(***************************************************************************)
(* A crash of the process and its restart: threads and memory are gone and *)
(* _load_state reads the files back.                                       *)
(***************************************************************************)
Crash ==
  /\ budget.crash > 0
  /\ budget' = [budget EXCEPT !.crash = @ - 1]
  /\ \/ UNCHANGED journal
     \/ /\ TornWrites /\ \E t \in Threads : pc[t] = "journal"
        /\ journal' = [journal EXCEPT !.torn = TRUE]
  /\ LET recovered == Recovered(disk, journal) IN
       /\ active' = [disk.active EXCEPT !.completed = recovered]
       /\ summary' = IF recovered = disk.active.completed THEN disk.summary
                     ELSE [done |-> Cardinality(recovered),
                           total |-> Cardinality(disk.active.items)]
  /\ scanId' = IF disk.active.id # 0 THEN disk.active.id ELSE disk.scanId
  /\ lastError' = disk.lastError /\ history' = disk.history
  /\ running' = FALSE /\ cancel' = FALSE
  /\ pc'    = [t \in Threads |-> "idle"]
  /\ job'   = [t \in Threads |-> 0]
  /\ cur'   = [t \in Threads |-> NoItem]
  /\ items' = [t \in Threads |-> {}]
  /\ done'  = [t \in Threads |-> {}]
  /\ queue' = [t \in Threads |-> {}]
  /\ rows'  = [t \in Threads |-> {}]
  /\ skipped' = [t \in Threads |-> {}]
  /\ fin' = "idle" /\ stopper' = 0 /\ serving' = FALSE
  /\ UNCHANGED <<disk, nScans, ghosts>>

-----------------------------------------------------------------------------
Init ==
  /\ running = FALSE /\ cancel = FALSE /\ lastError = FALSE
  /\ active = NoScan /\ scanId = 0
  /\ summary = [done |-> 0, total |-> 0]
  /\ history = [s \in ScanIds |-> NoRecord]
  /\ disk = Payload
  /\ journal = EmptyJournal
  /\ pc    = [t \in Threads |-> "idle"]
  /\ job   = [t \in Threads |-> 0]
  /\ cur   = [t \in Threads |-> NoItem]
  /\ items = [t \in Threads |-> {}]
  /\ done  = [t \in Threads |-> {}]
  /\ queue = [t \in Threads |-> {}]
  /\ rows  = [t \in Threads |-> {}]
  /\ skipped = [t \in Threads |-> {}]
  /\ fin = "idle" /\ stopper = 0 /\ serving = TRUE
  /\ nScans = 0
  /\ budget = [crash |-> MaxCrashes, stop |-> MaxStops,
               save |-> MaxSaveFaults, journal |-> MaxJournalFaults]
  /\ acked = {} /\ stopAcked = {} /\ overlapped = FALSE

ScanThread(t) ==
  \/ StartClear(t) \/ StartSave(t) \/ ResumeSave(t)
  \/ ScanInit(t) \/ ScanSnapshot(t) \/ ScanSnapshotSave(t)
  \/ ScanPlan(t) \/ ScanPlanSave(t)
  \/ (\E i \in Items : Probe(t, i) \/ Merge(t, i))
  \/ BreakLoop(t) \/ EndLoop(t)
  \/ Journal(t) \/ Record(t) \/ Fallback(t)
  \/ Tail(t) \/ SummaryCut(t)
  \/ ScanHistory(t) \/ Release(t) \/ FinalSave(t) \/ FinalClear(t)

Finalizer == Finalize \/ FinalizeHistory \/ FinalizeSave \/ FinalizeClear

Next ==
  \/ \E t \in Threads : Start(t) \/ Recover(t) \/ ScanThread(t)
  \/ Stop \/ StopSave \/ Finalizer \/ Serve \/ SchedulerSave
  \/ Crash

Spec == Init /\ [][Next]_vars

(***************************************************************************)
(* Every thread that can run does: probes time out, the scan threads and    *)
(* handlers are scheduled, and the startup hook runs after each restart.    *)
(***************************************************************************)
Fairness ==
  /\ \A t \in Threads : WF_vars(ScanThread(t))
  /\ WF_vars(\E t \in Threads : Recover(t))
  /\ WF_vars(Finalizer) /\ WF_vars(StopSave) /\ WF_vars(Serve)

FairSpec == Spec /\ Fairness

-----------------------------------------------------------------------------
(***************************************************************************)
(* Properties.  The code does not keep a new scan from starting while the   *)
(* thread of a stopped one is unwinding, and most of what follows is lost   *)
(* when it does: such properties say "overlapped \/ ...".                   *)
(***************************************************************************)
Labels == {"idle", "clear", "startSave", "resumeSave", "init", "snapshot",
           "snapshotSave", "plan", "planSave", "loop", "journal", "record",
           "recordUnsaved", "fallback", "tail", "summaryCut", "history",
           "release", "finalSave", "finalClear"}
Scan   == [id : 0 .. MaxScans, cancelReq : BOOLEAN, ready : BOOLEAN,
           items : SUBSET Items, completed : SUBSET Items]
Tally  == [done : Nat, total : Nat]
Report == [outcome : {"none", "ok", "cancelled", "error"}, done : Nat, total : Nat]

Budget == [crash : Nat, stop : Nat, save : Nat, journal : Nat]

MemoryOK ==
  /\ running \in BOOLEAN /\ cancel \in BOOLEAN /\ lastError \in BOOLEAN
  /\ active \in Scan /\ scanId \in 0 .. MaxScans /\ summary \in Tally
  /\ history \in [ScanIds -> Report]

FilesOK ==
  /\ disk \in [active : Scan, scanId : 0 .. MaxScans, summary : Tally,
               lastError : BOOLEAN, history : [ScanIds -> Report]]
  /\ journal \in [rows : SUBSET ((0 .. MaxScans) \X Items), torn : BOOLEAN]

HandsOK ==
  /\ pc \in [Threads -> Labels] /\ cur \in [Threads -> Items \cup {NoItem}]
  /\ \A t \in Threads : pc[t] \in Holding => cur[t] \in Items

LocalsOK ==
  /\ job \in [Threads -> 0 .. MaxScans]
  /\ items \in [Threads -> SUBSET Items] /\ done \in [Threads -> SUBSET Items]
  /\ queue \in [Threads -> SUBSET Items] /\ rows \in [Threads -> SUBSET Items]
  /\ skipped \in [Threads -> SUBSET Items]

OthersOK ==
  /\ fin \in {"idle", "history", "save", "clear"}
  /\ stopper \in 0 .. MaxScans /\ serving \in BOOLEAN /\ nScans \in 0 .. MaxScans
  /\ budget \in Budget
  /\ acked \subseteq (0 .. MaxScans) \X Items /\ stopAcked \subseteq ScanIds
  /\ overlapped \in BOOLEAN

\* Types of the monitor's memory, its files and the scan threads.
TypeOK == MemoryOK /\ FilesOK /\ HandsOK /\ LocalsOK /\ OthersOK

\* An account whose checkpoint was reported written (to the journal, or to the
\* state file when the journal failed) is among the completed accounts that a
\* restart at this very moment would find for the scan it would resume.
CheckpointsSurvive ==
  overlapped \/ \A i \in Items :
    <<disk.active.id, i>> \in acked => i \in Recovered(disk, journal)

\* Accounts that are completed are not probed again when a restarted service
\* resumes the scan: a worker probes no account whose checkpoint was reported
\* written in this scan.
CompletedNotProbedAgain ==
  [][\A t \in Threads, i \in Items :
       (i \notin rows[t] /\ i \in rows'[t]) =>
         overlapped \/ <<job[t], i>> \notin acked]_vars

\* The same without the exception, as README.md states it.
RestartedScanSkipsCompleted ==
  [][\A t \in Threads, i \in Items :
       (i \notin rows[t] /\ i \in rows'[t]) => <<job[t], i>> \notin acked]_vars

\* Once a stop request has been written, no worker probes an account for that
\* scan, in this process or in any later one.
StopSticks ==
  [][\A t \in Threads : rows'[t] \subseteq rows[t]
                          \/ overlapped \/ job[t] \notin stopAcked]_vars

\* The same without the exception: a scan with a persisted stop request is not
\* taken up again.
StoppedScanNeverProbes ==
  [][\A t \in Threads : rows'[t] \subseteq rows[t] \/ job[t] \notin stopAcked]_vars

\* The made-up "cancelled" rows of the workers never reach the health state of
\* an account: the loop notices the cancellation before it merges one.
CancelledRowsNotMerged ==
  [][\A t \in Threads : (pc[t] = "loop" /\ pc'[t] = "journal") =>
       overlapped \/ cur'[t] \notin skipped[t]]_vars

\* A scan that the history reports as neither failed nor cancelled has
\* finished every account of its snapshot, however often it was resumed.
Honest(h) == \A s \in ScanIds : h[s].outcome = "ok" => h[s].done = h[s].total
HistoryHonest == overlapped \/ Honest(history)

\* The state file and the journal, seen together, are a ledger of scans that a
\* crash cannot roll back.
Ledger == INSTANCE ScanLedger WITH
            current   <- disk.active.id,
            completed <- Recovered(disk, journal),
            last      <- disk.scanId
LedgerSpec == Ledger!Spec

\* A scan that has been persisted ends with a persisted record in the history,
\* even if the process crashes and restarts in the middle of it.  Only a stop
\* may end it without one: the finalizer empties the active scan first and adds
\* the record in a later lock block, and a save in between, then a crash, lose it.
StopAsked == budget.stop < MaxStops
ScanConcludes ==
  \A s \in ScanIds :
    disk.active.id = s ~>
      \/ overlapped
      \/ disk.history[s].outcome # "none"
      \/ StopAsked /\ disk.active.id # s

\* A stop request that found a scan ends it: its thread unwinds and no later
\* restart would resume it.
StopEndsScan ==
  \A s \in ScanIds :
    s \in stopAcked ~>
      overlapped \/ (disk.active.id # s /\ \A t \in Threads : job[t] # s)
=============================================================================
