# Verification of the account-pool tool in TLA+

This directory holds TLA+ models of the account-pool operations tool in this
repository, configurations that check them with TLC, and theorems about them
that TLAPS proves. `PROJECT.json` maps every definition to the lines it models.

    tlc -workers 2 -config CpaScanSafe.cfg MCCpaScan     # one configuration
    tlapm CpaScanProofs.tla                              # one proof module

## The system

The tool keeps a pool of service accounts: it registers them, mints their auth
files ("CPA" files, `xai-*.json`), and watches and schedules the files a proxy
uses. A FastAPI WebUI and a command line drive it.

| Part | Source | State | Operations | What is hard | What makes it correct |
|---|---|---|---|---|---|
| Scan life cycle | `webui/cpa_pool.py` | memory of `CpaPoolMonitor`, `cpa_pool_state.json`, the scan journal | start, stop, resume, checkpoint, finalize, save | several threads, crash and restart, failed writes, two files that must agree | a reported checkpoint is never lost; a stop is final; a scan is concluded; the history is honest |
| Account health and governance | `webui/cpa_health.py`, `webui/cpa_pool.py`, `webui/cpa_pool_store.py` | a row per account in SQLite, the auth file | observe, apply policy, repair drift, rebalance, operator actions | read-work-write of whole rows by three actors, streaks and thresholds, two representations of a schedule | action on evidence only; the operator prevails; row and file agree |
| Upstream breaker | `webui/cpa_pool.py` 1415-1553, `cpa_pool_store.py` | breakers (cache and table), observations | ask, record, open, half-open, close | workers under the lock, scan thread without it, times of two precisions, sticky results | only canaries close it; a half-open breaker is decided |
| Governance limits, refill | `webui/cpa_pool.py` 2598-2914, 3035-3102 | counts per tier, meta rows | promote, demote, count rounds, order accounts | scan, scheduler and controller take turns; midnight, restarts | the daily limit holds; an order follows a confirmed shortage |
| Job runner | `webui/jobs.py` | jobs, a lane each for Grok and GPT | start, stop, run, finish | threads that outlive their job, functions replaced at run time | one job per lane; every worker ends |
| Registration pipeline | `register_cli.py` | task queue, mint queue, counters | register, enqueue, mint, stop markers | backpressure, stop, shutdown order | each registered account is minted or reported; no deadlock |
| Proxy pool and relay | `proxy_pool.py`, `proxy_relay.py` | pool file, table of results | import, delete, check, draw | files rewritten in place without a lock, crashes | a draw prefers what was found good |
| Tab pool | `tab_pool.py` | a tab per thread, a registry of browsers | get, recycle, release, shut down | shutdown from another thread | no browser is left that nobody can quit |
| Registration engines | `grok_register_ttk.py`, `protocol_register.py`, `gpt_register_flow.py` | reserved aliases, ledgers of used and failed ones, mailboxes, mail domains | choose, send, read a code, sign up, book, release, hold | many ends of an attempt, late codes, a fall-back to another way | an address is with one attempt, and once booked with none whose outcome is open; no old code |
| Minting and export | `cpa_xai/`, `cpa_export.py`, backfill in `webui/jobs.py` | a browser per thread, two directories, the backfill queue | PKCE, device flow, browser, write, move | fall-back order, reused browsers, a crash before the move | a file holds its own account's token; each account is counted once |
| Captcha solver | `local_solver/`, its client in `protocol_register.py` | task table, slots, a pool of Chromes with a queue | ask, poll, cancel, acquire, solve, rebuild | cancellation at every await, the pool rebuilt under its users | a failure is final; no worker is lost; one task per Chrome |
| File ledgers | `webui/store.py`, `register_cli.py`, `grok_register_ttk.py` | `accounts_cli.txt`, `mail_credentials.txt` | append, rewrite, load, write back | two locks that do not exclude each other, truncating writes | no account is lost, none returns; the list in memory is the file's |
| Conversion, mail page, Web | `account_convert.py`, `webui/mail_tools.py`, `webui/app.py` | caches | convert, fetch, route | I/O | - |

How they meet: `app.py` calls `ensure_scheduler` when it starts (108-109) and
`status` whenever a page polls; the scheduler thread starts scans, repairs
drift and rebalances; a scan probes accounts through a worker pool, updates
their rows and files, and at its end may start a refill job of the job runner;
that job runs the registration pipeline, whose mint workers write new auth files
that the next scan finds in the inventory. Scan and status share memory under
`_lock`; state file and journal are written under `_state_write_lock`; rows are
SQLite upserts; auth files are replaced atomically. A registering thread draws a
proxy and a mail address (of a mailbox, or of a domain), asks the captcha solver for
tokens, or works on a browser tab of its own, and appends the account to the ledger;
the mint, in the same job or in a later backfill, puts the auth file where the proxy
loads it. The text files are shared with the WebUI's requests, which rewrite them.

## Modules

| Module | Models |
|---|---|
| `CpaScan` | the scan life cycle: handlers, scan threads, finalizer, files, crash |
| `ScanLedger` | abstract: what the files promise to a service that has just restarted |
| `CpaHealth` | one observation's effect on an account's state, a pure function |
| `CpaAccount` | one account: row, file, scan, scheduler, operator (extends `CpaHealth`) |
| `RegisterJob` | the registration jobs: runner, registration workers, mint workers, their queues |
| `CpaBreaker` | the upstream breaker: cache, table, observations, probe workers, scan thread |
| `CpaGovernance` | the band of the tiers and the automatic refill, on numbers of accounts |
| `TurnstileSolver` | the captcha solver, its pool of Chromes, its clients |
| `Registrations` | the attempts of Grok and GPT jobs, and the mail addresses they share |
| `CpaMint` | minting an account's auth file, in a registration and in a backfill |
| `AccountFile` | `accounts_cli.txt`: appended by jobs, rewritten by deletions |
| `MailFile` | `mail_credentials.txt`: the list in memory, imports, returned tokens |
| `MailDomains` | the choice of a mail domain, and domains at rest |
| `ProxyPool` | the pool file, the table of results, the draws |
| `BrowserTabs` | the tab of each thread and the registry of browsers |
| `MCCpaScan`, `MCCpaAccount`, `MCRegisterJob`, `MCParts` | instances for TLC |
| `CpaScanProofs`, `CpaAccountProofs`, `RegisterJobProofs`, `RegistrationsProofs` | theorems about the module of that name |
| `CpaPolicyProofs` | theorems about `CpaBreaker` and `CpaGovernance` |
| `FileProofs` | theorems about `AccountFile`, `MailFile` and `CpaMint` |
| `PoolProofs` | theorems about `MailDomains`, `BrowserTabs`, `ProxyPool` and `TurnstileSolver` |
| `PartsProofs` | a theorem about `MCParts` |

### CpaScan

Variables carry the names of the fields without the underscore: `running`,
`cancel`, `active` (`_active_scan`, id 0 for the empty dict), `scanId`,
`summary` (the done and total of `_summary` and `_progress`, which the code sets
together), `lastError` (is it non-empty), `history`; `disk` is the state file and
`journal` the journal: the rows a reader can parse, and whether the tail is torn.
Each scan thread has a program counter `pc[t]` and the locals of `_run_scan`:
`job` (`scan_id`), `items`, `done` (`completed_set`), `queue` (accounts no worker
has taken), `rows` and `skipped` (finished futures: probed, or made up after a
cancellation) and `cur` (the row between merge and publication).

One action is one block under `_lock`, or one file operation under
`_state_write_lock`, so every interleaving of handlers and threads between two
blocks is explored:

- `Start`, `StartClear`, `StartSave`: `start_scan`.
- `ScanInit` ... `ScanPlanSave`: `_run_scan` up to its loop; `Probe` is `run_item`
  in a worker; `Merge`, `Journal`, `Record`, `Fallback` are one round of the loop,
  `BreakLoop` and `EndLoop` its exits; `Tail` and `SummaryCut` what follows;
  `ScanHistory`, `Release`, `FinalSave`, `FinalClear` the `finally` block. An
  exception (a failed snapshot or progress write, the unbound name in the
  summary) sets `lastError` and goes to the `finally` block.
- `Stop`, `StopSave`: `stop_scan`. `Recover`, `ResumeSave`, `Finalize*`, `Serve`:
  `ensure_scheduler` as startup hook or from a status poll. `SchedulerSave`: the
  save of a changed interval, from the scheduler or a poll.
- `Crash`: all threads and memory are lost, and `_load_state` with
  `_restore_scan_journal` reads the files back. A thread that was appending may
  leave an unterminated line (`TornWrites`). A state write is atomic
  (temporary file, then `os.replace`). The operating system survives: what was
  flushed is there.

A scan thread and the handler that starts it share a slot, as starting the thread
is the handler's last act. An automatic start by the scheduler is a `Start`.
Abstracted: the contents of rows, counts and log lines; which accounts are due
(`Selections`); the outcome "warn" of the history, which is "ok" here;
`recovery_pending`, implied by `active`; rebalance and refill in the tail, which
change none of this state. At most one stop handler and one finalizer are between
their blocks at a time.

`acked` and `stopAcked` record what was reported written: a journal append or a
state write that returned True. `overlapped` records that a scan was started or
resumed while another scan's thread or finalizer had not ended: the code does not
prevent it (`_running` turns False before the thread or the finalizer is done),
and most guarantees are lost from then on. Properties say `overlapped \/ ...`; the
runs that check them cut the search there (`CONSTRAINT Serial`), since such states
cannot violate them. What goes wrong in an overlap is the subject of
`CpaScanRestop` and of the list "Known weaknesses".

### ScanLedger

At most one scan is open; its completed accounts only grow while it is open;
scan ids only grow, and no closed scan is opened again. `CpaScan` implements it
with `current <- disk.active.id`, `completed <- Recovered(disk, journal)`,
`last <- disk.scanId`: state file and journal together are the ledger, a journal
line or a state write is a `Checkpoint`, and neither a crash nor a restart is a
step of it at all.

### CpaHealth and CpaAccount

`transition_state` has an operator per group of statuses. A row of a probe is a
status and a note: the note tells a definitive rejection from another, a busy
upstream after a successful models request, a transient failure that is spaced
from the last counted one. Streaks saturate at `MaxStreak`, which is at least every
threshold; times are abstracted (a cool-down is in the future or past).

`CpaAccount` follows one account. `db` is its row, `file` its auth file with what
governance reads of it. The scan, the scheduler and the operator each read the row
(`Read`), work on their copy (`mine`), change the file, and write the whole copy
back; each read, file change and write is a step of its own. `raced` records that
two actors held copies at once. `Bootstrap` is the intake of a file into the
inventory.

A probe is `_scan_one`: it judges by the file alone (`Verdict`), or loads its payload
(`Load`, 1981), may refresh the token once, before the request or after a 401
(`Refresh`), and is answered (`Probe`). A refresh writes the payload of `Load` back,
whole (`refresh_auth_file`, 255-290, called at 2044 and 2083): `undone` records that
the file had changed in between, so that the change is gone. If the file had been moved to
quarantine, a file stands in the hotload directory again beside the one moved; the
model goes on with the new one.

`WriteFails` is an upsert that raises (the end of a scan, a tick or a request), and
`Crash` the death of the process between any two steps. `cut` records that the row of a
change of the file was never written. Where the code asks something outside the model
(an open breaker, the limit on downgrades, a file that cannot be written, the policy
being off) the action that does nothing (`Spare`, `NotPatched`) is always possible. The
management API is not configured (the default), so schedules go to the file.
`GovRebalance` is `_rebalance_tiers` seen from one account, with the pool's targets
abstracted; both the scheduler and the end of a scan call it, and it is modelled in the
scheduler's slot. `OpRestore` is one step for the two file operations of
`restore_quarantine` (nothing reads a quarantined file), without its option to overwrite
a file that is there. `seen.marked`, a history variable like the rest of `seen`, says
that the row still has the tier of an earlier judgement that `Bootstrap` has read off
the file.

### RegisterJob

`JobRunner` on its Grok lane with the thread pools of `register_cli.py`. Its state per
job: `status`, `cancel` (`Job.cancel_event`), `options`, `shown` (`Job.stats`), the
queues `tasks` and `mintq` with `unfinished` (`unfinished_tasks`), and the threads;
`active` is the lane, and common to all jobs are the ledger file, `stats`
(`register_cli._stats`) and `hook`, the job whose log and wrappers stand in
`register_cli`.

| Thread | Counter | Code |
|---|---|---|
| runner | `pc`: start, prepare, spawn, poll, drain, mark, finally, over | `_run_register` |
| registration worker | `wpc`: head, loop, attempt, have, put, count | `_register_worker`, `register_one` |
| mint worker | `mpc`: get, mint, ack | `_mint_worker`, `_run_mint_job` |

A step is what happens between two places where another thread can tell the
difference: a look at the stop request, a queue operation, a change of `_stats`, of the
ledger or of the replaced functions. A wait with a time limit (five seconds for a
worker, thirty for a mint worker, and the drain of a stopped job) is a step that may be
taken whether or not the thread has ended, so threads may outlive their job;
`_finish` and the `finally` block after it are two steps.

Abstracted: the counts of failures, proxies and the `_proxy` stamp on a record, what is
shown while the job runs (it is overwritten at the end), and tests of the stop request
that repeat the one of `Take`. A number is registered or fails, a mint ends one way or
another: what happens inside them is the subject of `Registrations` and `CpaMint`. The
command line entry point, with its unlimited mode, is not modelled. `minted`, `lost`,
`late`, `mixed` and `overlapped` are history variables; `MaxStops` bounds the stops.

### CpaBreaker

`breaker` is `_breaker_cache`, `table` the breaker rows, `obs` the observations in order.
A probe (`BeginProbe` ... `PassOver`) is `_probe_one` in a worker: it notes `checked_at`,
asks the breaker of its stage under the lock (`AskRead`, `AskWrite`), writes the row of
the breaker outside of it (`AskPut`), and is answered, or passed over. `RecordRead` and
`RecordWrite` are `_record_observation` in the scan thread, which works on a copy and
takes no lock. `muted` are the accounts whose cached row keeps the mark
`breaker_skipped`, and which are not recorded any more. The clock counts half seconds,
because rows carry whole seconds and breakers do not; `RestartBreaker` reads the table
again. `CanaryLimit` and `CanaryOk` are 5 and 4
in the code, written into it; the other limits are settings. The runs take small ones.

### CpaGovernance

`pool` counts the accounts the metrics tell apart. `ScanRebalances` and
`SchedulerRebalances` are `_rebalance_tiers`, `ScanRefills` and `ControllerRefills` are
`_maybe_start_refill_locked` from a scan's end and from the controller's own thread: its
gates (frozen breaker, coverage, emergency, rounds, hold, daily and inventory limits, the
runner's lane) are conjuncts, in the code's order. Every step may find the breaker open
or closed: it is a matter of `CpaBreaker`.

What the refill reads is `_pool_metrics` (`Reads`): a new count, or the copy `cached`
while that is under 15 seconds old, or of any age when another thread is counting (1564).
The age is not kept: a reading may always be the copy. The count of the accounts the
proxy routes is of what was last heard of each, so any number up to that of the tier
(`Tallies`), and zero when the hotload directory cannot be read. A copy that was never
filled, as after a restart, is read as zeros (`Blind`): the code returns an empty dict.

`booking` is an order whose job has started (2878) and whose number is not in
`refill_daily` yet (2899); `BookOrder` writes it or fails, a crash forgets it. What is
lost that way is in `uncounted`. `StartsAnew` and `Noted` are two meta writes each, the
second of which may not happen. `Delivered`, `OrderStops`, `AccountLeaves` and
`OperatorOrders` are the environment, `GovernanceTime` ages the shortage and turns
the day, `GovernanceRestarts` keeps only the meta rows.

### TurnstileSolver

One event loop: a step is what runs from one `await` to the next, so the rebuilding of
the pool (`ensure`) is one step. `calling` is the client's side (`solve_turnstile`),
`given` the entry of `results_db`, `solving` the task with the queue it waits at, the
worker it has and whether its connection stands. `Aborted` is `CancelledError` at the
await a task stands at. A worker is known by its port and the pool it was built in:
`release` puts it into the queue of the day whatever pool it is of. Pages, proxies and
time limits are choices of outcome.

### Registrations

A thread takes a number (`TakeNext`), picks an alias (`Pick`: the candidate is chosen and
reserved under the selection lock), and goes the protocol, the browser or the GPT way;
each way may raise, fail softly or go on at every step. `reserved`, `book` (used and
failed), `held` (a GPT job keeps an address whose attempt failed softly) and `records` are
the code's; `mails` are the verification mails sent, each known by its attempt, and a
reader may find any mail of its address, whenever it comes. `MarkLedger` and `Free` are
`mark_used` and `mark_error` (`grok_register_ttk.py` 129-142): the line in the ledger, then
the release. `MarkFails` is a ledger that cannot be written: the exception comes before
the release. The GPT job and both failure handlers swallow it, the protocol
swallows it and marks once more after the account is written (`ProtocolWrite` with the
verdict "unmarked"), the browser goes to its own handler, which releases the address.
The line is then written or not, never in part. `stranded` collects the addresses that
an exception or a failed ledger carries past their release.

### CpaMint

`minter` is a thread with its account and place; the ways follow `mint_and_export`: the
SSO cookie over HTTP (PKCE with retries, then the device flow where allowed), then the
browser (cookies, sign-in, consent, polling). `session` says who is signed in in a
thread's browser, which it keeps between accounts. `authDir` and `hotDir` say whose token
an account's file holds in `cpa_auths` and in the hotload directory; the move from one to
the other (`shutil.move`) is one step. A backfill plans the
accounts without a file, counts each as done or failed, and may be cancelled or lost.

### AccountFile, MailFile

A rewrite is three steps, read, truncate and write, and whatever has no common lock goes
on between them. `risked` (appended during a rewrite, or not written back before a crash)
and `covered` (a token was written into a file of which the list is not) are the cases
in which the code breaks the promise; they are listed below. `MailFile` gives each write
a modification time of its own: two writes within the resolution of the file system's
clock are not modelled.

### MailDomains, ProxyPool, BrowserTabs

`MailDomains` is `_pick_cf_domain` with its modes ("any" stands for random and round
robin, whose index the threads share without a lock), the wait when all domains rest, and
the strikes, whose count is taken back under a lock of its own before the domain is
marked. `looked` and `whom` are history. `ProxyPool` has the check run of the WebUI, of
which its guard lets one run at a time, edits, and the draws, which read pool file and
table separately; `calm` in a draw says that no file changed under it. `BrowserTabs`
follows each Chromium from its start to its end; a worker registers, hands out, recycles
and forgets its own, and `shutdown` takes all from the registry and quits them one by one.
Left out are the ageing of check results after 24 hours and the snapshot of the pool that
a job of the WebUI draws from (`jobs.py` 1081-1083). `BrowserTabs` takes it that a
constructor `Chromium(...)` that raises leaves no process behind.

### MCParts

These modules share no state with each other, and their instances are explored in one
run: `part` says which of them a behaviour is of, and the others stand still (hence the
view, which drops their variables). The run stands for eleven independent ones.

## Checks

| Run | Bounds | Shows |
|---|---|---|
| `CpaScanSafe` | 2 accounts, 2 thread slots, 2 scans, 2 crashes, 2 stops, 1 journal fault | `TypeOK`; `CheckpointsSurvive`: a restart at any moment finds every reported checkpoint; `CompletedNotProbedAgain`; `LedgerSpec` |
| `CpaScanFaults` | the same with 1 crash, and 1 failed state write | `HistoryHonest`: "ok" means every account was finished; `StopSticks`: after a written stop no worker probes for that scan, in this process or later; `CancelledRowsNotMerged` |
| `CpaScanLive` | 1 scan, 1 crash, 1 stop, 1 journal fault, torn lines | `ScanConcludes`, `StopEndsScan` under fairness |
| `CpaScanTorn` | 1 scan, 2 crashes, torn lines | violated: see findings |
| `CpaScanRestop` | 2 scans, 1 stop | violated: see findings |
| `CpaAccount` | 3 probes, 2 scheduler picks, 2 operator actions, 5 of these together, thresholds 2, 4 kinds of starting file, crashes and failed writes anywhere, every interleaving; a behaviour with a race or a lost update is followed until an actor has used its turns, the scan all but one | `TypeOK`, `TierMatchesSchedule`, `OperatorDisableHolds`, `RejectedNotRouted`, `ActualTruthful`, `QuarantineHasEvidence`, `RecoveryTakesSuccesses` |
| `CpaAccountStreak` | 3 probes | violated: see findings |
| `RegisterJob` | 1 job of 2 accounts with a mint worker and a mint queue of 1, or of 1 inline; 2 workers, 1 stop | `TypeOK`; `CompletedMeansDone`: nothing is left behind by a completed job; `StopBounded`; `JobEnds`, `MintersEnd` under fairness |
| `RegisterJobZombie` | 2 jobs of 1 account, 1 worker, 1 mint worker, 1 stop | violated: see findings |
| `Parts` | see below | `PartsTypeOK` and the properties of the next table |
| `BreakerStuck` | 2 probes, 2 canaries, of which 1 must be well | violated: see findings |
| `SolverShared` | 3 calls, 2 ports, 2 slots, 2 builds, 1 death | violated: see findings |

| Part of `Parts` | Bounds | Shows |
|---|---|---|
| lane (`RegisterJob`) | 2 jobs of 1 account, 1 worker, 1 mint worker, 1 stop, of the first job | `CompletedStats`: a job's figures are its own; `WrappersInPlace` |
| breaker | 2 probes of an account each, window 4, hold 1, clock 2, 2 observations, 1 canary, restarts | `CloseNeedsCanaries` |
| governance | target 1, reserve 1, batch 1, daily limit 1, 2 rounds, inventory 2, 2 days of 2 ordered accounts | `DailySoftLimit`: only what passes for an emergency and what was never counted goes beyond it, over midnight and restarts; `LowWaterConfirmed` |
| solver | 2 calls, 2 ports, 2 slots, 2 builds, 1 death | `FailureIsFinal`; `WorkersAccounted`: each worker of the pool of the day is in its queue once or with one task |
| registrations | 1 Grok and 1 GPT worker, 1 mailbox of 2 aliases, 2 mail tries, 3 attempts | `AddressOnce`, `ReservationsAccounted`, `HeldNoOldCode` |
| mint | 1 mint worker, 1 backfill thread, 2 accounts, 1 crash | `MintedAsSelf`, `BackfillAccounts`, `OnlyInHotload` |
| accounts | 2 deletions, 2 accounts, 1 crash | `AccountsKept` |
| mailboxes | 2 threads, 2 mailboxes, 4 writes | `MailboxesCurrent` |
| domains | 2 threads, 2 domains, 2 strikes, rest 2, time 2, both modes | `RestingSkipped` |
| proxies | 2 check runs, 1 thread, 2 proxies, 1 edit, 1 crash | `DrawsFoundGood` |
| tabs | 2 threads, 1 shutdown, 3 Chromiums | `ChromiumsTracked` |

Why the bounds are enough. Two accounts let one be completed and another pending;
two slots let an ended, a stopped and a new scan coexist; a second scan is needed
for anything a scan may inherit; the second crash tells a loss on resume from one on
the first restart; one fault of each kind puts a failure at every place where one
can happen. For an account, thresholds of 2 separate the first result of a kind
from the next, and three probes allow a streak to be built, broken and built again.
For a job, two workers race for the one place on the mint queue, a stop may fall between
any two steps, and each of the two numbers may be tried twice; two jobs, one worker each,
let the threads of a stopped job meet the next one. The scan instances are symmetric in
threads and accounts; symmetry is used for safety only.

The parts of `Parts` are as small as lets the case of each property happen: two actors of
each kind that race, one fault of each kind (a crash, a Chrome that dies), a second round
of what may be inherited (a second build of the pool, a second day, a second account in
the same browser, a second attempt at an address). Its `Bounds` cut what is alike or adds
nothing: like actors begin in a fixed order, each probe has an account of its own, no
token refresh ends a probe of the first and the second only ever ends in the stage
"models", the second job is not stopped and tries its number once, the second account has
no SSO cookie and is minted by the backfill only, after a crash nobody is enrolled, and the
Grok job is not stopped before the GPT job, nor the GPT job once there is a third attempt.
The first midnight of governance comes after a scan, and no count of an order is lost after it.

Deadlock is not checked: the system may stop. A monitor with no scan to start within
the bound, an account with no probes left, or a finished job, is at rest, as the idle
program is; and in `Parts` every bound is an end.

`CheckpointsSurvive` and `CompletedNotProbedAgain` are checked without failed state
writes: `start_scan` removes the old journal before it writes its own state
(1906-1908), so a scan whose final write failed, then a failed first write of the
next one, loses checkpoints of the former. A failed write of the state *during* a
scan is harmless, which is what the journal is for.

Fairness (`FairSpec`). A scan thread that can step does (probes have timeouts, so a
worker returns); the finalizer and a stop handler that has begun go on; after a
restart the startup hook runs `ensure_scheduler`, which resumes or finalizes. Nobody
has to start or stop a scan, and a crash need not happen. `Finalizer` is fair since
every status poll, and the stop handler itself, runs it.

`ScanConcludes` has one exception, stated in it: a stopped scan may vanish from the
state file without a history record, when some save comes between the two lock
blocks of the finalizer and the process then crashes.

For the jobs every thread is fair: the runner waits with time limits once it is stopped,
a registration and a mint have time limits throughout. A worker that waits for room is
not helped by that: if the mint workers have gone it waits for ever, and `JobEnds` holds
because its job does not wait for it. Starting and stopping are not fair.

### Findings

1. `CpaScanTorn`. `_append_scan_journal` appends after an unterminated line a crash
   has left; the two lines become one that cannot be parsed, though the append was
   reported successful. After one more restart that account is probed again, which
   the repository's README (291) excludes. The recovery test leaves such a tail
   but never appends after it.
2. `CpaScanRestop`. Polling the status finalizes a stopped scan while its thread is
   still in the loop; a new start then clears the one `_cancel` event, and the
   stopped thread goes on probing and merging next to the new scan.
3. `CpaAccountStreak`. `no_grok45_threshold` is compared with a streak that counts
   failures of every status, whereas `config.example.json` (283) promises
   consecutive results of the same status.
4. `RegisterJobZombie`. A stopped job frees its lane after five seconds for each worker,
   whether or not they have ended: a worker still registering writes to the ledger and
   counts in the statistics of the next job, though a comment (jobs.py 257) says the
   lane runs serially.
5. `BreakerStuck`. A half-open breaker lets five canaries through and decides when five
   observations later than its own beginning are there (`cpa_pool.py` 1439, 1502). The first
   canary began before that, and its time is cut to whole seconds besides, so at most
   four can be counted: the breaker stays half-open, blocks its stage and freezes
   policy and refill, over restarts too. The setting is called the seconds it holds
   (`app.js` 322). The run has two canaries in place of five.
6. `SolverShared`. When a Chrome has died, or the mode changes, `ensure` builds a new
   queue of workers; a task that still has a worker of the old pool releases it into the
   new queue (`turnstile_engine.py` 229), which then holds that port twice. Two tasks are
   given one Chrome, and the clean-up of one closes the page of the other, which the
   docstring (97-100) says the pool prevents.

### Known weaknesses, not checked as properties

- A scan that overlaps another: the late `FinalClear` of the first removes the
  journal of the second; `AppendHistory` files the record under the id of the second.
- A rebalance never asks for `manual_override`, and taking a never-checked row of a
  managed file into the inventory overwrites it: both may enable what the operator has
  disabled. `OperatorDisableHolds` ends its promise at these two actions.
- Lost updates of the row: a scan that has read the row before an operator's action
  writes it back after it. The properties with `raced` promise nothing then.
- Lost updates of the file: a probe that refreshes the token writes back, after its network
  I/O, the payload it loaded before (`cpa_pool.py` 289), with the old `disabled`,
  `priority` and mark. An operator's disable in between is undone in the file while the row
  says disabled, a schedule of the scheduler likewise; nothing compares the two again.
  A file moved to quarantine meanwhile is written anew where the proxy loads it.
  `OperatorDisableHolds` and `ActualTruthful` except it (`undone`).
- A crash or a failed upsert between the change of a file and that of its row leaves
  them at odds for good (`cut`), as drift repair (1672) reads only the row.
- A crash between a merged row and its checkpoint counts the same result twice in the
  account's streaks.
- A stop during the staggered start of the workers raises in `sleep_with_cancel`: the job
  ends as "failed", and its mint workers, which get no markers, never end. `MintersEnd`
  speaks of completed and stopped jobs only.
- The wait for room on the mint queue (`register_cli.py` 478) ignores the stop: once the
  mint workers have ended, workers that wait there stay for the life of the process.
- The lane is free between `_finish` and the `finally` block of the job. A job started
  there takes the wrappers of the one before for the original functions, and both are
  lost or stay installed; `WrappersInPlace` excepts it.
- An account is in the ledger but never minted when something raises after the ledger
  write; `CompletedMeansDone` counts it as lost.
- In the random proxy mode a record gets its `_proxy` (`jobs.py` 575) after it was put on
  the mint queue.
- Breaker. A stage of which no row is ever "ok" ("refresh", and "models" while chat
  probes are on) does not recover. A row once skipped is never recorded again, as its
  mark stays in the cached result. A hold is shortened by an older row recorded late, and
  a stale half-open copy may be written back. `CloseNeedsCanaries` speaks of observations
  later than the hold the recording thread has read.
- Governance. Each scheduler tick resets the downgrade counter of a running scan (1659),
  so the limit for a round (`app.js` 347) is not kept. Fresh files have no row until the
  next scan, so the controller orders again every 30 seconds; without a scan each of its
  calls counts as a round. A crash or a failed write between the start of the refill job
  and its daily count (2878, 2899) forgets the order: the day may go above its limit by
  as much. A call that finds another thread counting and no copy, or a hotload directory
  that cannot be read, gets no figures (1564-1566) and takes zero ready accounts for
  an emergency (2685, 2727): with a full pool it orders at once, without a confirmed
  round and whatever the daily limit says. When the second of the two meta writes that
  begin anew fails, old rounds count along with new ones. `DailySoftLimit` and
  `LowWaterConfirmed` speak of orders of what is not taken for an emergency.
- Solver. The client does not recognise a failure and polls to the end of its time; its
  time limit does not cancel the task, and is shorter than the solver's. The function
  that cancels the tasks of a stopped job has no caller. A worker leaks when
  starting its Chrome raises (`leaked`). A task cancelled after its end overwrites its token.
  Tasks that wait at the queue of an old pool wait in vain.
- Registrations. A refusal (401, 403) by the sign-up service is taken for an error of the
  mailbox and blacklists the address. An exception in sending, verifying or signing up on
  the protocol, or in filling the page, leaves the alias reserved for the life of the
  process (`stranded`), and so does a ledger that cannot be written when the attempt has
  failed, or is one of a GPT job, or fails twice on the protocol. In the browser the address of a
  written account is then released and may be drawn again for another one. A line
  written in part would hide the next one from the check of used addresses. What threads hold after their stopped GPT job has released is
  never released. The protocol books an address before it writes the account, the
  browser and GPT after: a crash in between loses one or the other.
- Mint. A failed PKCE without permission for the device flow does not fall back to the
  browser, as its docstring says. A cancelled HTTP try goes on in the browser. A file that
  could not be moved (`stuck`) counts as existing for later backfills. Clearing a browser
  swallows its errors, and the next account may get the token of the one before
  (`unclean`, `smudged`): `MintedAsSelf` excepts it. Two threads may mint the same
  account; the second move fails and is counted as a failure.
- Account file. `store._lock` and `_accounts_file_lock` do not exclude each other: what is
  registered between the read and the write of a deletion is lost, and everything kept if
  the process dies in between. `AccountsKept` excepts these (`risked`).
- Mail file. Imports, deletions and returned tokens use two locks as well, and overwrite
  each other. A token written back stamps the time of the changed file on the list in
  memory: an imported mailbox stays unknown until the next change (`covered`). A load
  during a rewrite finds no mailbox and raises.
- Domains. A shuffled deck hands out domains that have come to rest since it was dealt
  (the docstring says they are skipped). The wait for a domain can be cancelled by nobody,
  as both callers pass no callback. A strike may be lost between two lock blocks.
- Proxy pool. A draw that reads a torn pool file goes direct. A crash in a half-written
  table loses the results (`wiped`). Ages of results are computed as if UTC were local time.
- Tab pool. A thread whose tab a shutdown has quit still points to it. Errors of
  `quit` are swallowed (`unkillable`). A stop that overtakes the end of its job shuts the
  browsers of the next.

## Proofs

TLAPS proves for every value of the constants (any finite inventory, any number of
threads, scans, crashes, stops and faults; any thresholds and starting files; any
number of jobs, workers and mint workers, and any limit of the mint queue):

| Theorem | Statement |
|---|---|
| `CpaScanProofs!TypeCorrect` | `Spec => []TypeOK` |
| `CpaScanProofs!HistoryHonestAlways` | `Spec => []HistoryHonest` |
| `CpaScanProofs!CancelledNeverMerged` | `Spec => CancelledRowsNotMerged` |
| `CpaScanProofs!StopSticksAlways` | `Spec => StopSticks` |
| `CpaScanProofs!CheckpointsSurviveAlways` | `Spec /\ SoundFiles => []CheckpointsSurvive` |
| `CpaScanProofs!CompletedNotProbedAgainAlways` | `Spec /\ SoundFiles => CompletedNotProbedAgain` |
| `CpaScanProofs!FilesAreLedger` | `Spec /\ SoundFiles /\ []~overlapped => LedgerSpec` |
| `CpaAccountProofs!TypeCorrect` | `Spec => []TypeOK` |
| `CpaAccountProofs!TierMatchesScheduleAlways` | `Spec => []TierMatchesSchedule` |
| `CpaAccountProofs!OperatorDisableHoldsAlways` | `Spec => []OperatorDisableHolds` |
| `CpaAccountProofs!RejectedNotRoutedAlways` | `Spec => []RejectedNotRouted` |
| `CpaAccountProofs!ActualTruthfulAlways` | `Spec => []ActualTruthful` |
| `CpaAccountProofs!QuarantineHasEvidenceAlways` | `Spec => QuarantineHasEvidence` |
| `CpaAccountProofs!RecoveryTakesSuccessesAlways` | `Spec => RecoveryTakesSuccesses` |
| `RegisterJobProofs!TypeCorrect` | `Spec => []TypeOK` |
| `RegisterJobProofs!QueueBounded` | `Spec => []BackpressureBound` |
| `RegisterJobProofs!UnfinishedExact` | `Spec => []QueueCounted` |
| `RegisterJobProofs!WrappersInPlaceAlways` | `Spec => []WrappersInPlace` |
| `RegisterJobProofs!StopBoundedAlways` | `Spec => []StopBounded` |
| `RegisterJobProofs!CompletedMeansDoneAlways` | `Spec => []CompletedMeansDone` |
| `RegisterJobProofs!CompletedStatsAlways` | `Spec => []CompletedStats` |
| `FileProofs!AccountsKeptAlways` | `AccountFileSpec => []AccountsKept` |
| `FileProofs!MailboxesCurrentAlways` | `MailFileSpec => []MailboxesCurrent` |
| `PoolProofs!RestingSkippedAlways` | `MailDomainsSpec => RestingSkipped` |
| `PoolProofs!ChromiumsTrackedAlways` | `BrowserTabsSpec => []ChromiumsTracked` |
| `PoolProofs!DrawsFoundGoodAlways` | `ProxyPoolSpec => DrawsFoundGood` |
| `PoolProofs!FailureIsFinalAlways` | `SolverSpec => FailureIsFinal` |
| `PoolProofs!WorkersAccountedAlways` | `SolverSpec => []WorkersAccounted` |
| `RegistrationsProofs!AddressOnceAlways` | `RegSpec => []AddressOnce` |
| `RegistrationsProofs!ReservationsAccountedAlways` | `RegSpec => []ReservationsAccounted` |
| `RegistrationsProofs!HeldNoOldCodeAlways` | `RegSpec => []HeldNoOldCode` |
| `FileProofs!MintedAsSelfAlways` | `MintSpec => []MintedAsSelf` |
| `FileProofs!OnlyInHotloadAlways` | `MintSpec => []OnlyInHotload` |
| `FileProofs!BackfillAccountsAlways` | `MintSpec => []BackfillAccounts` |
| `CpaPolicyProofs!CloseNeedsCanariesAlways` | `BreakerSpec => CloseNeedsCanaries` |
| `CpaPolicyProofs!DailySoftLimitAlways` | `GovernanceSpec => DailySoftLimit` |
| `CpaPolicyProofs!LowWaterConfirmedAlways` | `GovernanceSpec => LowWaterConfirmed` |
| `PartsProofs!PartsTypesAlways` | `PartsSpec => []PartsTypeOK` |

Assumed are the named `ASSUME`s of the models, which TLC evaluates on every run (the
inventory is finite and `NoItem` is not in it, there is a thread, selections are subsets
of the inventory, bounds are naturals, thresholds lie between 1 and `MaxStreak`, jobs are
finitely many, so are the debugging ports of the solver, which come from a fixed range,
and so on), and, where a statement names it, `SoundFiles`: no save of the
state file fails and no crash leaves half a journal line. Without it the statements about
checkpoints are false: `CpaScanTorn` shows it of torn lines, and a failed save lets the next
`start_scan` remove the journal of a scan that is still open in the file (see "Checks").

`CpaScanProofs`. "ok implies done = total" is not inductive: it depends on what the
thread holds and on nobody clearing the cancellation. The invariant is
`ScanInv == TypeOK /\ (overlapped \/ Serialized)`. `Serialized` says that at most one
thread is live, that a finalizer about to write the history runs only with `cancel` set,
that each thread is `Orderly`, and that the histories in memory and on disk are honest.
A thread is orderly when what its program counter promises holds: outside the loop its
rows, queue and hand are empty; in the loop its done, queued, probed, skipped and held
accounts make up its items unless it has been cancelled; made-up rows exist only with
`cancel`; the summary counts its done accounts; and in the tail either all are done or it
was cancelled. Each action is a lemma for types and one for `Serialized`; the action
property follows because a thread that merges has `~cancel`, hence no made-up rows.

`StopSticksAlways` adds `StopInv`: scan numbers are fresh (`Numbered`), and a stop request
that has been written, or is about to be, is in the active scan and, once written, in the
file, and cancels the live thread, whose scan is the current one (`StopKept`). One lemma
says what any step of a scan thread does to all this (`Advances`), one that it is kept.
It needs no assumption on the files.

The checkpoints add `Durable`, under `SoundFiles`. `Kept(a)` says that whoever reads the
active scan `a` and the journal finds every reported checkpoint, and holds of memory and
of the file; `Known` that the active scan itself knows of all of them but for the row just
journalled; `Resting` that with nobody at work no scan is open unless the service has
just restarted, which is why a start, which removes the journal, loses nothing;
`Tied(t)` ties a thread to the active scan: how it began, that its locals agree with memory
and file, and that nothing in its queue was ever reported (`Untouched`). Each step has a
lemma. `CompletedNotProbedAgain` is `Untouched`, seen at a probe.

`FilesAreLedger` is the refinement of `ScanLedger`. `Filed` says where the file stands
relative to memory: never ahead, and behind by the opening of one scan at most, so that a
save either opens a scan, closes it, or adds to its completed accounts. `Writes` lists
what a step may do to the files, and `WritesLedger` says what each is to the ledger.

`CpaAccountProofs`. The schedule equivalence follows from lemmas on the pure function
(`Route`, `Shut`, `transition_state` and `Updated` preserve type and schedule), and is
inductive only jointly for the row and all copies, since any copy may be written back.

The other five except histories in which two actors held copies at once (`raced`), so
their invariant is `Trusted == raced \/ Calm`. Two also except those in which a refresh
undid a change of the file or a row was never written (`undone`, `cut`: `Astray`); the
other three do not depend on the file, or, as `QuarantineHasEvidence`, only on what the
inventory took over from it. What they claim of the row is not kept step
by step: an actor that has changed the file has not yet written the row. `Latest` says
where the last word is, in the database or in the copy of the actor that is about to
write it, and that this is `Good`: the evidence bears out its counters, tier and health
(`Backed`), and what it says is in effect is what the file says (`Truth`). `Alone` and
`Copied` say that one actor at a time holds a copy, which until then is the row itself.
`Obeyed` adds what the operator has disabled (the row is in the operator's hand, and
neither scan nor governance is about to patch the file), `AtGovern` what the scan knows
when it is about to isolate, `Barred` that rejected credentials stay off a routed tier. The
observation is one pure function (`Updated`), so most lemmas are about it. The proof
found `QuarantineHasEvidence` false for starting files the earlier runs did not have: a
file marked quarantine by an earlier installation brings its tier into the inventory, and
its first soft failure isolates it. The property now names that case, and the run has it.

`RegisterJobProofs`. That `unfinished` is a natural is not inductive: it needs `QueueCounted`,
that it is the length of the mint queue plus the mint workers in hand of an item, which
in turn needs that no mint worker exists before its job is prepared (`Fresh`).
`BackpressureBound` is not inductive either: the room a worker has seen may be gone when
it puts its account. `Bounded` counts the workers between the two (`Placing`) as if their
account were on the queue; a worker that passes the test finds fewer than `QMax` items,
and at most all workers are then in between. `JobInv` is the conjunction; markers do not
count (`HeldAppend`), and taking an item only lowers the count (`HeldTail`).
`BackpressureBound` is in no run: with fewer than three accounts it cannot fail, and an
instance with three is too large to keep.

`WrappersInPlace`: `WrapInv`. The status of a job says where its runner is (`Phase`), a job
that is queued or running holds the lane (`Laned`), and unless a job was started in the
moment after `_finish`, so does one that still has its `finally` to run (`Single`); hence
nobody changes the wrappers between a runner's hook and its unhook (`Hooked`).

`StopBounded`: `LateInv`. The count of late accounts alone is not inductive; with the
workers still at an attempt added to it it is, as each late account ends an attempt and
no attempt begins after the stop.

`CompletedMeansDone`: `KeptInv`, for each job. Every account of the ledger is minted, lost,
with a worker, on the mint queue or in the hand of a mint worker (`LanePlaced`, `OwnedBy`). A
worker leaves an uncancelled job only when no number is left (`Used`), which needs that
workers not started yet are off (`NotYet`); so when the runner gets from the poll to the
drain nothing is left, and from the drain to the mark nothing is on the queue or in hand
(`Winding`). The last step is where `unfinished` is zero, so it rests on `QueueCounted`.

`CompletedStats` counts accounts, so it needs that none is counted twice. `OrderInv`: no
number is given twice (`NumberedOnce`), and what is in the ledger under a worker's number comes
from earlier retries, but for the account it has (`LaneTracked`). `OnceInv`: no account is in two
of minted, queue, mint workers, registration workers. `TallyInv`: while a job runs alone,
the counted accounts and those a worker is about to count are the ledger's without the
lost ones. It holds per job although all share one `_stats`, because `mixed` names the jobs
that began while threads of another were alive.

`FileProofs`, accounts. What has been read says nothing of what will be in the file.
`FileDivided` says what the rewriter's copy and the file hold at each of its steps: a copy never
contains an account already answered for, before the truncation it has everything nobody
asked to delete, and after it the file holds only what is at risk. `Rewriter` says that
only the holder of the lock is between these steps.

`FileProofs`, mailboxes. `PastTimes` (no noted time is later than the file's) and
`ReadCurrent` (what a thread has read is the file's, if the time it noted before is still
the file's) make the property inductive; it is the order stat-then-read of the loader that
they rest on.

`PoolProofs`, domains. `OffersRested`: a domain that is offered does not rest, or has come
to rest since the look, and then rests for a whole period from then on.

`PoolProofs`, tabs. `TabsTracked` names who can quit each running Chromium: the registry, a
thread that is closing, or the worker that has just started it. `QuitFirst` (a worker takes
from the registry only what it has told to quit) keeps it.

`PoolProofs`, proxies. `OneCheck` (one check runs at a time), hence `TableHonest` (the table
in the file is what the checks have found, but while it is being written), and
`CalmCurrent` (what a draw has read of the pool is the pool as long as no file changes).

`PoolProofs`, solver. `Doomed`: a failed task is over, or is withdrawn, and so its
cancellation is on its way. A step of a task that is not withdrawn therefore belongs to
one that has not failed, whatever becomes of the pool.

`PoolProofs`, workers. That each worker of the pool is in its queue or with a task is not
inductive: a task of the pool before may give its worker to the queue of the new one, whose
workers use the same ports. The number of the pool tells them apart: `NotNewer` (no
worker is of a pool to come), `SingleIn` and `HeldOnce` (none of the pool of the day is in
two places; older ones may be), `Covered` (each is in one). That a rebuilt queue, of as many
workers as there are ports and all different, has every port in it is the pigeonhole of
`BuiltWhole`, and needs finitely many ports. `NotYetAsked` keeps a task from being asked for
while an earlier one of the same name holds a worker. Cardinalities only come in at the
end, where the invariant makes one of the two sets empty and the other a singleton.

`RegistrationsProofs`. `AddressOnce` and `ReservationsAccounted` are inductive together,
with the shape of the locals (`Shaped`), with `Divided` (the address of an attempt
is neither held nor stranded, and none is both) and with `Decisions` (only the browser waits for
a cookie, so what a protocol attempt writes has left its address or could not be marked, and an
attempt that is written down or marked has an outcome). The steps are
grouped by what they do to an address: kept (`MoveKeeps`), none before and after
(`AwayKeeps`), given up (`LeaveKeeps`); a ledger gets at most the address that is being
marked (`MayBook`), and where the append fails the address stays an attempt's or is stranded
(`MarkFailsKeeps`). `HeldNoOldCode` adds `CodeInv`: attempts are
numbered (`Numbered`), the job keeps every address it had a mail sent to, in a ledger or
reserved, if only stranded (`Kept`), so an
attempt finds no mail at its address but its own (`OwnMails`), and has read the code there
(`ReadHere`).

`FileProofs`, minting. A browser that was cleared knows nobody but the account it is used for
(`OwnSession`), so the token is that account's (`OwnToken`), so is the file. For a backfill,
`Hands` says that workers have different accounts of the plan in hand, and `MintRest` that the
rest is to be done or was counted once.

`CpaPolicyProofs`, breaker. `NeverOpened`: before there are enough good answers, no breaker,
row or copy of a stage was ever anything but closed, so that a stale copy cannot bring a
closed one back; `Good`: one that is half open has waited out its hold. The rest counts
observations, which only get more.

`CpaPolicyProofs`, governance. `DayKept`: the counter that outlives restarts knows of every
order of today but for that of the tick still to write it (`Pending`) and those that a
restart or a failed write left out (`uncounted`). `RoundsKept`: rounds that count are of
different scans that saw too few accounts, unless a call counted before the first scan.
Both properties are read off at the one place where an order is made.

`PartsProofs`. To the part it names, a behaviour of `MCParts` is a behaviour of that part's
own specification (`PartStep`, `PartsBegin`), so `PartsTypeOK` follows from the theorem on
the types of each (`BreakerTypesAlways`, `SolverTypesAlways` and so on, in the modules
above; for the lane it is `RegisterJobProofs!TypeCorrect`). What bounds a counter in these
types is in the guards for most of them. Where it is not, an invariant is needed: the day of
the last order is no later than today and the rounds seen are among those begun
(`GovernanceBounded`, with `DayKept` and `RoundsKept`); no task of the solver waits at, or
has a worker of, a pool still to come (`Aged`), and the workers of the pool of the day are on
its ports (`Homed`); a mint worker that is not off has an account (`Attending`); an attempt
that is not at rest has an address and a number (`Placed`).

Only model-checked: the four liveness properties `ScanConcludes`, `StopEndsScan`, `JobEnds`
and `MintersEnd`, as liveness under fairness is out of the prover's reach. The properties of the runs that expect a
violation are false. Every other property of a run is a theorem.

## Open

1. Composition of scan and account (the crash between merge and checkpoint), and of
   breaker and scan (a frozen policy).
2. The command line entry point of `register_cli.py`; the proxy stamp on a record.

## Not modelled

- What happens on a page or in an exchange with a remote service (automation in
  `grok_register_ttk.py` and `browser_confirm.py`, `sentinel_token.py`, the protocol
  messages): the models take their outcomes as choices.
- `account_convert.py`: format conversion, pure functions without state.
- `webui/mail_tools.py`, `cf_mail_debug.py`, `webui/cliproxy_management.py`: clients of
  external services, without state that a check would reach.
- `webui/app.py` and the front end: routing and presentation, but for the guard on proxy
  checks, the startup hook and the pollers; `proxy_relay.py`: socket forwarding.
- The desktop window and the temporary-mail services of `grok_register_ttk.py`.
- One-shot scripts, and tests.
