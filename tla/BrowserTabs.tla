---------------------------- MODULE BrowserTabs ----------------------------
(***************************************************************************)
(* TabPool (src/tab_pool.py) as the registration workers use it: each       *)
(* thread keeps a Chromium of its own, and a registry of all of them lets   *)
(* JobRunner.stop_job and the end of a job quit them from another thread.   *)
(***************************************************************************)
EXTENDS Naturals, FiniteSets

CONSTANTS
  TabThreads,     \* the registration workers
  Closers,        \* threads that call shutdown: requests to stop, the job runner
  MaxChromiums    \* bound

ASSUME BrowserTabsAssumption ==
  TabThreads \cap Closers = {} /\ MaxChromiums \in Nat

VARIABLES
  started,    \* the number of Chromiums started so far
  alive,      \* those whose process runs
  registry,   \* _all_browsers
  ownTab,     \* thread -> the browser of its _thread_local, 0 for none
  tabPc,      \* thread -> where it is
  inHand,     \* thread -> the browsers it is about to register, or to quit
  unkillable  \* those that did not quit when they were told to

browserTabsVars == <<started, alive, registry, ownTab, tabPc, inHand, unkillable>>

InitBrowserTabs ==
  /\ started = 0 /\ alive = {} /\ registry = {}
  /\ ownTab = [w \in TabThreads |-> 0]
  /\ tabPc = [t \in TabThreads \cup Closers |-> "idle"]
  /\ inHand = [t \in TabThreads \cup Closers |-> {}]
  /\ unkillable = {}

\* get_tab without a browser: _create_browser starts one (or raises, to no effect) ...
StartChromium(w) ==
  /\ tabPc[w] = "idle" /\ ownTab[w] = 0 /\ started < MaxChromiums
  /\ started' = started + 1
  /\ alive' = alive \cup {started + 1}
  /\ inHand' = [inHand EXCEPT ![w] = {started + 1}]
  /\ tabPc' = [tabPc EXCEPT ![w] = "started"]
  /\ UNCHANGED <<registry, ownTab, unkillable>>

\* ... and registers it, under the lock, ...
RegisterChromiumLater(w) == registry               \* mutant: its thread alone knows it
RegisterChromium(w)      == registry \cup inHand[w]

Registers(w) ==
  /\ tabPc[w] = "started"
  /\ registry' = RegisterChromium(w)
  /\ tabPc' = [tabPc EXCEPT ![w] = "registered"]
  /\ UNCHANGED <<started, alive, ownTab, inHand, unkillable>>

\* ... and its first tab becomes the thread's.  If that raises, the thread has no browser
\* to release, and start_browser tries again with another one.
FirstTab(w) ==
  /\ tabPc[w] = "registered"
  /\ \/ \E b \in inHand[w] : ownTab' = [ownTab EXCEPT ![w] = b]
     \/ UNCHANGED ownTab
  /\ inHand' = [inHand EXCEPT ![w] = {}]
  /\ tabPc' = [tabPc EXCEPT ![w] = "idle"]
  /\ UNCHANGED <<started, alive, registry, unkillable>>

\* quit, whose errors are swallowed.
Quits(t, b) ==
  \/ alive' = alive \ {b} /\ UNCHANGED unkillable
  \/ unkillable' = unkillable \cup ({b} \cap alive) /\ UNCHANGED alive

\* release_tab: after a number of accounts (prepare_browser_for_next_account), after an
\* error, at the end of the thread.
ReleaseTab(w) ==
  /\ tabPc[w] = "idle" /\ ownTab[w] # 0
  /\ Quits(w, ownTab[w])
  /\ tabPc' = [tabPc EXCEPT ![w] = "quit"]
  /\ UNCHANGED <<started, registry, ownTab, inHand>>

\* _unregister, then the thread-local variables.
Unregisters(w) ==
  /\ tabPc[w] = "quit"
  /\ registry' = registry \ {ownTab[w]}
  /\ tabPc' = [tabPc EXCEPT ![w] = "unregistered"]
  /\ UNCHANGED <<started, alive, ownTab, inHand, unkillable>>

Forgets(w) ==
  /\ tabPc[w] = "unregistered"
  /\ ownTab' = [ownTab EXCEPT ![w] = 0]
  /\ tabPc' = [tabPc EXCEPT ![w] = "idle"]
  /\ UNCHANGED <<started, alive, registry, inHand, unkillable>>

\* shutdown: the registry is copied and emptied under the lock ...
Shutdown(c) ==
  /\ tabPc[c] = "idle" /\ registry # {}
  /\ inHand' = [inHand EXCEPT ![c] = registry] /\ registry' = {}
  /\ tabPc' = [tabPc EXCEPT ![c] = "closing"]
  /\ UNCHANGED <<started, alive, ownTab, unkillable>>

\* ... and its browsers quit one by one; the threads that use them are not told.
CloseOne(c) ==
  /\ tabPc[c] = "closing"
  /\ \E b \in inHand[c] :
       /\ Quits(c, b)
       /\ inHand' = [inHand EXCEPT ![c] = @ \ {b}]
       /\ tabPc' = IF inHand[c] = {b} THEN [tabPc EXCEPT ![c] = "idle"] ELSE tabPc
  /\ UNCHANGED <<started, registry, ownTab>>

NextBrowserTabs ==
  \/ \E w \in TabThreads :
       \/ StartChromium(w) \/ Registers(w) \/ FirstTab(w)
       \/ ReleaseTab(w) \/ Unregisters(w) \/ Forgets(w)
  \/ \E c \in Closers : Shutdown(c) \/ CloseOne(c)

BrowserTabsSpec == InitBrowserTabs /\ [][NextBrowserTabs]_browserTabsVars

-----------------------------------------------------------------------------
(* Properties *)

Chromiums == 1 .. started

BrowserTabsTypeOK ==
  /\ started \in 0 .. MaxChromiums
  /\ {alive, registry, unkillable} \subseteq SUBSET Chromiums
  /\ ownTab \in [TabThreads -> Chromiums \cup {0}]
  /\ tabPc \in [TabThreads \cup Closers ->
                  {"idle", "started", "registered", "quit", "unregistered", "closing"}]
  /\ inHand \in [TabThreads \cup Closers -> SUBSET Chromiums]

\* "Quit all known browsers" (tab_pool.py 9) reaches every Chromium: one that runs and did
\* not refuse to quit is in the registry, or a thread is just registering it or
\* quitting it (tab_pool.py 55-58, 191-231), also when it came to no tab, or a
\* shutdown came in between.
ChromiumsTracked ==
  alive \ unkillable \subseteq registry \cup UNION {inHand[t] : t \in TabThreads \cup Closers}
=============================================================================
