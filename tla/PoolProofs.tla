----------------------------- MODULE PoolProofs -----------------------------
(***************************************************************************)
(* What the registering threads draw from: RestingSkipped for any number of *)
(* threads and of mail domains, any rest and any number of strikes;         *)
(* ChromiumsTracked for any number of workers, of threads that shut the     *)
(* pool down and of Chromiums; DrawsFoundGood for any number of proxies,    *)
(* checks, edits and draws; FailureIsFinal for any number of calls of the   *)
(* solver, of its ports and slots, of rebuilt pools and dying Chromes; and  *)
(* WorkersAccounted for the same, that a rebuilt pool neither loses nor     *)
(* doubles a worker while tasks of the pools before it still give theirs    *)
(* back.  Of all four, that they keep to their types.                       *)
(***************************************************************************)
EXTENDS MailDomains, BrowserTabs, ProxyPool, TurnstileSolver, FiniteSetTheorems,
        SequenceTheorems, TLAPS

(* The mail domains. *)

\* The fields of MailDomainsTypeOK that the argument needs, without the bound on the time.
DomainTypes ==
  /\ now \in Nat /\ rest \in [Domains -> Nat]
  /\ picker \in [Pickers -> [pc : {"idle", "offer", "waiting", "has", "out", "tiring"},
                             offer : SUBSET Domains, until : Nat,
                             domain : Domains \cup {"none"}, looked : Nat,
                             whom : {"rested", "all"}]]
  /\ \A w \in Pickers :
       picker[w].pc \in {"waiting", "has", "out", "tiring"} => picker[w].domain \in Domains

\* An offer is of the past, and what it offers does not rest, or rests since.
OffersRested ==
  \A w \in Pickers : picker[w].pc = "offer" =>
    /\ picker[w].looked <= now
    /\ picker[w].whom = "all" \/ \A d \in picker[w].offer :
         rest[d] <= now \/ rest[d] >= picker[w].looked + RestTime

DomainInv == DomainTypes /\ OffersRested

-----------------------------------------------------------------------------

LEMMA DomainInit == InitMailDomains => DomainInv
  BY DEF InitMailDomains, DomainInv, DomainTypes, OffersRested, NotPicking

\* Nothing turns an offer bad: time only passes, and a domain that tires now rests for
\* the whole of its time from now on.
LEMMA DomainStep == DomainInv /\ [NextMailDomains]_mailDomainsVars => DomainInv'
<1> SUFFICES ASSUME DomainInv, [NextMailDomains]_mailDomainsVars
             PROVE  DomainInv'
  OBVIOUS
<1> USE MailDomainsAssumption DEF DomainInv, DomainTypes, OffersRested, NotPicking
<1>1. ASSUME NEW w \in Pickers, PickBegins(w) PROVE DomainInv'
  <2>1. picker' = [picker EXCEPT ![w] =
          [pc |-> "offer", offer |-> Rested, until |-> 0, domain |-> "none", looked |-> now,
           whom |-> "rested"]]
    BY <1>1 DEF PickBegins, Offered
  <2>2. Rested \subseteq Domains /\ \A d \in Rested : rest[d] <= now
    BY DEF Rested
  <2> QED
    BY <1>1, <2>1, <2>2 DEF PickBegins
<1>2. ASSUME NEW w \in Pickers, PickWaits(w) PROVE DomainInv'
  <2>1. PICK d \in Domains :
          picker' = [picker EXCEPT ![w] =
            [pc |-> "waiting", offer |-> {}, until |-> rest[d] + 1, domain |-> d,
             looked |-> now, whom |-> "rested"]]
    BY <1>2 DEF PickWaits
  <2> QED
    BY <1>2, <2>1 DEF PickWaits
<1>3. ASSUME NEW w \in Pickers, WaitEnds(w) PROVE DomainInv'
  <2>1. OfferAfterWait \subseteq Domains
    BY DEF OfferAfterWait, Rested
  <2>2. Rested # {} => \A d \in OfferAfterWait : rest[d] <= now
    BY DEF OfferAfterWait, Rested
  <2>3. picker' = [picker EXCEPT ![w] =
          [pc |-> "offer", offer |-> OfferAfterWait, until |-> 0, domain |-> "none",
           looked |-> now, whom |-> IF Rested = {} THEN "all" ELSE "rested"]]
    BY <1>3 DEF WaitEnds, Offered
  <2> QED
    BY <1>3, <2>1, <2>2, <2>3 DEF WaitEnds
<1>4. ASSUME NEW w \in Pickers, NEW d \in Domains, PickAny(w, d) PROVE DomainInv'
  BY <1>4 DEF PickAny, Handed
<1>5. ASSUME NEW w \in Pickers, NEW d \in Domains, PickDealt(w, d) PROVE DomainInv'
  BY <1>5 DEF PickDealt, Handed
<1>6. ASSUME NEW w \in Pickers, NEW d \in Domains, PickDrawn(w, d) PROVE DomainInv'
  BY <1>6 DEF PickDrawn, Handed
<1>7. ASSUME NEW w \in Pickers, Refused(w) PROVE DomainInv'
  BY <1>7 DEF Refused, Tires
<1>8. ASSUME NEW w \in Pickers, CodeCame(w) PROVE DomainInv'
  BY <1>8 DEF CodeCame
<1>9. ASSUME NEW w \in Pickers, NoCode(w) PROVE DomainInv'
  BY <1>9 DEF NoCode
<1>10. ASSUME NEW w \in Pickers, StrikesBack(w) PROVE DomainInv'
  BY <1>10 DEF StrikesBack
<1>11. ASSUME NEW w \in Pickers, StruckOut(w) PROVE DomainInv'
  BY <1>11 DEF StruckOut, Tires
<1>12. ASSUME NEW w \in Pickers, NothingNoted(w) PROVE DomainInv'
  BY <1>12 DEF NothingNoted
<1>13. CASE TimePasses
  BY <1>13 DEF TimePasses
<1>14. CASE UNCHANGED mailDomainsVars
  BY <1>14 DEF mailDomainsVars
<1> QED
  BY <1>1, <1>2, <1>3, <1>4, <1>5, <1>6, <1>7, <1>8, <1>9, <1>10, <1>11, <1>12, <1>13, <1>14
  DEF NextMailDomains

-----------------------------------------------------------------------------

\* A domain that rests is handed out only if it has tired since the pick last looked, or if
\* all of them rested after a wait (_pick_cf_domain, mark_cf_domain_cooldown).
THEOREM RestingSkippedAlways == MailDomainsSpec => RestingSkipped
<1>1. DomainInv =>
        \A w \in Pickers, d \in Domains :
          PickAny(w, d) \/ PickDealt(w, d)
            => rest[d] <= now \/ rest[d] >= picker[w].looked + RestTime \/ picker[w].whom = "all"
  BY DEF DomainInv, OffersRested, PickAny, PickDealt
<1>2. DomainInv /\ [NextMailDomains]_mailDomainsVars =>
        [\A w \in Pickers, d \in Domains :
           PickAny(w, d) \/ PickDealt(w, d)
             => \/ rest[d] <= now
                \/ rest[d] >= picker[w].looked + RestTime
                \/ picker[w].whom = "all"]_mailDomainsVars
  BY <1>1
<1> QED
  BY DomainInit, DomainStep, <1>2, PTL DEF MailDomainsSpec, RestingSkipped

-----------------------------------------------------------------------------
(* The browser tabs. *)

\* Those that run and have not refused to quit.
Running == alive \ unkillable

\* A thread that shuts the pool down is closing what it holds, and holds nothing else.
ClosersClear ==
  \A c \in Closers : tabPc[c] \in {"idle", "closing"} /\ (tabPc[c] = "idle" => inHand[c] = {})

\* A worker takes from the registry only what it has told to quit.
QuitFirst == \A w \in TabThreads : tabPc[w] = "quit" => ownTab[w] \notin Running

\* Only between its start and its registration is a Chromium with its worker alone.
TabsTracked ==
  \A b \in Running :
    \/ b \in registry
    \/ \E c \in Closers : b \in inHand[c]
    \/ \E w \in TabThreads : tabPc[w] = "started" /\ b \in inHand[w]

TabsInv == BrowserTabsTypeOK /\ ClosersClear /\ QuitFirst /\ TabsTracked

-----------------------------------------------------------------------------

LEMMA TabsInit == InitBrowserTabs => TabsInv
  BY BrowserTabsAssumption
  DEF InitBrowserTabs, TabsInv, BrowserTabsTypeOK, Chromiums, ClosersClear, QuitFirst, TabsTracked,
      Running

\* Every step keeps to the types.
LEMMA TabsTypeStep == BrowserTabsTypeOK /\ [NextBrowserTabs]_browserTabsVars => BrowserTabsTypeOK'
<1> SUFFICES ASSUME BrowserTabsTypeOK, [NextBrowserTabs]_browserTabsVars
             PROVE  BrowserTabsTypeOK'
  OBVIOUS
<1> USE BrowserTabsAssumption DEF BrowserTabsTypeOK, Chromiums
<1>1. ASSUME NEW w \in TabThreads, StartChromium(w) PROVE BrowserTabsTypeOK'
  <2>1. started' \in 0 .. MaxChromiums /\ 1 .. started' = 1 .. started \cup {started + 1}
    BY <1>1 DEF StartChromium
  <2>2. 1 .. started \subseteq 1 .. started'
    BY <2>1
  <2>3. {alive, registry, unkillable}' \subseteq SUBSET (1 .. started')
    BY <1>1, <2>1 DEF StartChromium
  <2>4. ownTab' \in [TabThreads -> 1 .. started' \cup {0}]
    BY <1>1, <2>2 DEF StartChromium
  <2>5. tabPc' \in [TabThreads \cup Closers ->
                      {"idle", "started", "registered", "quit", "unregistered", "closing"}]
    BY <1>1 DEF StartChromium
  <2>6. inHand' \in [TabThreads \cup Closers -> SUBSET (1 .. started')]
    BY <1>1, <2>1 DEF StartChromium
  <2> QED
    BY <2>1, <2>3, <2>4, <2>5, <2>6
<1>2. ASSUME NEW w \in TabThreads, Registers(w) PROVE BrowserTabsTypeOK'
  BY <1>2 DEF Registers, RegisterChromium
<1>3. ASSUME NEW w \in TabThreads, FirstTab(w) PROVE BrowserTabsTypeOK'
  BY <1>3 DEF FirstTab
<1>4. ASSUME NEW w \in TabThreads, ReleaseTab(w) PROVE BrowserTabsTypeOK'
  BY <1>4 DEF ReleaseTab, Quits
<1>5. ASSUME NEW w \in TabThreads, Unregisters(w) PROVE BrowserTabsTypeOK'
  BY <1>5 DEF Unregisters
<1>6. ASSUME NEW w \in TabThreads, Forgets(w) PROVE BrowserTabsTypeOK'
  BY <1>6 DEF Forgets
<1>7. ASSUME NEW c \in Closers, Shutdown(c) PROVE BrowserTabsTypeOK'
  BY <1>7 DEF Shutdown
<1>8. ASSUME NEW c \in Closers, CloseOne(c) PROVE BrowserTabsTypeOK'
  BY <1>8 DEF CloseOne, Quits
<1>9. CASE UNCHANGED browserTabsVars
  BY <1>9 DEF browserTabsVars
<1> QED
  BY <1>1, <1>2, <1>3, <1>4, <1>5, <1>6, <1>7, <1>8, <1>9 DEF NextBrowserTabs

\* The same, for what the threads hold.
LEMMA TabsStep ==
  TabsInv /\ [NextBrowserTabs]_browserTabsVars => ClosersClear' /\ QuitFirst' /\ TabsTracked'
<1> SUFFICES ASSUME TabsInv, [NextBrowserTabs]_browserTabsVars
             PROVE  ClosersClear' /\ QuitFirst' /\ TabsTracked'
  OBVIOUS
<1> USE BrowserTabsAssumption
    DEF TabsInv, BrowserTabsTypeOK, Chromiums, ClosersClear, QuitFirst, TabsTracked, Running
<1>1. ASSUME NEW w \in TabThreads, StartChromium(w)
      PROVE  ClosersClear' /\ QuitFirst' /\ TabsTracked'
  BY <1>1 DEF StartChromium
<1>2. ASSUME NEW w \in TabThreads, Registers(w)
      PROVE  ClosersClear' /\ QuitFirst' /\ TabsTracked'
  BY <1>2 DEF Registers, RegisterChromium
<1>3. ASSUME NEW w \in TabThreads, FirstTab(w)
      PROVE  ClosersClear' /\ QuitFirst' /\ TabsTracked'
  BY <1>3 DEF FirstTab
<1>4. ASSUME NEW w \in TabThreads, ReleaseTab(w)
      PROVE  ClosersClear' /\ QuitFirst' /\ TabsTracked'
  BY <1>4 DEF ReleaseTab, Quits
<1>5. ASSUME NEW w \in TabThreads, Unregisters(w)
      PROVE  ClosersClear' /\ QuitFirst' /\ TabsTracked'
  BY <1>5 DEF Unregisters
<1>6. ASSUME NEW w \in TabThreads, Forgets(w)
      PROVE  ClosersClear' /\ QuitFirst' /\ TabsTracked'
  BY <1>6 DEF Forgets
<1>7. ASSUME NEW c \in Closers, Shutdown(c)
      PROVE  ClosersClear' /\ QuitFirst' /\ TabsTracked'
  BY <1>7 DEF Shutdown
<1>8. ASSUME NEW c \in Closers, CloseOne(c)
      PROVE  ClosersClear' /\ QuitFirst' /\ TabsTracked'
  BY <1>8 DEF CloseOne, Quits
<1>9. CASE UNCHANGED browserTabsVars
  BY <1>9 DEF browserTabsVars
<1> QED
  BY <1>1, <1>2, <1>3, <1>4, <1>5, <1>6, <1>7, <1>8, <1>9 DEF NextBrowserTabs

-----------------------------------------------------------------------------

\* A shutdown reaches every Chromium that runs and obeys, whoever started it, whether
\* it came to a tab, and however the shutdowns and releases cross each other (TabPool).
THEOREM ChromiumsTrackedAlways == BrowserTabsSpec => []ChromiumsTracked
<1>1. TabsInv /\ [NextBrowserTabs]_browserTabsVars => TabsInv'
  BY TabsTypeStep, TabsStep DEF TabsInv
<1>2. TabsInv => ChromiumsTracked
  BY DEF TabsInv, TabsTracked, Running, ChromiumsTracked
<1> QED
  BY TabsInit, <1>1, <1>2, PTL DEF BrowserTabsSpec

-----------------------------------------------------------------------------
(* The proxies. *)

\* The part of the types that the argument needs.
ProxyTypes ==
  /\ proxyFile \subseteq Proxies
  /\ results \in [Proxies -> Findings] /\ found \in [Proxies -> Findings]
  /\ check \in [Checks -> [pc : {"none", "checking", "read", "truncated"},
                           todo : SUBSET Proxies, proxy : Proxies \cup {Direct},
                           table : [Proxies -> Findings]]]
  /\ poolEdit \in [pc : {"none", "read", "truncated"}, next : SUBSET Proxies]
  /\ DOMAIN taker = Takers
  /\ \A w \in Takers : {"pc", "pool", "calm"} \subseteq DOMAIN taker[w]
                       /\ taker[w].pool \subseteq Proxies

Truncated == \E k \in Checks : check[k].pc = "truncated"

\* Only one check runs, ...
OneCheck == \A k, l \in Checks : k # l => check[k].pc = "none" \/ check[l].pc = "none"

\* ... so what it has read and put a result in is what it will find in the table, which
\* is what the checks have found, but while the table is being written.
TableHonest ==
  ~wiped =>
    /\ Truncated \/ results = found
    /\ \A k \in Checks : check[k].pc \in {"read", "truncated"} =>
         check[k].table = [found EXCEPT ![check[k].proxy] = check[k].table[check[k].proxy]]

\* What a thread has read of the pool holds while no file changes.
CalmCurrent ==
  \A w \in Takers : taker[w].pc = "pool" /\ taker[w].calm
                      => taker[w].pool = proxyFile /\ ~Truncated

ProxyInv == ProxyTypes /\ OneCheck /\ TableHonest /\ CalmCurrent

-----------------------------------------------------------------------------

LEMMA ProxyInit == InitProxyPool => ProxyInv
<1> SUFFICES ASSUME InitProxyPool PROVE ProxyInv
  OBVIOUS
<1> USE DEF InitProxyPool, NoCheck, Checking, NoChange, NotTaking, Unchecked, Findings
<1>1. ProxyTypes
  BY DEF ProxyTypes
<1>2. OneCheck /\ TableHonest /\ CalmCurrent
  BY DEF OneCheck, TableHonest, CalmCurrent, Truncated
<1> QED
  BY <1>1, <1>2 DEF ProxyInv

\* After a file has changed no draw is calm.
LEMMA DisturbedTakers ==
  ASSUME ProxyTypes, taker' = Disturbed
  PROVE  /\ DOMAIN taker' = Takers
         /\ \A w \in Takers : /\ {"pc", "pool", "calm"} \subseteq DOMAIN taker'[w]
                              /\ taker'[w].pool \subseteq Proxies
                              /\ taker'[w].calm = FALSE
BY DEF ProxyTypes, Disturbed

LEMMA ProxyStep == ProxyInv /\ [NextProxyPool]_proxyPoolVars => ProxyInv'
<1> SUFFICES ASSUME ProxyInv, [NextProxyPool]_proxyPoolVars PROVE ProxyInv'
  OBVIOUS
<1>0. ProxyTypes /\ OneCheck /\ TableHonest /\ CalmCurrent
  BY DEF ProxyInv
<1>1. CASE UNCHANGED proxyPoolVars
  BY <1>0, <1>1 DEF proxyPoolVars, ProxyInv, ProxyTypes, OneCheck, TableHonest, CalmCurrent,
     Truncated
<1>2. ASSUME NEW k \in Checks, CheckBegins(k) PROVE ProxyInv'
  <2>1. PICK named \in SUBSET proxyFile :
          check' = [check EXCEPT ![k] =
            [pc |-> IF named = {} THEN "none" ELSE "checking",
             todo |-> named, proxy |-> Direct, table |-> Unchecked]]
    BY <1>2 DEF CheckBegins, Checking
  <2>2. ProxyTypes'
    BY <1>0, <1>2, <2>1 DEF CheckBegins, ProxyTypes, Unchecked, Findings
  <2>3. \A l \in Checks : check[l].pc = "none"
    BY <1>2 DEF CheckBegins, MayCheck
  <2>4. OneCheck' /\ ~Truncated /\ ~Truncated'
        /\ \A l \in Checks : check'[l].pc \notin {"read", "truncated"}
    BY <1>0, <2>1, <2>3 DEF OneCheck, Truncated, ProxyTypes
  <2> QED
    BY <1>0, <1>2, <2>2, <2>4 DEF CheckBegins, ProxyInv, TableHonest, CalmCurrent
<1>3. ASSUME NEW k \in Checks, ResultReads(k) PROVE ProxyInv'
  <2>1. PICK p \in Proxies, r \in {"ok", "bad"} :
          check' = [check EXCEPT ![k] =
            [pc |-> "read", todo |-> check[k].todo, proxy |-> p,
             table |-> [results EXCEPT ![p] = r]]]
    BY <1>0, <1>3 DEF ResultReads, ProxyTypes
  <2>2. ProxyTypes'
    BY <1>0, <1>3, <2>1 DEF ResultReads, ProxyTypes, Findings
  <2>3. check[k].pc = "checking" /\ UNCHANGED <<proxyFile, results, taker, found, wiped>>
    BY <1>3 DEF ResultReads
  <2>4. OneCheck' /\ (Truncated' <=> Truncated) /\ ~Truncated
        /\ \A l \in Checks : check'[l].pc \in {"read", "truncated"} => l = k
    BY <1>0, <2>1, <2>3 DEF OneCheck, Truncated, ProxyTypes
  <2>5. check'[k].proxy = p /\ check'[k].table = [results EXCEPT ![p] = r]
    BY <1>0, <2>1 DEF ProxyTypes
  <2>6. ~wiped => check'[k].table = [found EXCEPT ![p] = check'[k].table[p]]
    BY <1>0, <2>4, <2>5 DEF TableHonest, ProxyTypes
  <2>7. TableHonest'
    BY <1>0, <2>3, <2>4, <2>5, <2>6 DEF TableHonest
  <2> QED
    BY <1>0, <2>2, <2>3, <2>4, <2>7 DEF ProxyInv, CalmCurrent
<1>4. ASSUME NEW k \in Checks, ResultTruncates(k) PROVE ProxyInv'
  <2>1. /\ check' = [check EXCEPT ![k].pc = "truncated"] /\ check[k].pc = "read"
        /\ results' = Unchecked /\ taker' = Disturbed
        /\ UNCHANGED <<proxyFile, poolEdit, found, wiped>>
    BY <1>4 DEF ResultTruncates
  <2>2. ProxyTypes'
    <3>1. check' \in [Checks -> [pc : {"none", "checking", "read", "truncated"},
                           todo : SUBSET Proxies, proxy : Proxies \cup {Direct},
                           table : [Proxies -> Findings]]]
      <4>1. check[k] = [pc |-> "read", todo |-> check[k].todo, proxy |-> check[k].proxy,
                        table |-> check[k].table]
        BY <1>0, <2>1 DEF ProxyTypes
      <4>2. [check[k] EXCEPT !.pc = "truncated"]
            = [pc |-> "truncated", todo |-> check[k].todo, proxy |-> check[k].proxy,
               table |-> check[k].table]
        BY <4>1
      <4>3. check' = [check EXCEPT ![k] =
              [pc |-> "truncated", todo |-> check[k].todo, proxy |-> check[k].proxy,
               table |-> check[k].table]]
        BY <2>1, <4>2
      <4> QED
        BY <1>0, <4>3 DEF ProxyTypes
    <3>2. results' \in [Proxies -> Findings]
      BY <2>1 DEF Unchecked, Findings
    <3> QED
      BY <1>0, <2>1, <3>1, <3>2, DisturbedTakers DEF ProxyTypes
  <2>3. \A l \in Checks : l # k => check'[l] = check[l]
    BY <1>0, <2>1 DEF ProxyTypes
  <2>4. check'[k].pc = "truncated" /\ check'[k].table = check[k].table
        /\ check'[k].proxy = check[k].proxy
    BY <1>0, <2>1 DEF ProxyTypes
  <2>5. OneCheck' /\ Truncated'
    BY <1>0, <2>1, <2>3, <2>4 DEF OneCheck, Truncated
  <2>6. TableHonest'
    BY <1>0, <2>1, <2>3, <2>4, <2>5 DEF TableHonest
  <2>7. CalmCurrent'
    BY <1>0, <2>1, DisturbedTakers DEF CalmCurrent
  <2> QED
    BY <2>2, <2>5, <2>6, <2>7 DEF ProxyInv
<1>5. ASSUME NEW k \in Checks, ResultWrites(k) PROVE ProxyInv'
  <2> DEFINE p == check[k].proxy
  <2>1. PICK todo \in SUBSET Proxies :
          check' = [check EXCEPT ![k] =
            [pc |-> IF todo = {} THEN "none" ELSE "checking",
             todo |-> todo, proxy |-> Direct, table |-> Unchecked]]
    BY <1>0, <1>5 DEF ResultWrites, Checking, ProxyTypes
  <2>2. /\ check[k].pc = "truncated" /\ results' = check[k].table
        /\ found' = [found EXCEPT ![p] = check[k].table[p]]
        /\ taker' = Disturbed /\ UNCHANGED <<proxyFile, poolEdit, wiped>>
    BY <1>5 DEF ResultWrites
  <2>3. ProxyTypes'
    <3>0. check[k].table \in [Proxies -> Findings] /\ found \in [Proxies -> Findings]
      BY <1>0 DEF ProxyTypes
    <3>1. found' \in [Proxies -> Findings]
      <4> DEFINE t == check[k].table
      <4>1. found' = [found EXCEPT ![p] = t[p]] /\ p \in Proxies \cup {Direct}
        BY <1>0, <2>2 DEF ProxyTypes
      <4>2. t \in [Proxies -> Findings]
        BY <3>0
      <4> HIDE DEF t, p
      <4>3. CASE p \in Proxies
        BY <3>0, <4>1, <4>2, <4>3
      <4>4. CASE p \notin Proxies
        BY <3>0, <4>1, <4>4
      <4> QED
        BY <4>3, <4>4
    <3>2. check' \in [Checks -> [pc : {"none", "checking", "read", "truncated"},
                           todo : SUBSET Proxies, proxy : Proxies \cup {Direct},
                           table : [Proxies -> Findings]]]
      BY <1>0, <2>1 DEF ProxyTypes, Unchecked, Findings
    <3> QED
      BY <1>0, <2>2, <3>0, <3>1, <3>2, DisturbedTakers DEF ProxyTypes
  <2>4. \A l \in Checks : check'[l].pc \in {"none", "checking"}
    BY <1>0, <2>1, <2>2 DEF OneCheck, ProxyTypes
  <2>5. OneCheck'
    BY <1>0, <2>1, <2>2 DEF OneCheck, ProxyTypes
  <2>6. TableHonest'
    BY <1>0, <2>2, <2>4 DEF TableHonest, Truncated
  <2>7. CalmCurrent'
    BY <1>0, <2>2, DisturbedTakers DEF CalmCurrent
  <2> QED
    BY <2>3, <2>5, <2>6, <2>7 DEF ProxyInv
<1>6. CASE PoolReads
  <2>1. PICK next \in SUBSET Proxies : poolEdit' = [pc |-> "read", next |-> next]
    BY <1>0, <1>6 DEF PoolReads, ProxyTypes
  <2> QED
    BY <1>0, <1>6, <2>1 DEF PoolReads, ProxyInv, ProxyTypes, OneCheck, TableHonest, CalmCurrent,
     Truncated
<1>7. CASE PoolTruncates \/ PoolWrites
  <2>1. UNCHANGED <<results, check, found, wiped>> /\ taker' = Disturbed
    BY <1>7 DEF PoolTruncates, PoolWrites
  <2>2. proxyFile' \subseteq Proxies
        /\ poolEdit' \in [pc : {"none", "read", "truncated"}, next : SUBSET Proxies]
    BY <1>0, <1>7 DEF PoolTruncates, PoolWrites, NoChange, ProxyTypes
  <2>3. ProxyTypes'
    BY <1>0, <2>1, <2>2, DisturbedTakers DEF ProxyTypes
  <2>4. OneCheck' /\ TableHonest'
    BY <1>0, <2>1 DEF OneCheck, TableHonest, Truncated
  <2>5. CalmCurrent'
    BY <1>0, <2>1, DisturbedTakers DEF CalmCurrent
  <2> QED
    BY <2>3, <2>4, <2>5 DEF ProxyInv
<1>8. CASE PoolCrash
  <2>1. /\ check' = [l \in Checks |-> NoCheck] /\ poolEdit' = NoChange
        /\ taker' = [w \in Takers |-> NotTaking] /\ wiped' = (wiped \/ Truncated)
        /\ UNCHANGED <<proxyFile, results, found>>
    BY <1>8 DEF PoolCrash, Truncated
  <2>2. ProxyTypes'
    BY <1>0, <2>1 DEF ProxyTypes, NoCheck, Checking, NoChange, NotTaking, Unchecked, Findings
  <2>3. OneCheck' /\ CalmCurrent'
    BY <2>1 DEF OneCheck, CalmCurrent, NoCheck, Checking, NotTaking
  <2>4. TableHonest'
    BY <1>0, <2>1 DEF TableHonest, NoCheck, Checking
  <2> QED
    BY <2>2, <2>3, <2>4 DEF ProxyInv
<1>9. ASSUME NEW w \in Takers, TakePool(w) PROVE ProxyInv'
  <2>1. /\ taker' = [taker EXCEPT ![w] =
             [pc |-> "pool", pool |-> proxyFile,
              calm |-> poolEdit.pc # "truncated" /\ \A k \in Checks : check[k].pc # "truncated"]]
        /\ UNCHANGED <<proxyFile, results, check, poolEdit, found, wiped>>
    BY <1>9 DEF TakePool
  <2>2. ProxyTypes'
    BY <1>0, <2>1 DEF ProxyTypes
  <2>3. OneCheck' /\ TableHonest'
    BY <1>0, <2>1 DEF OneCheck, TableHonest, Truncated
  <2>4. CalmCurrent'
    BY <1>0, <2>1 DEF CalmCurrent, ProxyTypes, Truncated
  <2> QED
    BY <2>2, <2>3, <2>4 DEF ProxyInv
<1>10. ASSUME NEW w \in Takers, NEW p, Takes(w, p) PROVE ProxyInv'
  <2>1. /\ taker' = [taker EXCEPT ![w] = NotTaking]
        /\ UNCHANGED <<proxyFile, results, check, poolEdit, found, wiped>>
    BY <1>10 DEF Takes
  <2>2. ProxyTypes'
    BY <1>0, <2>1 DEF ProxyTypes, NotTaking
  <2>3. OneCheck' /\ TableHonest'
    BY <1>0, <2>1 DEF OneCheck, TableHonest, Truncated
  <2>4. CalmCurrent'
    BY <1>0, <2>1 DEF CalmCurrent, ProxyTypes, NotTaking, Truncated
  <2> QED
    BY <2>2, <2>3, <2>4 DEF ProxyInv
<1> QED
  BY <1>1, <1>2, <1>3, <1>4, <1>5, <1>6, <1>7, <1>8, <1>9, <1>10 DEF NextProxyPool

\* The action of DrawsFoundGood.
FoundGood ==
  \A w \in Takers, p \in Proxies \cup {Direct} :
    Takes(w, p) /\ taker[w].calm /\ ~wiped
      => IF p = Direct THEN proxyFile = {}
         ELSE found[p] = "ok" \/ \A q \in proxyFile : found[q] # "ok"

LEMMA DrawsGood == ProxyInv => FoundGood
<1> SUFFICES ASSUME ProxyInv, NEW w \in Takers, NEW p \in Proxies \cup {Direct},
                    Takes(w, p), taker[w].calm, ~wiped
             PROVE  IF p = Direct THEN proxyFile = {}
                    ELSE found[p] = "ok" \/ \A q \in proxyFile : found[q] # "ok"
  BY DEF FoundGood
<1>1. taker[w].pool = proxyFile /\ results = found /\ proxyFile \subseteq Proxies
  BY DEF Takes, ProxyInv, ProxyTypes, CalmCurrent, TableHonest
<1>2. p \in Usable(proxyFile) \/ (Usable(proxyFile) = {} /\ p = Direct)
  BY <1>1 DEF Takes
<1> QED
  BY <1>1, <1>2, ProxyPoolAssumption DEF Usable

\* A draw that no change of a file disturbs prefers a proxy that its last check found good, and
\* is direct only if the pool is empty, however checks and edits interleave, since checks
\* do not run beside each other (proxy_pool.py 181, app.py 370).
THEOREM DrawsFoundGoodAlways == ProxyPoolSpec => DrawsFoundGood
<1>1. ProxyInv /\ [NextProxyPool]_proxyPoolVars => [FoundGood]_proxyPoolVars
  BY DrawsGood
<1> QED
  BY <1>1, ProxyInit, ProxyStep, PTL DEF ProxyPoolSpec, DrawsFoundGood, FoundGood

-----------------------------------------------------------------------------
(* The solver.  FailureIsFinal is not inductive: that the page of a failed task gives no
   token depends on where a failed task may stand. *)

\* All that is needed of the shape of the tasks.
TasksShaped(tasks) ==
  DOMAIN tasks = Calls /\ \A t \in Calls : "pc" \in DOMAIN tasks[t]

\* A failed task is over, or its cancellation is on its way to it.
Doomed ==
  \A t \in Calls : given[t] = "fail" => solving[t].pc \in {"none", "done"} \/ t \in withdrawn

FailInv ==
  /\ DOMAIN given = Calls
  /\ TasksShaped(solving)
  /\ Doomed

\* Cut, Waits, Works and the end of a task change the place of one task at most.
LEMMA CutStays ==
  ASSUME TasksShaped(solving), NEW P
  PROVE  TasksShaped(Cut(P)) /\ \A t \in Calls : Cut(P)[t].pc = solving[t].pc
<1>1. DOMAIN Cut(P) = Calls
  BY DEF Cut
<1>2. ASSUME NEW t \in Calls
      PROVE  "pc" \in DOMAIN Cut(P)[t] /\ Cut(P)[t].pc = solving[t].pc
  <2>1. Cut(P)[t] = IF solving[t].worker.port \in P
                    THEN [solving[t] EXCEPT !.live = FALSE] ELSE solving[t]
    BY DEF Cut
  <2>2. "pc" \in DOMAIN solving[t]
    BY DEF TasksShaped
  <2> QED
    BY <2>1, <2>2
<1> QED
  BY <1>1, <1>2 DEF TasksShaped

LEMMA OneMoves ==
  ASSUME NEW tasks, TasksShaped(tasks), NEW u \in Calls, NEW task, "pc" \in DOMAIN task
  PROVE  /\ TasksShaped([tasks EXCEPT ![u] = task])
         /\ [tasks EXCEPT ![u] = task][u] = task
         /\ \A t \in Calls \ {u} : [tasks EXCEPT ![u] = task][t] = tasks[t]
BY DEF TasksShaped

LEMMA WaitsMoves ==
  ASSUME NEW tasks, TasksShaped(tasks), NEW u \in Calls, NEW m, NEW b
  PROVE  /\ TasksShaped(Waits(tasks, u, m, b))
         /\ Waits(tasks, u, m, b)[u].pc = "wait"
         /\ \A t \in Calls \ {u} : Waits(tasks, u, m, b)[t].pc = tasks[t].pc
<1> DEFINE task == [NoTask EXCEPT !.pc = "wait", !.mode = m, !.queue = b]
<1>1. "pc" \in DOMAIN task /\ task.pc = "wait"
  BY DEF NoTask
<1>2. Waits(tasks, u, m, b) = [tasks EXCEPT ![u] = task]
  BY DEF Waits
<1> HIDE DEF task
<1>3. /\ TasksShaped([tasks EXCEPT ![u] = task])
      /\ [tasks EXCEPT ![u] = task][u] = task
      /\ \A t \in Calls \ {u} : [tasks EXCEPT ![u] = task][t] = tasks[t]
  BY <1>1, OneMoves
<1> QED
  BY <1>1, <1>2, <1>3

\* A task that ends leaves the invariant to the others.
LEMMA EndedDoomed ==
  ASSUME FailInv, NEW tasks, TasksShaped(tasks), NEW u \in Calls, NEW r,
         \A t \in Calls : tasks[t].pc = solving[t].pc,
         Ended(u, tasks, r)
  PROVE  FailInv'
<1> DEFINE task == [NoTask EXCEPT !.pc = "done"]
<1>1. "pc" \in DOMAIN task /\ task.pc = "done"
  BY DEF NoTask
<1>2. solving' = [tasks EXCEPT ![u] = task] /\ given' = [given EXCEPT ![u] = r]
      /\ withdrawn' = withdrawn \ {u}
  BY DEF Ended
<1> HIDE DEF task
<1>3. TasksShaped(solving)' /\ solving'[u].pc = "done"
      /\ \A t \in Calls \ {u} : solving'[t].pc = solving[t].pc
  BY <1>1, <1>2, OneMoves DEF TasksShaped
<1>4. DOMAIN given' = Calls /\ \A t \in Calls \ {u} : given'[t] = given[t]
  BY <1>2 DEF FailInv
<1> QED
  BY <1>2, <1>3, <1>4 DEF FailInv, Doomed

\* What has happened to the tasks in a step that moves one which is not withdrawn.
LEMMA MoveDoomed ==
  ASSUME FailInv, NEW u \in Calls, u \notin withdrawn,
         solving[u].pc \notin {"none", "done"},
         TasksShaped(solving)', UNCHANGED <<given, withdrawn>>,
         \A t \in Calls \ {u} : solving'[t].pc = solving[t].pc
  PROVE  FailInv'
BY DEF FailInv, Doomed

LEMMA StayDoomed ==
  ASSUME FailInv, TasksShaped(solving)', UNCHANGED given, withdrawn \subseteq withdrawn',
         \A t \in Calls : solving'[t].pc = solving[t].pc
  PROVE  FailInv'
BY DEF FailInv, Doomed

\* A failed call keeps its failure when a task ends, unless it ends that call otherwise.
LEMMA EndedFinal ==
  ASSUME FailInv, NEW tasks, NEW u \in Calls, NEW r, Ended(u, tasks, r),
         r = "fail" \/ given[u] # "fail"
  PROVE  \A t \in Calls : given[t] = "fail" => given'[t] = "fail"
BY DEF FailInv, Ended

Final == \A t \in Calls : given[t] = "fail" => given'[t] = "fail"

LEMMA InitFail == InitSolver => FailInv
BY DEF InitSolver, FailInv, TasksShaped, Doomed, NoTask

\* The pool is rebuilt by a task that is not withdrawn: it waits at the new pool, or ends.
LEMMA RebuildFail ==
  ASSUME FailInv, NEW u \in Calls, NEW m, GoesOn(u),
         solving[u].pc \notin {"none", "done"}, Rebuild(u, m)
  PROVE  FailInv' /\ Final
<1>1. TasksShaped(Cut(Ports)) /\ \A t \in Calls : Cut(Ports)[t].pc = solving[t].pc
  BY CutStays DEF FailInv
<1>2. PICK b : \/ Ended(u, Cut(Ports), "fail")
               \/ solving' = Waits(Cut(Ports), u, m, b) /\ UNCHANGED <<given, withdrawn>>
  BY DEF Rebuild
<1>3. CASE Ended(u, Cut(Ports), "fail")
  BY <1>1, <1>3, EndedDoomed, EndedFinal DEF Final
<1>4. CASE solving' = Waits(Cut(Ports), u, m, b) /\ UNCHANGED <<given, withdrawn>>
  <2>1. TasksShaped(solving)' /\ \A t \in Calls \ {u} : solving'[t].pc = solving[t].pc
    BY <1>1, <1>4, WaitsMoves DEF TasksShaped
  <2> QED
    BY <2>1, <1>4, MoveDoomed DEF GoesOn, Final
<1> QED
  BY <1>2, <1>3, <1>4

LEMMA StepFail == FailInv /\ [NextSolver]_solverVars => FailInv' /\ Final
<1> SUFFICES ASSUME FailInv, [NextSolver]_solverVars
             PROVE  FailInv' /\ Final
  OBVIOUS
<1>0. TasksShaped(solving)
  BY DEF FailInv
<1>1. CASE UNCHANGED solverVars
  BY <1>1 DEF solverVars, FailInv, TasksShaped, Doomed, Final
<1>2. ASSUME NEW u \in Calls, Ask(u) \/ Told(u) \/ Poll(u)
      PROVE  FailInv' /\ Final
  BY <1>2 DEF Ask, Told, Poll, FailInv, TasksShaped, Doomed, Final
<1>3. ASSUME NEW u \in Calls, Cancelled(u)
      PROVE  FailInv' /\ Final
  BY <1>3 DEF Cancelled, FailInv, TasksShaped, Doomed, Final
<1>4. ASSUME NEW u \in Calls, Arrive(u)
      PROVE  FailInv' /\ Final
  <2> DEFINE task == [solving[u] EXCEPT !.pc = "queued"]
  <2>1. "pc" \in DOMAIN task
    BY <1>0 DEF TasksShaped
  <2>2. solving' = [solving EXCEPT ![u] = task] /\ given' = [given EXCEPT ![u] = "pending"]
        /\ given[u] = "absent" /\ UNCHANGED withdrawn
    BY <1>4 DEF Arrive
  <2> HIDE DEF task
  <2>3. TasksShaped(solving)' /\ \A t \in Calls \ {u} : solving'[t] = solving[t]
    BY <1>0, <2>1, <2>2, OneMoves DEF TasksShaped
  <2>4. DOMAIN given' = Calls /\ given'[u] = "pending"
        /\ \A t \in Calls \ {u} : given'[t] = given[t]
    BY <2>2 DEF FailInv
  <2> QED
    BY <2>2, <2>3, <2>4 DEF FailInv, Doomed, Final
<1>5. ASSUME NEW u \in Calls, Aborted(u) \/ Starve(u) \/ AcquireFails(u)
      PROVE  FailInv' /\ Final
  <2>1. Ended(u, solving, "fail")
    BY <1>5 DEF Aborted, Starve, AcquireFails
  <2> QED
    BY <1>0, <2>1, EndedDoomed, EndedFinal DEF Final
<1>6. ASSUME NEW u \in Calls, Enter(u) \/ FallBack(u)
      PROVE  FailInv' /\ Final
  <2>1. GoesOn(u) /\ solving[u].pc \notin {"none", "done"}
    BY <1>6 DEF Enter, FallBack
  <2>2. PICK m, b : \/ Ended(u, solving, "fail")
                    \/ solving' = Waits(solving, u, m, b) /\ UNCHANGED <<given, withdrawn>>
                    \/ Rebuild(u, m)
    BY <1>6 DEF Enter, FallBack
  <2>3. CASE Ended(u, solving, "fail")
    BY <1>0, <2>3, EndedDoomed, EndedFinal DEF Final
  <2>4. CASE solving' = Waits(solving, u, m, b) /\ UNCHANGED <<given, withdrawn>>
    <3>1. TasksShaped(solving)' /\ \A t \in Calls \ {u} : solving'[t].pc = solving[t].pc
      BY <1>0, <2>4, WaitsMoves DEF TasksShaped
    <3> QED
      BY <2>1, <2>4, <3>1, MoveDoomed DEF GoesOn, Final
  <2>5. CASE Rebuild(u, m)
    BY <2>1, <2>5, RebuildFail
  <2> QED
    BY <2>2, <2>3, <2>4, <2>5
<1>7. ASSUME NEW u \in Calls, AcquireRunning(u) \/ AcquireStarted(u)
      PROVE  FailInv' /\ Final
  <2>1. GoesOn(u) /\ solving[u].pc = "wait" /\ solving' = Works(u)
        /\ UNCHANGED <<given, withdrawn>>
    BY <1>7 DEF AcquireRunning, AcquireStarted, MayAcquire
  <2>2. TasksShaped(Works(u)) /\ \A t \in Calls \ {u} : Works(u)[t] = solving[t]
    BY <1>0 DEF Works, TasksShaped
  <2> QED
    BY <2>1, <2>2, MoveDoomed DEF GoesOn, Final, TasksShaped
<1>8. ASSUME NEW u \in Calls, Solve(u)
      PROVE  FailInv' /\ Final
  <2>1. PICK r : Ended(u, solving, r)
    BY <1>8 DEF Solve
  <2>2. given[u] # "fail"
    BY <1>8 DEF Solve, GoesOn, FailInv, Doomed
  <2> QED
    BY <1>0, <2>1, <2>2, EndedDoomed, EndedFinal DEF Final
<1>9. ASSUME NEW u \in Calls, Retreat(u)
      PROVE  FailInv' /\ Final
  <2>1. GoesOn(u) /\ solving[u].pc = "solve" /\ UNCHANGED <<given, withdrawn>>
        /\ solving' = [solving EXCEPT ![u].pc = "back"]
    BY <1>9 DEF Retreat
  <2>2. TasksShaped(solving)' /\ \A t \in Calls \ {u} : solving'[t] = solving[t]
    BY <1>0, <2>1 DEF TasksShaped
  <2> QED
    BY <2>1, <2>2, MoveDoomed DEF GoesOn, Final
<1>10. CASE Withdraw(Active)
  <2>1. \A t \in Calls : given'[t] = IF t \in Active THEN "fail" ELSE given[t]
    BY <1>10 DEF Withdraw
  <2>2. DOMAIN given' = Calls /\ UNCHANGED solving /\ withdrawn' = withdrawn \cup Active
    BY <1>10 DEF Withdraw
  <2> QED
    BY <2>1, <2>2 DEF FailInv, TasksShaped, Doomed, Final
<1>11. ASSUME NEW p \in Ports, ChromeDies(p)
       PROVE  FailInv' /\ Final
  <2>1. solving' = Cut({p}) /\ UNCHANGED <<given, withdrawn>>
    BY <1>11 DEF ChromeDies
  <2>2. TasksShaped(solving)' /\ \A t \in Calls : solving'[t].pc = solving[t].pc
    BY <1>0, <2>1, CutStays DEF TasksShaped
  <2> QED
    BY <2>1, <2>2, StayDoomed DEF Final
<1> QED
  BY <1>1, <1>2, <1>3, <1>4, <1>5, <1>6, <1>7, <1>8, <1>9, <1>10, <1>11 DEF NextSolver

\* A failed or cancelled task never turns up with a token, for any number of tasks,
\* workers and rebuilt pools: a failed task that is not over is one whose cancellation
\* is on its way, and such a task does not finish its page (api_solver.py 867-908).
THEOREM FailureIsFinalAlways == SolverSpec => FailureIsFinal
<1>1. FailInv /\ [NextSolver]_solverVars => [Final]_solverVars
  BY StepFail
<1>2. InitSolver => FailInv
  BY InitFail
<1>3. FailInv /\ [NextSolver]_solverVars => FailInv'
  BY StepFail
<1> QED
  BY <1>1, <1>2, <1>3, PTL DEF SolverSpec, FailureIsFinal, Final
-----------------------------------------------------------------------------
(* The workers of the pool.  A worker of an older pool may still be with a task, and get
   into the queue of the pool of the day; those of the pool of the day are where they
   should be. *)

PoolWorker == [build : Nat, port : Ports]
Browsers == [build : Nat, ready : BOOLEAN, mode : {"headless", "offscreen"},
             ports : SUBSET Ports, lame : SUBSET Ports, leaked : SUBSET Ports,
             free : Seq(PoolWorker)]
SolverTask == [pc : {"none", "queued", "wait", "solve", "back", "done"}, queue : Nat,
               worker : PoolWorker \cup {NoWorker}, mode : {"headless", "offscreen"},
               live : BOOLEAN]
PoolTypes == solving \in [Calls -> SolverTask] /\ browsers \in Browsers

\* This queue of workers holds this one.
Has(q, x) == \E i \in DOMAIN q : q[i] = x

\* No worker is of a pool that is still to come.
NotNewer ==
  /\ \A i \in DOMAIN browsers.free : browsers.free[i].build <= browsers.build
  /\ \A t \in Holders : /\ solving[t].worker \in PoolWorker
                        /\ solving[t].worker.build <= browsers.build

\* No worker of the pool of the day is in two places ...
SingleIn(q, b) == \A i, j \in DOMAIN q : i # j /\ q[i] = q[j] => q[i].build # b
HeldOnce == \A t \in Holders : solving[t].worker.build = browsers.build =>
  /\ ~Has(browsers.free, solving[t].worker)
  /\ \A u \in Holders : t # u => solving[t].worker # solving[u].worker

\* ... and each is in one.
Covered == browsers.ready => \A p \in browsers.ports \ browsers.leaked :
  LET w == [build |-> browsers.build, port |-> p]
  IN Has(browsers.free, w) \/ \E t \in Holders : solving[t].worker = w

PoolInv == /\ PoolTypes /\ NotNewer /\ SingleIn(browsers.free, browsers.build)
           /\ HeldOnce /\ Covered

-----------------------------------------------------------------------------
\* Queues of workers.

LEMMA HasAppend ==
  ASSUME NEW q \in Seq(PoolWorker), NEW x \in PoolWorker
  PROVE  /\ Append(q, x) \in Seq(PoolWorker)
         /\ \A y : Has(Append(q, x), y) <=> Has(q, y) \/ y = x
         /\ \A b : SingleIn(q, b) /\ (x.build = b => ~Has(q, x)) => SingleIn(Append(q, x), b)
<1>1. /\ DOMAIN Append(q, x) = 1 .. Len(q) + 1
      /\ DOMAIN q = 1 .. Len(q)
      /\ Len(q) \in Nat
      /\ \A n \in 1 .. Len(q) : Append(q, x)[n] = q[n]
      /\ Append(q, x)[Len(q) + 1] = x
      /\ Append(q, x) \in Seq(PoolWorker)
  OBVIOUS
<1>2. \A n \in DOMAIN Append(q, x) :
        (n \in DOMAIN q /\ Append(q, x)[n] = q[n]) \/ n = Len(q) + 1
  BY <1>1
<1>3. \A n \in DOMAIN q : n \in DOMAIN Append(q, x) /\ Append(q, x)[n] = q[n]
  BY <1>1
<1>4. Len(q) + 1 \in DOMAIN Append(q, x)
  BY <1>1
<1>5. \A y : Has(Append(q, x), y) <=> Has(q, y) \/ y = x
  BY <1>1, <1>2, <1>3, <1>4 DEF Has
<1>6. ASSUME NEW b, SingleIn(q, b), x.build = b => ~Has(q, x)
      PROVE  SingleIn(Append(q, x), b)
  BY <1>1, <1>2, <1>6 DEF SingleIn, Has
<1>7. QED
  BY <1>1, <1>5, <1>6

LEMMA HasTail ==
  ASSUME NEW q \in Seq(PoolWorker), q # <<>>
  PROVE  /\ Tail(q) \in Seq(PoolWorker) /\ Head(q) \in PoolWorker
         /\ \A y : Has(q, y) <=> Has(Tail(q), y) \/ y = Head(q)
         /\ \A b : SingleIn(q, b) =>
              SingleIn(Tail(q), b) /\ (Head(q).build = b => ~Has(Tail(q), Head(q)))
<1>1. /\ Len(q) \in Nat \ {0}
      /\ Len(Tail(q)) = Len(q) - 1 /\ Tail(q) \in Seq(PoolWorker)
      /\ \A n \in 1 .. Len(Tail(q)) : Tail(q)[n] = q[n + 1]
      /\ Head(q) = q[1] /\ Head(q) \in PoolWorker
  BY HeadTailProperties, EmptySeq
<1>2. DOMAIN Tail(q) = 1 .. Len(q) - 1 /\ DOMAIN q = 1 .. Len(q)
  BY <1>1, LenProperties
<1>3. \A n \in DOMAIN Tail(q) :
        n \in Nat /\ n + 1 \in DOMAIN q /\ n + 1 # 1 /\ Tail(q)[n] = q[n + 1]
  BY <1>1, <1>2
<1>4. 1 \in DOMAIN q
  BY <1>1, <1>2
<1>5. ASSUME NEW y, Has(q, y), y # Head(q) PROVE Has(Tail(q), y)
  <2>1. PICK n \in DOMAIN q : q[n] = y
    BY <1>5 DEF Has
  <2>2. n - 1 \in DOMAIN Tail(q) /\ (n - 1) + 1 = n
    BY <1>1, <1>2, <1>5, <2>1
  <2>3. QED
    BY <1>3, <2>1, <2>2 DEF Has
<1>6. \A y : Has(q, y) <=> Has(Tail(q), y) \/ y = Head(q)
  BY <1>1, <1>3, <1>4, <1>5 DEF Has
<1>7. ASSUME NEW b, SingleIn(q, b)
      PROVE  SingleIn(Tail(q), b) /\ (Head(q).build = b => ~Has(Tail(q), Head(q)))
  <2>1. ASSUME NEW n \in DOMAIN Tail(q), NEW m \in DOMAIN Tail(q), n # m, Tail(q)[n] = Tail(q)[m]
        PROVE  Tail(q)[n].build # b
    <3>1. n + 1 # m + 1 /\ n + 1 \in DOMAIN q /\ m + 1 \in DOMAIN q
          /\ Tail(q)[n] = q[n + 1] /\ Tail(q)[m] = q[m + 1]
      BY <1>3, <2>1
    <3>2. QED
      BY <1>7, <2>1, <3>1 DEF SingleIn
  <2>2. ASSUME Head(q).build = b, Has(Tail(q), Head(q)) PROVE FALSE
    <3>1. PICK n \in DOMAIN Tail(q) : Tail(q)[n] = Head(q)
      BY <2>2 DEF Has
    <3>2. n + 1 \in DOMAIN q /\ n + 1 # 1 /\ q[n + 1] = q[1]
      BY <1>1, <1>3, <3>1
    <3>3. q[1].build # b
      BY <1>4, <1>7, <3>2 DEF SingleIn
    <3>4. QED
      BY <1>1, <2>2, <3>3
  <2>3. QED
    BY <2>1, <2>2 DEF SingleIn
<1>8. QED
  BY <1>1, <1>6, <1>7

\* A new pool has each of its workers in the queue once.
LEMMA BuiltWhole ==
  ASSUME browsers.build \in Nat, NEW m \in {"headless", "offscreen"}, NEW up \in SUBSET Ports,
         NEW P \in BuiltPools(m, up)
  PROVE  /\ P \in Browsers
         /\ P.build = browsers.build + 1 /\ P.ready = (up # {}) /\ P.ports = up
         /\ \A i \in DOMAIN P.free : P.free[i].build = P.build
         /\ SingleIn(P.free, P.build)
         /\ \A p \in up : Has(P.free, [build |-> P.build, port |-> p])
<1> DEFINE b == browsers.build + 1
           W == {[build |-> b, port |-> p] : p \in up}
           n == Cardinality(up)
<1>1. PICK q \in [1 .. n -> W] :
        /\ P = [build |-> b, ready |-> up # {}, mode |-> m, ports |-> up,
                lame |-> {}, leaked |-> {}, free |-> q]
        /\ \A i, j \in DOMAIN q : i # j => q[i] # q[j]
  BY DEF BuiltPools
<1>2. IsFiniteSet(up) /\ n \in Nat
  BY SolverAssumption, FS_Subset, FS_CardinalityType
<1>3. b \in Nat /\ W \subseteq PoolWorker
  BY DEF PoolWorker
<1>4. IsFiniteSet(W) /\ Cardinality(W) = n
  <2> DEFINE f == [p \in up |-> [build |-> b, port |-> p]]
  <2>1. f \in Bijection(up, W)
    BY DEF Bijection, Injection, Surjection, IsInjective
  <2>2. QED
    BY <1>2, <2>1, FS_Bijection DEF ExistsBijection
<1>5. q \in Injection(1 .. n, W)
  BY <1>1 DEF Injection, IsInjective
<1>6. Cardinality(1 .. n) = n
  <2>1. \A k \in Nat : Cardinality(1 .. k) = k
    <3>1. ASSUME NEW k \in Nat
          PROVE  Cardinality(1 .. k) = k
      <4>1. 1 \in Int /\ k \in Int
        OBVIOUS
      <4>2. Cardinality(1 .. k) = IF 1 > k THEN 0 ELSE k - 1 + 1
        BY ONLY <4>1, FS_Interval
      <4>3. QED
        BY ONLY <4>2, k \in Nat
    <3>2. QED
      BY <3>1
  <2>2. QED
    BY <1>2, <2>1
<1>7. q \in Surjection(1 .. n, W)
  BY <1>4, <1>5, <1>6, FS_Injection
<1>8. DOMAIN q = 1 .. n
  OBVIOUS
<1>9. ASSUME NEW p \in up PROVE Has(q, [build |-> b, port |-> p])
  BY <1>7, <1>8 DEF Surjection, Has
<1>10. q \in Seq(PoolWorker)
  BY <1>2, <1>3, SeqDef
<1>11. P \in Browsers
  <2>1. up \in SUBSET Ports /\ (up # {}) \in BOOLEAN
    OBVIOUS
  <2>2. QED
    BY <1>1, <1>3, <1>10, <2>1 DEF Browsers
<1>12. \A i \in DOMAIN q : q[i].build = b
  BY <1>8
<1>13. /\ P.build = b /\ P.ready = (up # {}) /\ P.ports = up /\ P.free = q
  BY <1>1
<1>14. SingleIn(q, b)
  BY <1>1 DEF SingleIn
<1> HIDE DEF b
<1>15. QED
  BY <1>9, <1>11, <1>12, <1>13, <1>14 DEF b
-----------------------------------------------------------------------------
\* What a step does to the workers, by what becomes of a task and of the queue.

\* The tasks but this one have kept what they have.
OthersHold(t) == \A u \in Calls \ {t} :
  solving'[u].pc = solving[u].pc /\ solving'[u].worker = solving[u].worker

LEMMA PoolStill ==
  ASSUME PoolInv, PoolTypes', NEW t \in Calls, OthersHold(t), t \notin Holders, t \notin Holders',
         UNCHANGED browsers
  PROVE  PoolInv'
<1>1. Holders' = Holders /\ \A u \in Holders : solving'[u].worker = solving[u].worker
  BY DEF OthersHold, Holders
<1>2. QED
  BY <1>1 DEF PoolInv, NotNewer, HeldOnce, Covered

LEMMA PoolSame ==
  ASSUME PoolInv, PoolTypes', UNCHANGED browsers, Holders' = Holders,
         \A u \in Holders : solving'[u].worker = solving[u].worker
  PROVE  PoolInv'
  BY DEF PoolInv, NotNewer, HeldOnce, Covered

LEMMA ReleasedType ==
  ASSUME NEW P \in Browsers, NEW x \in PoolWorker
  PROVE  /\ Released(P, x) \in Browsers
         /\ Released(P, x).build = P.build /\ Released(P, x).ready = P.ready
         /\ Released(P, x).ports = P.ports /\ Released(P, x).leaked = P.leaked
         /\ Released(P, x).free = IF P.ready THEN Append(P.free, x) ELSE P.free
  BY HasAppend DEF Browsers, Released

\* A task gives its worker back.
LEMMA PoolGives ==
  ASSUME PoolInv, solving' \in [Calls -> SolverTask], NEW t \in Holders, OthersHold(t),
         t \notin Holders', browsers' = Released(browsers, solving[t].worker)
  PROVE  PoolInv'
<1> DEFINE x == solving[t].worker
           b == browsers.build
           q == browsers.free
<1>1. Holders' = Holders \ {t} /\ \A u \in Holders' : solving'[u].worker = solving[u].worker
  BY DEF OthersHold, Holders
<1>2. x \in PoolWorker /\ x.build <= b /\ q \in Seq(PoolWorker) /\ browsers \in Browsers
  BY DEF PoolInv, PoolTypes, NotNewer, Browsers
<1>3. /\ browsers' \in Browsers /\ browsers'.build = b /\ browsers'.ready = browsers.ready
      /\ browsers'.ports = browsers.ports /\ browsers'.leaked = browsers.leaked
      /\ browsers'.free = IF browsers.ready THEN Append(q, x) ELSE q
  BY <1>2, ReleasedType
<1>4. x.build = b => ~Has(q, x)
  BY DEF PoolInv, HeldOnce
<1>5. /\ \A y : Has(browsers'.free, y) => Has(q, y) \/ y = x
      /\ \A y : Has(q, y) => Has(browsers'.free, y)
      /\ browsers.ready => Has(browsers'.free, x)
      /\ SingleIn(browsers'.free, b)
  BY <1>2, <1>3, <1>4, HasAppend DEF PoolInv
<1>6. PoolTypes'
  BY <1>3 DEF PoolTypes
<1>7. NotNewer'
  <2>1. \A i \in DOMAIN browsers'.free : Has(browsers'.free, browsers'.free[i])
    BY DEF Has
  <2>2. \A y : Has(q, y) => y.build <= b
    BY DEF PoolInv, NotNewer, Has
  <2>3. QED
    BY <1>1, <1>2, <1>3, <1>5, <2>1, <2>2 DEF PoolInv, NotNewer
<1>8. HeldOnce'
  <2>1. \A u \in Holders' : u # t /\ u \in Holders
    BY <1>1
  <2>2. \A u \in Holders' : solving[u].worker.build = b => solving[u].worker # x
    BY <2>1 DEF PoolInv, HeldOnce
  <2>3. QED
    BY <1>1, <1>3, <1>5, <2>1, <2>2 DEF PoolInv, HeldOnce
<1>9. Covered'
  <2> SUFFICES ASSUME browsers.ready, NEW p \in browsers.ports \ browsers.leaked
               PROVE  LET w == [build |-> b, port |-> p]
                      IN Has(browsers'.free, w) \/ \E u \in Holders' : solving'[u].worker = w
    BY <1>3 DEF Covered
  <2> DEFINE w == [build |-> b, port |-> p]
  <2>1. Has(q, w) \/ \E u \in Holders : solving[u].worker = w
    BY DEF PoolInv, Covered
  <2>2. CASE Has(q, w)
    BY <1>5, <2>2
  <2>3. ASSUME NEW u \in Holders, solving[u].worker = w
        PROVE  Has(browsers'.free, w) \/ \E v \in Holders' : solving'[v].worker = w
    BY <1>1, <1>5, <2>3
  <2>4. QED
    BY <2>1, <2>2, <2>3
<1>10. QED
  BY <1>3, <1>5, <1>6, <1>7, <1>8, <1>9 DEF PoolInv

\* A task takes the first worker of the queue.
LEMMA PoolTakes ==
  ASSUME PoolInv, PoolTypes', NEW t \in Calls \ Holders, OthersHold(t), t \in Holders',
         browsers.free # <<>>, solving'[t].worker = Taken,
         browsers'.build = browsers.build, browsers'.ready = browsers.ready,
         browsers'.ports = browsers.ports, browsers'.leaked = browsers.leaked,
         browsers'.free = Tail(browsers.free)
  PROVE  PoolInv'
<1> DEFINE x == Taken
           b == browsers.build
           q == browsers.free
<1>1. /\ Holders' = Holders \cup {t}
      /\ \A u \in Holders : u # t /\ solving'[u].worker = solving[u].worker
  BY DEF OthersHold, Holders
<1>2. q \in Seq(PoolWorker)
  BY DEF PoolInv, PoolTypes, Browsers
<1>3. /\ \A y : Has(q, y) <=> Has(browsers'.free, y) \/ y = x
      /\ SingleIn(browsers'.free, b) /\ (x.build = b => ~Has(browsers'.free, x))
      /\ x \in PoolWorker
  BY <1>2, HasTail DEF PoolInv, Taken
<1>4. NotNewer'
  <2>1. \A i \in DOMAIN browsers'.free : Has(browsers'.free, browsers'.free[i])
    BY DEF Has
  <2>2. \A y : Has(q, y) => y.build <= b
    BY DEF PoolInv, NotNewer, Has
  <2>3. QED
    BY <1>1, <1>3, <2>1, <2>2 DEF PoolInv, NotNewer
<1>5. HeldOnce'
  <2>1. \A u \in Holders : solving[u].worker.build = b => solving[u].worker # x
    BY <1>3 DEF PoolInv, HeldOnce
  <2>2. QED
    BY <1>1, <1>3, <2>1 DEF PoolInv, HeldOnce
<1>6. Covered'
  BY <1>1, <1>3 DEF PoolInv, Covered
<1>7. QED
  BY <1>3, <1>4, <1>5, <1>6 DEF PoolInv

\* A worker that cannot be started goes to the end of the queue, or is gone.
LEMMA PoolMisses ==
  ASSUME PoolInv, solving' \in [Calls -> SolverTask], NEW t \in Calls, OthersHold(t),
         t \notin Holders, t \notin Holders', browsers.free # <<>>,
         \/ browsers' = Released(Left, Taken)
         \/ browsers' = IF OwnPool THEN [Left EXCEPT !.leaked = @ \cup {Taken.port}] ELSE Left
  PROVE  PoolInv'
<1> DEFINE x == Taken
           b == browsers.build
           q == browsers.free
<1>1. Holders' = Holders /\ \A u \in Holders : solving'[u].worker = solving[u].worker
  BY DEF OthersHold, Holders
<1>2. q \in Seq(PoolWorker) /\ browsers \in Browsers
  BY DEF PoolInv, PoolTypes, Browsers
<1>3. /\ \A y : Has(q, y) <=> Has(Tail(q), y) \/ y = x
      /\ SingleIn(Tail(q), b) /\ (x.build = b => ~Has(Tail(q), x))
      /\ x \in PoolWorker /\ Tail(q) \in Seq(PoolWorker)
  BY <1>2, HasTail DEF PoolInv, Taken
<1>4. /\ Left \in Browsers /\ Left.build = b /\ Left.ready = browsers.ready
      /\ Left.ports = browsers.ports /\ Left.leaked = browsers.leaked /\ Left.free = Tail(q)
  BY <1>2, <1>3 DEF Left, Browsers
<1>5. /\ browsers' \in Browsers /\ browsers'.build = b /\ browsers'.ready = browsers.ready
      /\ browsers'.ports = browsers.ports /\ browsers.leaked \subseteq browsers'.leaked
      /\ SingleIn(browsers'.free, b)
      /\ \A y : Has(browsers'.free, y) => Has(q, y)
      /\ \A y : Has(q, y) /\ y # x => Has(browsers'.free, y)
      /\ browsers.ready /\ x.build = b =>
           Has(browsers'.free, x) \/ x.port \in browsers'.leaked
  <2>1. CASE browsers' = Released(Left, x)
    <3>1. /\ browsers' \in Browsers /\ browsers'.build = b /\ browsers'.ready = browsers.ready
          /\ browsers'.ports = browsers.ports /\ browsers'.leaked = browsers.leaked
          /\ browsers'.free = IF browsers.ready THEN Append(Tail(q), x) ELSE Tail(q)
      BY <1>3, <1>4, <2>1, ReleasedType
    <3>2. /\ \A y : Has(Append(Tail(q), x), y) <=> Has(Tail(q), y) \/ y = x
          /\ SingleIn(Append(Tail(q), x), b)
      BY <1>3, HasAppend
    <3>3. /\ SingleIn(browsers'.free, b)
          /\ \A y : Has(browsers'.free, y) => Has(q, y)
          /\ \A y : Has(q, y) /\ y # x => Has(browsers'.free, y)
          /\ browsers.ready => Has(browsers'.free, x)
      <4>1. CASE browsers.ready
        BY <1>3, <3>1, <3>2, <4>1
      <4>2. CASE ~browsers.ready
        BY <1>3, <3>1, <4>2
      <4>3. QED
        BY <4>1, <4>2
    <3>4. QED
      BY <3>1, <3>3
  <2>2. CASE browsers' = IF OwnPool THEN [Left EXCEPT !.leaked = @ \cup {x.port}] ELSE Left
    <3>1. OwnPool <=> x.build = b
      BY DEF OwnPool
    <3>2. x.port \in Ports
      BY <1>3 DEF PoolWorker
    <3>3. /\ browsers' \in Browsers /\ browsers'.build = b /\ browsers'.ready = browsers.ready
          /\ browsers'.ports = browsers.ports /\ browsers.leaked \subseteq browsers'.leaked
          /\ browsers'.free = Tail(q) /\ (OwnPool => x.port \in browsers'.leaked)
      BY <1>4, <2>2, <3>2 DEF Browsers
    <3>4. QED
      BY <1>3, <3>1, <3>3
  <2>3. QED
    BY <2>1, <2>2
<1>6. PoolTypes'
  BY <1>5 DEF PoolTypes
<1>7. NotNewer'
  <2>1. \A i \in DOMAIN browsers'.free : Has(browsers'.free, browsers'.free[i])
    BY DEF Has
  <2>2. \A y : Has(q, y) => y.build <= b
    BY DEF PoolInv, NotNewer, Has
  <2>3. QED
    BY <1>1, <1>5, <2>1, <2>2 DEF PoolInv, NotNewer
<1>8. HeldOnce'
  BY <1>1, <1>5 DEF PoolInv, HeldOnce
<1>9. Covered'
  <2> SUFFICES ASSUME browsers.ready, NEW p \in browsers.ports \ browsers'.leaked
               PROVE  LET w == [build |-> b, port |-> p]
                      IN Has(browsers'.free, w) \/ \E u \in Holders' : solving'[u].worker = w
    BY <1>5 DEF Covered
  <2> DEFINE w == [build |-> b, port |-> p]
  <2>1. Has(q, w) \/ \E u \in Holders : solving[u].worker = w
    BY <1>5 DEF PoolInv, Covered
  <2>2. w.build = b /\ w.port = p
    OBVIOUS
  <2>3. CASE Has(q, w)
    BY <1>5, <2>2, <2>3
  <2>4. QED
    BY <1>1, <2>1, <2>3
<1>10. QED
  BY <1>5, <1>6, <1>7, <1>8, <1>9 DEF PoolInv

\* A new pool: the workers still in use are of older ones.
LEMMA PoolBuilt ==
  ASSUME PoolInv, solving' \in [Calls -> SolverTask], NEW m \in {"headless", "offscreen"},
         NEW up \in SUBSET Ports, browsers' \in BuiltPools(m, up), NEW t \in Calls,
         OthersHold(t), t \notin Holders'
  PROVE  PoolInv'
<1> DEFINE b == browsers.build
<1>1. \A u \in Holders' : u \in Holders /\ solving'[u].worker = solving[u].worker
  BY DEF OthersHold, Holders
<1>2. b \in Nat
  BY DEF PoolInv, PoolTypes, Browsers
<1>3. /\ browsers' \in Browsers /\ browsers'.build = b + 1 /\ browsers'.ports = up
      /\ \A i \in DOMAIN browsers'.free : browsers'.free[i].build = b + 1
      /\ SingleIn(browsers'.free, b + 1)
      /\ \A p \in up : Has(browsers'.free, [build |-> b + 1, port |-> p])
  BY <1>2, BuiltWhole
<1>4. \A u \in Holders : /\ solving[u].worker \in PoolWorker
                         /\ solving[u].worker.build \in Nat /\ solving[u].worker.build <= b
  BY DEF PoolInv, NotNewer, PoolWorker
<1>5. PoolTypes'
  BY <1>3 DEF PoolTypes
<1>6. NotNewer'
  BY <1>1, <1>2, <1>3, <1>4 DEF NotNewer
<1>7. HeldOnce'
  BY <1>1, <1>2, <1>3, <1>4 DEF HeldOnce
<1>8. Covered'
  BY <1>3 DEF Covered
<1>9. QED
  BY <1>3, <1>5, <1>6, <1>7, <1>8 DEF PoolInv
-----------------------------------------------------------------------------
\* The steps of the solver.

Tasks == [Calls -> SolverTask]

LEMMA CutTasks ==
  ASSUME solving \in Tasks, NEW P
  PROVE  /\ Cut(P) \in Tasks
         /\ \A t \in Calls : Cut(P)[t].pc = solving[t].pc /\ Cut(P)[t].worker = solving[t].worker
<1>1. ASSUME NEW t \in Calls
      PROVE  /\ Cut(P)[t] \in SolverTask
             /\ Cut(P)[t].pc = solving[t].pc /\ Cut(P)[t].worker = solving[t].worker
  <2>1. Cut(P)[t] = IF solving[t].worker.port \in P
                    THEN [solving[t] EXCEPT !.live = FALSE] ELSE solving[t]
    BY DEF Cut
  <2>2. solving[t] \in SolverTask
    BY DEF Tasks
  <2>3. QED
    BY <2>1, <2>2 DEF SolverTask
<1>2. Cut(P) = [t \in Calls |-> Cut(P)[t]]
  BY DEF Cut
<1>3. QED
  BY <1>1, <1>2 DEF Tasks

\* This task alone moves.
LEMMA OneTask ==
  ASSUME solving \in Tasks, NEW tasks \in Tasks, NEW t \in Calls, NEW x \in SolverTask,
         \A u \in Calls : tasks[u].pc = solving[u].pc /\ tasks[u].worker = solving[u].worker,
         solving' = [tasks EXCEPT ![t] = x]
  PROVE  solving' \in Tasks /\ solving'[t] = x /\ OthersHold(t)
  BY DEF Tasks, OthersHold

LEMMA EndsTask ==
  ASSUME solving \in Tasks, NEW tasks \in Tasks, NEW t \in Calls, NEW r,
         \A u \in Calls : tasks[u].pc = solving[u].pc /\ tasks[u].worker = solving[u].worker,
         Ended(t, tasks, r)
  PROVE  solving' \in Tasks /\ t \notin Holders' /\ OthersHold(t)
<1> DEFINE x == [NoTask EXCEPT !.pc = "done"]
<1>1. x \in SolverTask /\ x.pc = "done"
  BY SolverAssumption DEF SolverTask, NoTask
<1>2. solving' = [tasks EXCEPT ![t] = x]
  BY DEF Ended
<1> HIDE DEF x
<1>3. solving' \in Tasks /\ solving'[t] = x /\ OthersHold(t)
  BY <1>1, <1>2, OneTask
<1>4. QED
  BY <1>1, <1>3 DEF Holders

LEMMA WaitsTask ==
  ASSUME solving \in Tasks, NEW tasks \in Tasks, NEW t \in Calls,
         NEW m \in {"headless", "offscreen"}, NEW b \in Nat,
         \A u \in Calls : tasks[u].pc = solving[u].pc /\ tasks[u].worker = solving[u].worker,
         solving' = Waits(tasks, t, m, b)
  PROVE  solving' \in Tasks /\ t \notin Holders' /\ OthersHold(t)
<1> DEFINE x == [NoTask EXCEPT !.pc = "wait", !.mode = m, !.queue = b]
<1>1. x \in SolverTask /\ x.pc = "wait"
  BY SolverAssumption DEF SolverTask, NoTask
<1>2. solving' = [tasks EXCEPT ![t] = x]
  BY DEF Waits
<1> HIDE DEF x
<1>3. solving' \in Tasks /\ solving'[t] = x /\ OthersHold(t)
  BY <1>1, <1>2, OneTask
<1>4. QED
  BY <1>1, <1>3 DEF Holders

LEMMA RebuildPool ==
  ASSUME PoolInv, NEW t \in Calls, NEW m \in {"headless", "offscreen"}, Rebuild(t, m)
  PROVE  PoolInv'
<1>1. solving \in Tasks /\ browsers.build \in Nat
  BY DEF PoolInv, PoolTypes, Tasks, Browsers
<1>2. PICK up \in SUBSET Ports :
        /\ browsers' \in BuiltPools(m, up)
        /\ \/ Ended(t, Cut(Ports), "fail")
           \/ solving' = Waits(Cut(Ports), t, m, browsers.build + 1)
  BY DEF Rebuild
<1>3. /\ Cut(Ports) \in Tasks
      /\ \A u \in Calls :
           Cut(Ports)[u].pc = solving[u].pc /\ Cut(Ports)[u].worker = solving[u].worker
  BY <1>1, CutTasks
<1>4. solving' \in Tasks /\ t \notin Holders' /\ OthersHold(t)
  BY <1>1, <1>2, <1>3, EndsTask, WaitsTask
<1>5. QED
  BY <1>2, <1>4, PoolBuilt DEF Tasks

\* No task is there before it was asked for.
NotYetAsked == \A t \in Calls : given[t] = "absent" => solving[t].pc = "none"

LEMMA PoolStep ==
  ASSUME PoolInv, NotYetAsked, [NextSolver]_solverVars
  PROVE  PoolInv'
<1>1. solving \in Tasks /\ browsers \in Browsers /\ browsers.build \in Nat
  BY DEF PoolInv, PoolTypes, Tasks, Browsers
<1>2. StartMode \in {"headless", "offscreen"}
  BY SolverAssumption
<1>3. ASSUME UNCHANGED <<solving, browsers>> PROVE PoolInv'
  <2>1. PoolTypes' /\ Holders' = Holders
    BY <1>3 DEF PoolInv, PoolTypes, Holders
  <2>2. QED
    BY <1>3, <2>1, PoolSame
<1>4. CASE \/ UNCHANGED solverVars \/ Withdraw(Active)
           \/ \E t \in Calls : Ask(t) \/ Told(t) \/ Poll(t) \/ Cancelled(t)
  BY <1>3, <1>4 DEF solverVars, Withdraw, Ask, Told, Poll, Cancelled
<1>5. ASSUME NEW t \in Calls, Arrive(t) PROVE PoolInv'
  <2> DEFINE x == [solving[t] EXCEPT !.pc = "queued"]
  <2>1. solving[t].pc = "none" /\ solving' = [solving EXCEPT ![t] = x] /\ UNCHANGED browsers
    BY <1>5 DEF Arrive, NotYetAsked
  <2>2. solving[t] \in SolverTask
    BY <1>1 DEF Tasks
  <2>3. x \in SolverTask /\ x.pc = "queued"
    BY <2>2 DEF SolverTask
  <2> HIDE DEF x
  <2>4. solving' \in Tasks /\ solving'[t] = x /\ OthersHold(t)
    BY <1>1, <2>1, <2>3, OneTask
  <2>5. t \notin Holders /\ t \notin Holders' /\ PoolTypes'
    BY <1>1, <2>1, <2>3, <2>4 DEF Holders, PoolTypes, Tasks
  <2>6. QED
    BY <2>1, <2>4, <2>5, PoolStill
<1>6. ASSUME NEW t \in Calls, t \in Holders, solving' \in Tasks, t \notin Holders',
             OthersHold(t), browsers' = Released(browsers, solving[t].worker)
      PROVE  PoolInv'
  BY <1>6, PoolGives DEF Tasks
<1>7. ASSUME NEW t \in Calls, t \notin Holders, solving' \in Tasks, t \notin Holders',
             OthersHold(t), UNCHANGED browsers
      PROVE  PoolInv'
  BY <1>1, <1>7, PoolStill DEF Tasks, PoolTypes
<1>8. ASSUME NEW t \in Calls, Aborted(t) PROVE PoolInv'
  <2>1. solving' \in Tasks /\ t \notin Holders' /\ OthersHold(t)
    BY <1>1, <1>8, EndsTask DEF Aborted
  <2>2. QED
    BY <1>6, <1>7, <1>8, <2>1 DEF Aborted, GivenBack
<1>9. ASSUME NEW t \in Calls, Enter(t) PROVE PoolInv'
  <2>1. t \notin Holders
    BY <1>9 DEF Enter, Holders
  <2>2. CASE Rebuild(t, StartMode)
    BY <1>2, <2>2, RebuildPool
  <2>3. CASE ~Rebuild(t, StartMode)
    <3>1. /\ UNCHANGED browsers
          /\ \/ Ended(t, solving, "fail")
             \/ solving' = Waits(solving, t, StartMode, browsers.build)
      BY <1>9, <2>3 DEF Enter
    <3>2. solving' \in Tasks /\ t \notin Holders' /\ OthersHold(t)
      BY <1>1, <1>2, <3>1, EndsTask, WaitsTask
    <3>3. QED
      BY <1>7, <2>1, <3>1, <3>2
  <2>4. QED
    BY <2>2, <2>3
<1>10. ASSUME NEW t \in Calls, Starve(t) PROVE PoolInv'
  <2>1. t \notin Holders /\ UNCHANGED browsers /\ Ended(t, solving, "fail")
    BY <1>10 DEF Starve, Holders
  <2>2. solving' \in Tasks /\ t \notin Holders' /\ OthersHold(t)
    BY <1>1, <2>1, EndsTask
  <2>3. QED
    BY <1>7, <2>1, <2>2
<1>11. ASSUME NEW t \in Calls, AcquireRunning(t) \/ AcquireStarted(t) PROVE PoolInv'
  <2> DEFINE x == [solving[t] EXCEPT !.pc = "solve", !.worker = Taken, !.live = TRUE]
  <2>1. /\ solving[t].pc = "wait" /\ browsers.free # <<>> /\ solving' = Works(t)
        /\ \E S \in SUBSET Ports : browsers' = [Left EXCEPT !.lame = S]
    <3>1. Taken \in PoolWorker
      BY <1>1, <1>11, HasTail DEF AcquireRunning, AcquireStarted, MayAcquire, Taken, Browsers
    <3>2. Left.lame \subseteq Ports
      BY <1>1 DEF Left, Browsers
    <3>3. Taken.port \in Ports
      BY <3>1 DEF PoolWorker
    <3>4. /\ Left.lame \ {Taken.port} \in SUBSET Ports
          /\ Left.lame \cup {Taken.port} \in SUBSET Ports /\ Left.lame \in SUBSET Ports
      BY <3>2, <3>3
    <3>5. \/ browsers' = [Left EXCEPT !.lame = Left.lame \ {Taken.port}]
          \/ browsers' = [Left EXCEPT !.lame = Left.lame]
          \/ browsers' = [Left EXCEPT !.lame = Left.lame \cup {Taken.port}]
      BY <1>11 DEF AcquireRunning, AcquireStarted
    <3>6. QED
      BY <1>11, <3>4, <3>5 DEF AcquireRunning, AcquireStarted, MayAcquire
  <2>2. browsers.free \in Seq(PoolWorker) /\ Tail(browsers.free) \in Seq(PoolWorker)
        /\ Taken \in PoolWorker
    BY <1>1, <2>1, HasTail DEF Browsers, Taken
  <2>3. /\ browsers' \in Browsers /\ browsers'.build = browsers.build
        /\ browsers'.ready = browsers.ready /\ browsers'.ports = browsers.ports
        /\ browsers'.leaked = browsers.leaked /\ browsers'.free = Tail(browsers.free)
    BY <1>1, <2>1, <2>2 DEF Left, Browsers
  <2>4. solving[t] \in SolverTask
    BY <1>1 DEF Tasks
  <2>5. x \in SolverTask /\ x.pc = "solve" /\ x.worker = Taken
    BY <2>2, <2>4 DEF SolverTask
  <2>6. solving' = [solving EXCEPT ![t] = x]
    BY <1>1, <2>1 DEF Works, Tasks
  <2> HIDE DEF x
  <2>7. solving' \in Tasks /\ solving'[t] = x /\ OthersHold(t)
    BY <1>1, <2>5, <2>6, OneTask
  <2>8. t \notin Holders /\ t \in Holders' /\ PoolTypes' /\ solving'[t].worker = Taken
    BY <2>1, <2>3, <2>5, <2>7 DEF Holders, PoolTypes, Tasks
  <2>9. QED
    BY <2>1, <2>3, <2>7, <2>8, PoolTakes
<1>12. ASSUME NEW t \in Calls, AcquireFails(t) PROVE PoolInv'
  <2>1. t \notin Holders /\ Ended(t, solving, "fail") /\ browsers.free # <<>>
    BY <1>12 DEF AcquireFails, MayAcquire, Holders
  <2>2. solving' \in Tasks /\ t \notin Holders' /\ OthersHold(t)
    BY <1>1, <2>1, EndsTask
  <2>3. QED
    BY <1>12, <2>1, <2>2, PoolMisses DEF AcquireFails, Tasks
<1>13. ASSUME NEW t \in Calls, Solve(t) PROVE PoolInv'
  <2>1. t \in Holders /\ browsers' = Released(browsers, solving[t].worker)
    BY <1>13 DEF Solve, Holders
  <2>2. solving' \in Tasks /\ t \notin Holders' /\ OthersHold(t)
    BY <1>1, <1>13, EndsTask DEF Solve
  <2>3. QED
    BY <1>6, <2>1, <2>2
<1>14. ASSUME NEW t \in Calls, Retreat(t) PROVE PoolInv'
  <2> DEFINE x == [solving[t] EXCEPT !.pc = "back"]
  <2>1. solving[t].pc = "solve" /\ solving' = [solving EXCEPT ![t] = x] /\ UNCHANGED browsers
    BY <1>14 DEF Retreat
  <2>2. solving[t] \in SolverTask
    BY <1>1 DEF Tasks
  <2>3. x \in SolverTask /\ x.pc = "back" /\ x.worker = solving[t].worker
    BY <2>2 DEF SolverTask
  <2> HIDE DEF x
  <2>4. solving' \in Tasks /\ solving'[t] = x /\ OthersHold(t)
    BY <1>1, <2>1, <2>3, OneTask
  <2>5. /\ PoolTypes' /\ Holders' = Holders
        /\ \A u \in Holders : solving'[u].worker = solving[u].worker
    BY <1>1, <2>1, <2>3, <2>4 DEF OthersHold, Holders, PoolTypes, Tasks
  <2>6. QED
    BY <2>1, <2>5, PoolSame
<1>15. ASSUME NEW t \in Calls, FallBack(t) PROVE PoolInv'
  <2>1. t \in Holders
    BY <1>15 DEF FallBack, Holders
  <2>2. CASE Rebuild(t, "offscreen")
    BY <2>2, RebuildPool
  <2>3. CASE ~Rebuild(t, "offscreen")
    <3>1. /\ browsers' = Released(browsers, solving[t].worker)
          /\ \/ Ended(t, solving, "fail")
             \/ solving' = Waits(solving, t, "offscreen", browsers.build)
      BY <1>15, <2>3 DEF FallBack
    <3>2. solving' \in Tasks /\ t \notin Holders' /\ OthersHold(t)
      BY <1>1, <3>1, EndsTask, WaitsTask
    <3>3. QED
      BY <1>6, <2>1, <3>1, <3>2
  <2>4. QED
    BY <2>2, <2>3
<1>16. ASSUME NEW p \in Ports, ChromeDies(p) PROVE PoolInv'
  <2>1. solving' = Cut({p}) /\ UNCHANGED browsers
    BY <1>16 DEF ChromeDies
  <2>2. /\ solving' \in Tasks
        /\ \A u \in Calls : solving'[u].pc = solving[u].pc /\ solving'[u].worker = solving[u].worker
    BY <1>1, <2>1, CutTasks
  <2>3. /\ PoolTypes' /\ Holders' = Holders
        /\ \A u \in Holders : solving'[u].worker = solving[u].worker
    BY <1>1, <2>1, <2>2 DEF Holders, PoolTypes, Tasks
  <2>4. QED
    BY <2>1, <2>3, PoolSame
<1>17. QED
  BY <1>4, <1>5, <1>8, <1>9, <1>10, <1>11, <1>12, <1>13, <1>14, <1>15, <1>16 DEF NextSolver

LEMMA UnaskedStep ==
  ASSUME PoolInv, FailInv, NotYetAsked, [NextSolver]_solverVars
  PROVE  NotYetAsked'
<1>1. solving \in Tasks /\ DOMAIN given = Calls
  BY DEF PoolInv, PoolTypes, FailInv, Tasks
<1>2. SUFFICES ASSUME NEW u \in Calls, given'[u] = "absent"
               PROVE  given[u] = "absent" /\ solving'[u].pc = solving[u].pc
  BY DEF NotYetAsked
<1>3. ASSUME NEW t \in Calls, NEW tasks \in Tasks, NEW r, r # "absent", Ended(t, tasks, r),
             \A v \in Calls : tasks[v].pc = solving[v].pc
      PROVE  given[u] = "absent" /\ solving'[u].pc = solving[u].pc
  <2>1. given' = [given EXCEPT ![t] = r] /\ u # t
    BY <1>1, <1>2, <1>3 DEF Ended
  <2>2. solving'[u] = tasks[u]
    BY <1>3, <2>1 DEF Ended, Tasks
  <2>3. QED
    BY <1>1, <1>2, <1>3, <2>1, <2>2
<1>4. ASSUME NEW t \in Calls, NEW tasks \in Tasks, NEW m, NEW b, solving[t].pc # "none",
             solving' = Waits(tasks, t, m, b), UNCHANGED given,
             \A v \in Calls : tasks[v].pc = solving[v].pc
      PROVE  given[u] = "absent" /\ solving'[u].pc = solving[u].pc
  <2>1. u # t /\ given[u] = "absent"
    BY <1>2, <1>4 DEF NotYetAsked
  <2>2. solving'[u] = tasks[u]
    BY <1>4, <2>1 DEF Waits, Tasks
  <2>3. QED
    BY <1>4, <2>1, <2>2
<1>5. ASSUME NEW t \in Calls, NEW m, solving[t].pc # "none", Rebuild(t, m)
      PROVE  given[u] = "absent" /\ solving'[u].pc = solving[u].pc
  <2>1. Cut(Ports) \in Tasks /\ \A v \in Calls : Cut(Ports)[v].pc = solving[v].pc
    BY <1>1, CutTasks
  <2>2. CASE Ended(t, Cut(Ports), "fail")
    BY <1>3, <2>1, <2>2
  <2>3. CASE solving' = Waits(Cut(Ports), t, m, browsers.build + 1) /\ UNCHANGED given
    BY <1>4, <1>5, <2>1, <2>3
  <2>4. QED
    BY <1>5, <2>2, <2>3 DEF Rebuild
<1>6. CASE \/ UNCHANGED solverVars \/ Withdraw(Active)
           \/ \E t \in Calls : Ask(t) \/ Told(t) \/ Poll(t) \/ Cancelled(t)
  BY <1>1, <1>2, <1>6 DEF solverVars, Withdraw, Ask, Told, Poll, Cancelled
<1>7. ASSUME NEW t \in Calls, Arrive(t)
      PROVE  given[u] = "absent" /\ solving'[u].pc = solving[u].pc
  BY <1>1, <1>2, <1>7 DEF Arrive, Tasks
<1>8. ASSUME NEW t \in Calls, Aborted(t) \/ Starve(t) \/ AcquireFails(t) \/ Solve(t)
      PROVE  given[u] = "absent" /\ solving'[u].pc = solving[u].pc
  <2>1. PICK r \in {"fail", "token"} : Ended(t, solving, r)
    BY <1>8 DEF Aborted, Starve, AcquireFails, Solve, Outcomes
  <2>2. QED
    BY <1>1, <1>3, <2>1
<1>9. ASSUME NEW t \in Calls, Enter(t) \/ FallBack(t)
      PROVE  given[u] = "absent" /\ solving'[u].pc = solving[u].pc
  <2>1. solving[t].pc # "none"
    BY <1>9 DEF Enter, FallBack
  <2>2. PICK m, b : \/ Ended(t, solving, "fail")
                    \/ solving' = Waits(solving, t, m, b) /\ UNCHANGED given
                    \/ Rebuild(t, m)
    BY <1>9 DEF Enter, FallBack
  <2>3. CASE Ended(t, solving, "fail")
    BY <1>1, <1>3, <2>3
  <2>4. CASE solving' = Waits(solving, t, m, b) /\ UNCHANGED given
    BY <1>1, <1>4, <2>1, <2>4
  <2>5. CASE Rebuild(t, m)
    BY <1>5, <2>1, <2>5
  <2>6. QED
    BY <2>2, <2>3, <2>4, <2>5
<1>10. ASSUME NEW t \in Calls, AcquireRunning(t) \/ AcquireStarted(t) \/ Retreat(t)
       PROVE  given[u] = "absent" /\ solving'[u].pc = solving[u].pc
  <2>1. solving[t].pc # "none" /\ UNCHANGED given
    BY <1>10 DEF AcquireRunning, AcquireStarted, Retreat, MayAcquire
  <2>2. u # t /\ given[u] = "absent"
    BY <1>2, <2>1 DEF NotYetAsked
  <2>3. QED
    BY <1>1, <1>10, <2>2 DEF AcquireRunning, AcquireStarted, Retreat, Works, Tasks
<1>11. ASSUME NEW p \in Ports, ChromeDies(p)
       PROVE  given[u] = "absent" /\ solving'[u].pc = solving[u].pc
  BY <1>1, <1>2, <1>11, CutTasks DEF ChromeDies
<1>12. QED
  BY <1>6, <1>7, <1>8, <1>9, <1>10, <1>11 DEF NextSolver

LEMMA PoolInit == InitSolver => PoolInv /\ NotYetAsked
<1> SUFFICES ASSUME InitSolver PROVE PoolInv /\ NotYetAsked
  OBVIOUS
<1>1. NoTask \in SolverTask
  BY SolverAssumption DEF NoTask, SolverTask
<1>2. solving = [t \in Calls |-> NoTask] /\ Holders = {}
  BY DEF InitSolver, Holders, NoTask
<1>3. /\ browsers \in Browsers /\ browsers.free = <<>> /\ browsers.ready = FALSE
  BY SolverAssumption, EmptySeq DEF InitSolver, Browsers
<1>4. PoolTypes
  BY <1>1, <1>2, <1>3 DEF PoolTypes
<1>5. NotNewer /\ SingleIn(browsers.free, browsers.build) /\ HeldOnce /\ Covered
  BY <1>2, <1>3 DEF NotNewer, SingleIn, HeldOnce, Covered
<1>6. NotYetAsked
  BY <1>2 DEF NotYetAsked, NoTask
<1>7. QED
  BY <1>4, <1>5, <1>6 DEF PoolInv

\* Each worker of the pool of the day is in the queue once or with one task, for any
\* number of tasks, ports, slots and rebuilt pools, unless starting its Chrome raised: a
\* pool that is rebuilt has a number of its own, so that workers of the one before, which
\* its tasks give back to the new queue, are not taken for its workers.
THEOREM WorkersAccountedAlways == SolverSpec => []WorkersAccounted
<1>1. PoolInv => WorkersAccounted
  <2> SUFFICES ASSUME PoolInv, browsers.ready, NEW p \in browsers.ports \ browsers.leaked
               PROVE  LET w == [build |-> browsers.build, port |-> p]
                      IN Cardinality({i \in DOMAIN browsers.free : browsers.free[i] = w})
                           + Cardinality({t \in Holders : solving[t].worker = w}) = 1
    BY DEF WorkersAccounted
  <2> DEFINE w == [build |-> browsers.build, port |-> p]
             Q == {i \in DOMAIN browsers.free : browsers.free[i] = w}
             H == {t \in Holders : solving[t].worker = w}
  <2>1. w.build = browsers.build
    OBVIOUS
  <2>2. \A i, j \in Q : i = j
    BY <2>1 DEF PoolInv, SingleIn
  <2>3. \A t, u \in H : t = u
    BY <2>1 DEF PoolInv, HeldOnce
  <2>4. H # {} => Q = {}
    BY <2>1 DEF PoolInv, HeldOnce, Has
  <2>5. Q # {} \/ H # {}
    BY DEF PoolInv, Covered, Has
  <2>6. CASE H # {}
    <3>1. PICK t : H = {t}
      BY <2>3, <2>6
    <3>2. Cardinality(H) = 1 /\ Cardinality(Q) = 0
      BY <2>4, <2>6, <3>1, FS_Singleton, FS_EmptySet
    <3>3. QED
      BY <3>2
  <2>7. CASE H = {}
    <3>1. PICK i : Q = {i}
      BY <2>2, <2>5, <2>7
    <3>2. Cardinality(Q) = 1 /\ Cardinality(H) = 0
      BY <2>7, <3>1, FS_Singleton, FS_EmptySet
    <3>3. QED
      BY <3>2
  <2>8. QED
    BY <2>6, <2>7
<1>2. QED
  BY <1>1, PoolInit, PoolStep, UnaskedStep, InitFail, StepFail, PTL DEF SolverSpec
-----------------------------------------------------------------------------
\* The types of the solver: what PoolInv leaves open.

\* No task waits at, or has a worker of, a pool that is still to come.
Aged == \A t \in Calls :
  solving[t].queue <= browsers.build /\ solving[t].worker.build <= browsers.build

\* The workers of the pool of the day are on its ports.
Homed ==
  /\ \A y \in PoolWorker : Has(browsers.free, y) /\ y.build = browsers.build
                             => y.port \in browsers.ports
  /\ \A t \in Holders : solving[t].worker.build = browsers.build
                          => solving[t].worker.port \in browsers.ports
  /\ browsers.leaked \subseteq browsers.ports

\* Client and Chromes.
Outside ==
  /\ calling \in [Calls -> {"idle", "asking", "polling", "token", "nothing"}]
  /\ followed \subseteq Calls /\ withdrawn \subseteq Calls
  /\ given \in [Calls -> {"absent", "pending", "token", "fail"}]
  /\ browsers.build <= MaxBuilds /\ chrome \subseteq Ports /\ deaths \in 0 .. MaxDeaths

SolverTyped == Aged /\ Homed /\ Outside

LEMMA SolverNumbers == MaxBuilds \in Nat /\ MaxDeaths \in Nat
BY SolverAssumption

\* The tasks, but for one, keep their queue and their worker.
LEMMA AgedMove ==
  ASSUME solving \in Tasks, Aged, browsers.build \in Nat, browsers'.build \in Nat,
         browsers.build <= browsers'.build, NEW tasks \in Tasks, NEW t \in Calls,
         \A u \in Calls : tasks[u].queue = solving[u].queue /\ tasks[u].worker = solving[u].worker,
         NEW x \in SolverTask, solving' = [tasks EXCEPT ![t] = x],
         x.queue <= browsers'.build, x.worker.build <= browsers'.build
  PROVE  Aged'
<1> SUFFICES ASSUME NEW u \in Calls
             PROVE  /\ solving'[u].queue <= browsers'.build
                    /\ solving'[u].worker.build <= browsers'.build
  BY DEF Aged
<1>1. CASE u = t
  BY <1>1 DEF Tasks
<1>2. CASE u # t
  <2>1. solving'[u].queue = solving[u].queue /\ solving'[u].worker = solving[u].worker
    BY <1>2 DEF Tasks
  <2>2. solving[u].queue \in Nat /\ solving[u].worker.build \in Nat
    BY DEF Tasks, SolverTask, PoolWorker, NoWorker
  <2>3. solving[u].queue <= browsers.build /\ solving[u].worker.build <= browsers.build
    BY DEF Aged
  <2>4. QED
    BY <2>1, <2>2, <2>3
<1>3. QED
  BY <1>1, <1>2

LEMMA AgedCut ==
  ASSUME solving \in Tasks, NEW P
  PROVE  /\ Cut(P) \in Tasks
         /\ \A u \in Calls : /\ Cut(P)[u].queue = solving[u].queue
                             /\ Cut(P)[u].worker = solving[u].worker
<1>1. Cut(P) \in Tasks
  BY CutTasks
<1>2. ASSUME NEW u \in Calls
      PROVE  Cut(P)[u].queue = solving[u].queue /\ Cut(P)[u].worker = solving[u].worker
  <2>1. Cut(P)[u] = IF solving[u].worker.port \in P
                    THEN [solving[u] EXCEPT !.live = FALSE] ELSE solving[u]
    BY DEF Cut
  <2>2. solving[u] \in SolverTask
    BY DEF Tasks
  <2>3. QED
    BY <2>1, <2>2 DEF SolverTask
<1>3. QED
  BY <1>1, <1>2

LEMMA AgedEnds ==
  ASSUME solving \in Tasks, Aged, browsers.build \in Nat, browsers'.build \in Nat,
         browsers.build <= browsers'.build, NEW tasks \in Tasks, NEW t \in Calls, NEW r,
         \A u \in Calls : tasks[u].queue = solving[u].queue /\ tasks[u].worker = solving[u].worker,
         Ended(t, tasks, r)
  PROVE  Aged'
<1> DEFINE x == [NoTask EXCEPT !.pc = "done"]
<1>1. x \in SolverTask /\ x.queue = 0 /\ x.worker.build = 0
  BY SolverAssumption DEF SolverTask, NoTask, NoWorker
<1>2. solving' = [tasks EXCEPT ![t] = x]
  BY DEF Ended
<1>3. 0 <= browsers'.build
  OBVIOUS
<1> HIDE DEF x
<1>4. QED
  BY <1>1, <1>2, <1>3, AgedMove

LEMMA AgedWaits ==
  ASSUME solving \in Tasks, Aged, browsers.build \in Nat, browsers'.build \in Nat,
         browsers.build <= browsers'.build, NEW tasks \in Tasks, NEW t \in Calls,
         \A u \in Calls : tasks[u].queue = solving[u].queue /\ tasks[u].worker = solving[u].worker,
         NEW m \in {"headless", "offscreen"}, solving' = Waits(tasks, t, m, browsers'.build)
  PROVE  Aged'
<1> DEFINE x == [NoTask EXCEPT !.pc = "wait", !.mode = m, !.queue = browsers'.build]
<1>1. x \in SolverTask /\ x.queue = browsers'.build /\ x.worker.build = 0
  BY SolverAssumption DEF SolverTask, NoTask, NoWorker
<1>2. solving' = [tasks EXCEPT ![t] = x]
  BY DEF Waits
<1>3. x.queue <= browsers'.build /\ x.worker.build <= browsers'.build
  BY <1>1
<1> HIDE DEF x
<1>4. QED
  BY <1>1, <1>2, <1>3, AgedMove

\* A pool that goes on: the workers in its queue and with its tasks were so before.
LEMMA HomedMove ==
  ASSUME PoolInv, PoolInv', Homed, UNCHANGED <<browsers.build, browsers.ports>>,
         browsers'.leaked \subseteq browsers.ports,
         \A y \in PoolWorker : Has(browsers'.free, y) =>
            Has(browsers.free, y) \/ \E v \in Holders : y = solving[v].worker,
         \A u \in Holders' :
            \/ Has(browsers.free, solving'[u].worker)
            \/ \E v \in Holders : solving'[u].worker = solving[v].worker
  PROVE  Homed'
<1>1. \A u \in Holders' : solving'[u].worker \in PoolWorker
  BY DEF PoolInv, NotNewer
<1>2. QED
  BY <1>1 DEF Homed

LEMMA HomedBuilt ==
  ASSUME PoolInv, NEW m \in {"headless", "offscreen"}, NEW up \in SUBSET Ports,
         browsers' \in BuiltPools(m, up),
         \A u \in Holders' : u \in Holders /\ solving'[u].worker = solving[u].worker
  PROVE  Homed'
<1>1. browsers.build \in Nat
  BY DEF PoolInv, PoolTypes, Browsers
<1>2. PICK q \in [1 .. Cardinality(up) -> {[build |-> browsers.build + 1, port |-> p] : p \in up}] :
        browsers' = [build |-> browsers.build + 1, ready |-> up # {}, mode |-> m, ports |-> up,
                     lame |-> {}, leaked |-> {}, free |-> q]
  BY DEF BuiltPools
<1>3. \A y : Has(q, y) => \E p \in up : y = [build |-> browsers.build + 1, port |-> p]
  BY DEF Has
<1>4. \A u \in Holders' : solving'[u].worker.build # browsers.build + 1
  BY <1>1 DEF PoolInv, NotNewer, PoolWorker
<1>5. /\ browsers'.free = q /\ browsers'.ports = up /\ browsers'.leaked = {}
      /\ browsers'.build = browsers.build + 1
  BY <1>2
<1>6. \A y : Has(browsers'.free, y) => y.port \in browsers'.ports
  BY <1>3, <1>5
<1>7. QED
  BY <1>4, <1>5, <1>6 DEF Homed
-----------------------------------------------------------------------------
LEMMA SolverShape ==
  ASSUME PoolInv
  PROVE  /\ solving \in Tasks /\ browsers \in Browsers /\ browsers.build \in Nat
         /\ browsers.free \in Seq(PoolWorker) /\ browsers.ports \subseteq Ports
         /\ \A t \in Holders : /\ solving[t].worker \in PoolWorker
                               /\ solving[t].worker.build <= browsers.build
BY DEF PoolInv, PoolTypes, NotNewer, Tasks, Browsers

\* The first worker of the queue is of no pool that is still to come.
LEMMA TakenShape ==
  ASSUME PoolInv, browsers.free # <<>>
  PROVE  /\ Taken \in PoolWorker /\ Taken.build <= browsers.build /\ Has(browsers.free, Taken)
         /\ Tail(browsers.free) \in Seq(PoolWorker)
         /\ \A y : Has(Tail(browsers.free), y) => Has(browsers.free, y)
<1>1. browsers.free \in Seq(PoolWorker)
  BY SolverShape
<1>2. /\ Taken \in PoolWorker /\ Has(browsers.free, Taken)
      /\ Tail(browsers.free) \in Seq(PoolWorker)
      /\ \A y : Has(Tail(browsers.free), y) => Has(browsers.free, y)
  BY <1>1, HasTail DEF Taken
<1>3. Taken.build <= browsers.build
  BY <1>2 DEF PoolInv, NotNewer, Has
<1>4. QED
  BY <1>2, <1>3

\* How a step that does not rebuild the pool leaves it.
Lasts ==
  /\ browsers'.build = browsers.build /\ browsers'.ports = browsers.ports
  /\ browsers'.leaked \subseteq browsers.leaked \cup {p \in Ports :
       browsers.free # <<>> /\ Taken.build = browsers.build /\ p = Taken.port}
  /\ \A y \in PoolWorker : Has(browsers'.free, y) =>
       Has(browsers.free, y) \/ \E v \in Holders : y = solving[v].worker

LEMMA LastsSame ==
  ASSUME PoolInv, UNCHANGED browsers
  PROVE  Lasts
BY DEF Lasts

LEMMA LastsGives ==
  ASSUME PoolInv, NEW t \in Holders, browsers' = Released(browsers, solving[t].worker)
  PROVE  Lasts
<1>1. browsers \in Browsers /\ solving[t].worker \in PoolWorker
      /\ browsers.free \in Seq(PoolWorker)
  BY SolverShape
<1>2. /\ browsers'.build = browsers.build /\ browsers'.ports = browsers.ports
      /\ browsers'.leaked = browsers.leaked
      /\ browsers'.free = IF browsers.ready THEN Append(browsers.free, solving[t].worker)
                          ELSE browsers.free
  BY <1>1, ReleasedType
<1>3. \A y : Has(browsers'.free, y) => Has(browsers.free, y) \/ y = solving[t].worker
  BY <1>1, <1>2, HasAppend
<1>4. QED
  BY <1>2, <1>3 DEF Lasts

LEMMA LastsTakes ==
  ASSUME PoolInv, NEW t \in Calls, AcquireRunning(t) \/ AcquireStarted(t)
  PROVE  Lasts
<1>1. browsers.free # <<>> /\ browsers \in Browsers
  BY SolverShape DEF AcquireRunning, AcquireStarted, MayAcquire
<1>2. \E S : browsers' = [Left EXCEPT !.lame = S]
  BY DEF AcquireRunning, AcquireStarted
<1>3. /\ browsers'.build = browsers.build /\ browsers'.ports = browsers.ports
      /\ browsers'.leaked = browsers.leaked /\ browsers'.free = Tail(browsers.free)
  BY <1>1, <1>2 DEF Left, Browsers
<1>4. QED
  BY <1>1, <1>3, TakenShape DEF Lasts

LEMMA LastsMisses ==
  ASSUME PoolInv, NEW t \in Calls, AcquireFails(t)
  PROVE  Lasts
<1>1. browsers.free # <<>> /\ browsers \in Browsers
  BY SolverShape DEF AcquireFails, MayAcquire
<1>2. /\ Left \in Browsers /\ Left.free = Tail(browsers.free)
      /\ Left.build = browsers.build /\ Left.ports = browsers.ports
      /\ Left.leaked = browsers.leaked /\ Taken.port \in Ports
  BY <1>1, TakenShape DEF Left, Browsers, PoolWorker
<1>3. CASE browsers' = Released(Left, Taken)
  <2>1. /\ browsers'.build = Left.build /\ browsers'.ports = Left.ports
        /\ browsers'.leaked = Left.leaked
        /\ browsers'.free = IF Left.ready THEN Append(Left.free, Taken) ELSE Left.free
    BY <1>1, <1>2, <1>3, ReleasedType, TakenShape
  <2>2. \A y : Has(browsers'.free, y) => Has(browsers.free, y)
    <3>1. Left.free \in Seq(PoolWorker) /\ Taken \in PoolWorker /\ Has(browsers.free, Taken)
          /\ \A y : Has(Left.free, y) => Has(browsers.free, y)
      BY <1>1, <1>2, TakenShape
    <3>2. \A y : Has(Append(Left.free, Taken), y) => Has(Left.free, y) \/ y = Taken
      BY <3>1, HasAppend
    <3>3. QED
      BY <2>1, <3>1, <3>2
  <2>3. QED
    BY <1>2, <2>1, <2>2 DEF Lasts
<1>4. CASE browsers' = IF OwnPool THEN [Left EXCEPT !.leaked = @ \cup {Taken.port}] ELSE Left
  <2>1. /\ browsers'.build = browsers.build /\ browsers'.ports = browsers.ports
        /\ browsers'.free = Tail(browsers.free)
        /\ browsers'.leaked = IF OwnPool THEN browsers.leaked \cup {Taken.port}
                              ELSE browsers.leaked
    BY <1>2, <1>4 DEF Browsers
  <2>2. browsers'.leaked \subseteq browsers.leaked \cup {p \in Ports :
          browsers.free # <<>> /\ Taken.build = browsers.build /\ p = Taken.port}
    BY <1>1, <1>2, <2>1 DEF OwnPool
  <2>3. QED
    BY <1>1, <2>1, <2>2, TakenShape DEF Lasts
<1>5. QED
  BY <1>3, <1>4 DEF AcquireFails

\* A pool is rebuilt or lasts.
LEMMA RebuiltOrLasts ==
  ASSUME PoolInv, [NextSolver]_solverVars
  PROVE  Lasts \/ \E t \in Calls, m \in {"headless", "offscreen"} :
                    Rebuild(t, m) /\ ((Enter(t) /\ m = StartMode) \/ FallBack(t))
<1>1. CASE UNCHANGED browsers
  BY <1>1, LastsSame
<1>2. ASSUME NEW t \in Calls, Aborted(t) PROVE Lasts
  BY <1>2, LastsSame, LastsGives DEF Aborted, GivenBack
<1>3. ASSUME NEW t \in Calls, Solve(t) PROVE Lasts
  BY <1>3, LastsGives DEF Solve, Holders
<1>4. ASSUME NEW t \in Calls, Enter(t), ~Rebuild(t, StartMode) PROVE Lasts
  BY <1>4, LastsSame DEF Enter
<1>5. ASSUME NEW t \in Calls, FallBack(t), ~Rebuild(t, "offscreen") PROVE Lasts
  BY <1>5, LastsGives DEF FallBack, Holders
<1>6. CASE UNCHANGED solverVars
  BY <1>1, <1>6 DEF solverVars
<1>7. CASE Withdraw(Active) \/ \E p \in Ports : ChromeDies(p)
  BY <1>1, <1>7 DEF Withdraw, ChromeDies
<1>8. ASSUME NEW t \in Calls,
             Ask(t) \/ Told(t) \/ Poll(t) \/ Cancelled(t) \/ Arrive(t) \/ Starve(t) \/ Retreat(t)
      PROVE  Lasts
  BY <1>8, LastsSame DEF Ask, Told, Poll, Cancelled, Arrive, Starve, Retreat
<1>9. StartMode \in {"headless", "offscreen"}
  BY SolverAssumption
<1>10. QED
  BY <1>2, <1>3, <1>4, <1>5, <1>6, <1>7, <1>8, <1>9, LastsTakes, LastsMisses DEF NextSolver

LEMMA RebuildMore ==
  ASSUME PoolInv, NEW t \in Calls, NEW m \in {"headless", "offscreen"}, Rebuild(t, m)
  PROVE  browsers'.build = browsers.build + 1 /\ browsers'.build <= MaxBuilds
<1>1. browsers.build \in Nat /\ browsers.build < MaxBuilds
  BY SolverShape DEF Rebuild
<1>2. PICK up \in SUBSET Ports : browsers' \in BuiltPools(m, up)
  BY DEF Rebuild
<1>3. browsers'.build = browsers.build + 1
  BY <1>1, <1>2, BuiltWhole
<1>4. QED
  BY <1>1, <1>3, SolverNumbers
-----------------------------------------------------------------------------
LEMMA AgedRebuild ==
  ASSUME PoolInv, Aged, NEW t \in Calls, NEW m \in {"headless", "offscreen"}, Rebuild(t, m)
  PROVE  Aged'
<1>1. /\ solving \in Tasks /\ browsers.build \in Nat /\ browsers'.build \in Nat
      /\ browsers.build <= browsers'.build /\ browsers'.build = browsers.build + 1
  BY SolverShape, RebuildMore
<1>2. /\ Cut(Ports) \in Tasks
      /\ \A u \in Calls : /\ Cut(Ports)[u].queue = solving[u].queue
                          /\ Cut(Ports)[u].worker = solving[u].worker
  BY <1>1, AgedCut
<1>3. CASE Ended(t, Cut(Ports), "fail")
  BY <1>1, <1>2, <1>3, AgedEnds
<1>4. CASE solving' = Waits(Cut(Ports), t, m, browsers'.build)
  BY <1>1, <1>2, <1>4, AgedWaits
<1>5. QED
  BY <1>1, <1>3, <1>4 DEF Rebuild

\* The queues and the workers of a task are of pools that have been built.
LEMMA AgedStep ==
  ASSUME PoolInv, Aged, [NextSolver]_solverVars
  PROVE  Aged'
<1>1. solving \in Tasks /\ browsers.build \in Nat /\ StartMode \in {"headless", "offscreen"}
  BY SolverShape, SolverAssumption
<1>2. ASSUME NEW t \in Calls, NEW x \in SolverTask, Lasts, solving' = [solving EXCEPT ![t] = x],
             x.queue <= browsers.build, x.worker.build <= browsers.build
      PROVE  Aged'
  <2>1. /\ browsers'.build \in Nat /\ browsers.build <= browsers'.build
        /\ x.queue <= browsers'.build /\ x.worker.build <= browsers'.build
    BY <1>1, <1>2 DEF Lasts
  <2>2. \A u \in Calls : solving[u].queue = solving[u].queue
                         /\ solving[u].worker = solving[u].worker
    OBVIOUS
  <2>3. solving \in Tasks /\ solving' = [solving EXCEPT ![t] = x] /\ browsers.build \in Nat
    BY <1>1, <1>2
  <2>4. QED
    BY <2>1, <2>2, <2>3, AgedMove
<1>3. ASSUME NEW t \in Calls, NEW r, Lasts, Ended(t, solving, r) PROVE Aged'
  BY <1>1, <1>3, AgedEnds DEF Lasts
<1>4. ASSUME NEW t \in Calls, NEW m \in {"headless", "offscreen"}, Lasts,
             solving' = Waits(solving, t, m, browsers.build)
      PROVE  Aged'
  BY <1>1, <1>4, AgedWaits DEF Lasts
<1>5. CASE Lasts /\ UNCHANGED solving
  BY <1>5 DEF Lasts, Aged
<1>6. CASE \E t \in Calls, m \in {"headless", "offscreen"} : Rebuild(t, m)
  BY <1>6, AgedRebuild
<1>7. ASSUME NEW t \in Calls, Lasts, Arrive(t) \/ Retreat(t) PROVE Aged'
  <2> DEFINE x(pc) == [solving[t] EXCEPT !.pc = pc]
  <2>1. solving[t] \in SolverTask
    BY <1>1 DEF Tasks
  <2>2. \A pc \in {"queued", "back"} : x(pc) \in SolverTask /\ x(pc).queue = solving[t].queue
                                       /\ x(pc).worker = solving[t].worker
    BY <2>1 DEF SolverTask
  <2>3. PICK pc \in {"queued", "back"} : solving' = [solving EXCEPT ![t] = x(pc)]
    BY <1>7 DEF Arrive, Retreat
  <2> HIDE DEF x
  <2>4. QED
    BY <1>2, <1>7, <2>2, <2>3 DEF Aged
<1>8. ASSUME NEW t \in Calls, Lasts, Aborted(t) \/ Starve(t) \/ AcquireFails(t) \/ Solve(t)
      PROVE  Aged'
  BY <1>3, <1>8 DEF Aborted, Starve, AcquireFails, Solve
<1>9. ASSUME NEW t \in Calls, Lasts, Enter(t) \/ FallBack(t) PROVE Aged'
  <2>1. CASE \E m \in {"headless", "offscreen"} : Rebuild(t, m)
    BY <1>6, <2>1
  <2>2. CASE ~ \E m \in {"headless", "offscreen"} : Rebuild(t, m)
    BY <1>1, <1>3, <1>4, <1>9, <2>2 DEF Enter, FallBack
  <2>3. QED
    BY <2>1, <2>2
<1>10. ASSUME NEW t \in Calls, Lasts, AcquireRunning(t) \/ AcquireStarted(t) PROVE Aged'
  <2> DEFINE x == [solving[t] EXCEPT !.pc = "solve", !.worker = Taken, !.live = TRUE]
  <2>1. Taken \in PoolWorker /\ Taken.build <= browsers.build
    BY <1>10, TakenShape DEF AcquireRunning, AcquireStarted, MayAcquire
  <2>2. solving[t] \in SolverTask /\ solving[t].queue <= browsers.build
    BY <1>1 DEF Tasks, Aged
  <2>3. x \in SolverTask /\ x.queue = solving[t].queue /\ x.worker = Taken
    BY <2>1, <2>2 DEF SolverTask
  <2>4. solving' = [solving EXCEPT ![t] = x]
    BY <1>1, <1>10 DEF AcquireRunning, AcquireStarted, Works, Tasks
  <2> HIDE DEF x
  <2>5. QED
    BY <1>2, <1>10, <2>1, <2>2, <2>3, <2>4
<1>11. ASSUME NEW p \in Ports, Lasts, ChromeDies(p) PROVE Aged'
  <2>1. solving' = Cut({p})
    BY <1>11 DEF ChromeDies
  <2>2. \A u \in Calls : /\ solving'[u].queue = solving[u].queue
                         /\ solving'[u].worker = solving[u].worker
    BY <1>1, <2>1, AgedCut
  <2>3. QED
    BY <1>11, <2>2 DEF Aged, Lasts
<1>12. ASSUME Lasts, \/ UNCHANGED solverVars \/ Withdraw(Active)
                     \/ \E t \in Calls : Ask(t) \/ Told(t) \/ Poll(t) \/ Cancelled(t)
       PROVE  Aged'
  BY <1>5, <1>12 DEF solverVars, Withdraw, Ask, Told, Poll, Cancelled
<1>13. Lasts \/ \E t \in Calls, m \in {"headless", "offscreen"} : Rebuild(t, m)
  BY RebuiltOrLasts
<1>14. QED
  BY <1>6, <1>7, <1>8, <1>9, <1>10, <1>11, <1>12, <1>13 DEF NextSolver
-----------------------------------------------------------------------------
\* Where a step leaves the workers the tasks have.
HeldBefore ==
  \A u \in Holders' : \/ Has(browsers.free, solving'[u].worker)
                      \/ \E v \in Holders : solving'[u].worker = solving[v].worker

LEMMA HeldBeforeOthers ==
  ASSUME NEW t \in Calls, OthersHold(t), t \notin Holders'
  PROVE  /\ HeldBefore
         /\ \A u \in Holders' : u \in Holders /\ solving'[u].worker = solving[u].worker
BY DEF OthersHold, Holders, HeldBefore

LEMMA RebuildHeld ==
  ASSUME PoolInv, NEW t \in Calls, NEW m \in {"headless", "offscreen"}, Rebuild(t, m)
  PROVE  /\ HeldBefore
         /\ \A u \in Holders' : u \in Holders /\ solving'[u].worker = solving[u].worker
<1>1. solving \in Tasks /\ browsers.build \in Nat /\ browsers.build + 1 \in Nat
  BY SolverShape
<1>2. \/ Ended(t, Cut(Ports), "fail")
      \/ solving' = Waits(Cut(Ports), t, m, browsers.build + 1)
  BY DEF Rebuild
<1>3. /\ Cut(Ports) \in Tasks
      /\ \A u \in Calls :
           Cut(Ports)[u].pc = solving[u].pc /\ Cut(Ports)[u].worker = solving[u].worker
  BY <1>1, CutTasks
<1>4. t \notin Holders' /\ OthersHold(t)
  BY <1>1, <1>2, <1>3, EndsTask, WaitsTask
<1>5. QED
  BY <1>4, HeldBeforeOthers

LEMMA HeldBeforeStep ==
  ASSUME PoolInv, NotYetAsked, [NextSolver]_solverVars
  PROVE  HeldBefore
<1>1. solving \in Tasks /\ browsers.build \in Nat /\ StartMode \in {"headless", "offscreen"}
  BY SolverShape, SolverAssumption
<1>2. CASE UNCHANGED solving
  BY <1>2 DEF HeldBefore, Holders
<1>3. ASSUME NEW t \in Calls, NEW r, Ended(t, solving, r) PROVE HeldBefore
  BY <1>1, <1>3, EndsTask, HeldBeforeOthers
<1>4. ASSUME NEW t \in Calls, NEW m \in {"headless", "offscreen"},
             solving' = Waits(solving, t, m, browsers.build)
      PROVE  HeldBefore
  BY <1>1, <1>4, WaitsTask, HeldBeforeOthers
<1>5. ASSUME NEW t \in Calls, NEW m \in {"headless", "offscreen"}, Rebuild(t, m)
      PROVE  HeldBefore
  BY <1>5, RebuildHeld
<1>6. ASSUME NEW t \in Calls, Arrive(t) \/ Retreat(t) PROVE HeldBefore
  <2>1. /\ \A u \in Calls : solving'[u].worker = solving[u].worker
        /\ Holders' \subseteq Holders
    BY <1>1, <1>6 DEF Arrive, Retreat, Tasks, SolverTask, Holders
  <2>2. QED
    BY <2>1 DEF HeldBefore, Holders
<1>7. ASSUME NEW t \in Calls, Aborted(t) \/ Starve(t) \/ AcquireFails(t) \/ Solve(t)
      PROVE  HeldBefore
  BY <1>3, <1>7 DEF Aborted, Starve, AcquireFails, Solve
<1>8. ASSUME NEW t \in Calls, Enter(t) \/ FallBack(t) PROVE HeldBefore
  BY <1>1, <1>3, <1>4, <1>5, <1>8 DEF Enter, FallBack
<1>9. ASSUME NEW t \in Calls, AcquireRunning(t) \/ AcquireStarted(t) PROVE HeldBefore
  <2>1. Has(browsers.free, Taken)
    BY <1>9, TakenShape DEF AcquireRunning, AcquireStarted, MayAcquire
  <2>2. solving'[t].worker = Taken /\ OthersHold(t)
    BY <1>1, <1>9 DEF AcquireRunning, AcquireStarted, Works, OthersHold, Tasks, SolverTask
  <2>3. QED
    BY <2>1, <2>2 DEF HeldBefore, OthersHold, Holders
<1>10. ASSUME NEW p \in Ports, ChromeDies(p) PROVE HeldBefore
  <2>1. \A u \in Calls : solving'[u].pc = solving[u].pc /\ solving'[u].worker = solving[u].worker
    BY <1>1, <1>10, CutTasks DEF ChromeDies
  <2>2. QED
    BY <2>1 DEF HeldBefore, Holders
<1>11. CASE \/ UNCHANGED solverVars \/ Withdraw(Active)
            \/ \E t \in Calls : Ask(t) \/ Told(t) \/ Poll(t) \/ Cancelled(t)
  BY <1>2, <1>11 DEF solverVars, Withdraw, Ask, Told, Poll, Cancelled
<1>12. QED
  BY <1>6, <1>7, <1>8, <1>9, <1>10, <1>11 DEF NextSolver
-----------------------------------------------------------------------------
LEMMA HomedStep ==
  ASSUME PoolInv, PoolInv', NotYetAsked, Homed, [NextSolver]_solverVars
  PROVE  Homed'
<1>1. CASE Lasts
  <2>1. HeldBefore
    BY HeldBeforeStep
  <2>2. browsers.free # <<>> /\ Taken.build = browsers.build => Taken.port \in browsers.ports
    BY TakenShape DEF Homed
  <2>3. browsers'.leaked \subseteq browsers.ports
    BY <1>1, <2>2 DEF Lasts, Homed
  <2>4. QED
    BY <1>1, <2>1, <2>3, HomedMove DEF Lasts, HeldBefore
<1>2. ASSUME NEW t \in Calls, NEW m \in {"headless", "offscreen"}, Rebuild(t, m)
      PROVE  Homed'
  <2>1. PICK up \in SUBSET Ports : browsers' \in BuiltPools(m, up)
    BY <1>2 DEF Rebuild
  <2>2. \A u \in Holders' : u \in Holders /\ solving'[u].worker = solving[u].worker
    BY <1>2, RebuildHeld
  <2>3. QED
    BY <2>1, <2>2, HomedBuilt
<1>3. QED
  BY <1>1, <1>2, RebuiltOrLasts

Positions == {"idle", "asking", "polling", "token", "nothing"}
Answers == {"absent", "pending", "token", "fail"}

LEMMA OutsideStep ==
  ASSUME PoolInv, Outside, [NextSolver]_solverVars
  PROVE  Outside'
<1>1. /\ calling \in [Calls -> Positions] /\ given \in [Calls -> Answers]
      /\ followed \subseteq Calls /\ withdrawn \subseteq Calls
      /\ browsers.build \in Nat /\ browsers.build <= MaxBuilds
      /\ chrome \subseteq Ports /\ deaths \in 0 .. MaxDeaths /\ MaxDeaths \in Nat
  BY SolverShape, SolverNumbers DEF Outside, Positions, Answers
<1>2. browsers'.build <= MaxBuilds
  <2>1. CASE Lasts
    BY <1>1, <2>1 DEF Lasts
  <2>2. ASSUME NEW t \in Calls, NEW m \in {"headless", "offscreen"}, Rebuild(t, m)
        PROVE  browsers'.build <= MaxBuilds
    BY <2>2, RebuildMore
  <2>3. QED
    BY <2>1, <2>2, RebuiltOrLasts
<1>3. SUFFICES /\ calling' \in [Calls -> Positions] /\ given' \in [Calls -> Answers]
               /\ followed' \subseteq Calls /\ withdrawn' \subseteq Calls
               /\ chrome' \subseteq Ports /\ deaths' \in 0 .. MaxDeaths
  BY <1>2 DEF Outside, Positions, Answers
<1>4. ASSUME NEW t \in Calls, Ask(t) \/ Told(t) \/ Poll(t) \/ Cancelled(t)
      PROVE  /\ calling' \in [Calls -> Positions] /\ given' \in [Calls -> Answers]
             /\ followed' \subseteq Calls /\ withdrawn' \subseteq Calls
             /\ chrome' \subseteq Ports /\ deaths' \in 0 .. MaxDeaths
  BY <1>1, <1>4 DEF Ask, Told, Poll, Cancelled, Positions, Answers
<1>5. ASSUME NEW t \in Calls, NEW tasks, NEW r \in Answers, Ended(t, tasks, r)
      PROVE  given' \in [Calls -> Answers] /\ withdrawn' \subseteq Calls
  BY <1>1, <1>5 DEF Ended
<1>6. {"fail", "token", "pending"} \subseteq Answers
  BY DEF Answers
<1>7. ASSUME NEW t \in Calls, NEW m, Rebuild(t, m)
      PROVE  given' \in [Calls -> Answers] /\ withdrawn' \subseteq Calls /\ chrome' \subseteq Ports
  <2>1. CASE Ended(t, Cut(Ports), "fail")
    BY <1>5, <1>6, <1>7, <2>1 DEF Rebuild
  <2>2. CASE UNCHANGED <<given, withdrawn>>
    BY <1>1, <1>7, <2>2 DEF Rebuild
  <2>3. QED
    BY <1>7, <2>1, <2>2 DEF Rebuild
<1>8. ASSUME NEW t \in Calls, Enter(t) \/ FallBack(t)
      PROVE  given' \in [Calls -> Answers] /\ withdrawn' \subseteq Calls /\ chrome' \subseteq Ports
             /\ UNCHANGED <<calling, followed, deaths>>
  BY <1>1, <1>5, <1>6, <1>7, <1>8 DEF Enter, FallBack
<1>9. ASSUME NEW t \in Calls, Aborted(t) \/ Starve(t) \/ AcquireFails(t) \/ Solve(t)
      PROVE  given' \in [Calls -> Answers] /\ withdrawn' \subseteq Calls
             /\ UNCHANGED <<calling, followed, chrome, deaths>>
  BY <1>5, <1>6, <1>9 DEF Aborted, Starve, AcquireFails, Solve, Outcomes
<1>10. ASSUME NEW t \in Calls, AcquireRunning(t) \/ AcquireStarted(t)
       PROVE  chrome' \subseteq Ports /\ UNCHANGED <<calling, followed, given, withdrawn, deaths>>
  <2>1. Taken.port \in Ports
    BY <1>10, TakenShape DEF AcquireRunning, AcquireStarted, MayAcquire, PoolWorker
  <2>2. QED
    BY <1>1, <1>10, <2>1 DEF AcquireRunning, AcquireStarted
<1>11. ASSUME NEW t \in Calls, Arrive(t) \/ Retreat(t)
       PROVE  given' \in [Calls -> Answers]
              /\ UNCHANGED <<calling, followed, withdrawn, chrome, deaths>>
  BY <1>1, <1>6, <1>11 DEF Arrive, Retreat
<1>12. ASSUME NEW p \in Ports, ChromeDies(p)
       PROVE  chrome' \subseteq Ports /\ deaths' \in 0 .. MaxDeaths
              /\ UNCHANGED <<calling, followed, given, withdrawn>>
  BY <1>1, <1>12 DEF ChromeDies
<1>13. ASSUME Withdraw(Active)
       PROVE  given' \in [Calls -> Answers] /\ withdrawn' \subseteq Calls
              /\ UNCHANGED <<calling, followed, chrome, deaths>>
  <2>1. Active \subseteq Calls
    BY DEF Active, Seats
  <2>2. QED
    BY <1>1, <1>6, <1>13, <2>1 DEF Withdraw
<1>14. CASE UNCHANGED solverVars
  BY <1>1, <1>14 DEF solverVars
<1>15. CASE \E t \in Calls : Ask(t) \/ Told(t) \/ Poll(t) \/ Cancelled(t)
  BY <1>4, <1>15
<1>16. CASE \E t \in Calls : Arrive(t) \/ Aborted(t) \/ Enter(t) \/ Starve(t)
                      \/ AcquireRunning(t) \/ AcquireStarted(t) \/ AcquireFails(t)
                      \/ Solve(t) \/ Retreat(t) \/ FallBack(t)
  BY <1>1, <1>8, <1>9, <1>10, <1>11, <1>16
<1>17. CASE Withdraw(Active) \/ \E p \in Ports : ChromeDies(p)
  BY <1>1, <1>12, <1>13, <1>17
<1>18. QED
  BY <1>14, <1>15, <1>16, <1>17 DEF NextSolver

LEMMA SolverTypedInit == InitSolver => SolverTyped
<1> SUFFICES ASSUME InitSolver PROVE SolverTyped
  OBVIOUS
<1>1. /\ \A t \in Calls : solving[t].queue = 0 /\ solving[t].worker.build = 0
      /\ Holders = {}
  BY DEF InitSolver, NoTask, NoWorker, Holders
<1>2. /\ browsers.build = 0 /\ browsers.leaked = {} /\ \A y : ~Has(browsers.free, y)
      /\ browsers.ports = {}
  BY DEF InitSolver, Has
<1>3. Aged
  BY <1>1, <1>2 DEF Aged
<1>4. Homed
  BY <1>1, <1>2 DEF Homed
<1>5. Outside
  BY <1>2, SolverNumbers DEF InitSolver, Outside
<1>6. QED
  BY <1>3, <1>4, <1>5 DEF SolverTyped

\* Every queue, worker and number of the solver is what it should be, for any number of
\* tasks, ports and rebuilt pools: no task waits for a pool that has not been built, and
\* what a failed start has taken out of the pool was a worker of that pool.
THEOREM SolverTypesAlways == SolverSpec => []SolverTypeOK
<1>1. PoolInv /\ SolverTyped => SolverTypeOK
  <2> SUFFICES ASSUME PoolInv, SolverTyped PROVE SolverTypeOK
    OBVIOUS
  <2>1. /\ solving \in Tasks /\ browsers \in Browsers /\ browsers.build \in Nat
        /\ browsers.build <= MaxBuilds /\ MaxBuilds \in Nat
        /\ browsers.free \in Seq(PoolWorker)
    BY SolverShape, SolverNumbers DEF SolverTyped, Outside
  <2>2. ASSUME NEW y \in PoolWorker, y.build <= browsers.build PROVE y \in ChromeWorker
    BY <2>1, <2>2 DEF PoolWorker, ChromeWorker
  <2>3. browsers.free \in Seq(ChromeWorker)
    <3>1. /\ \A i \in DOMAIN browsers.free : browsers.free[i] \in ChromeWorker
          /\ DOMAIN browsers.free = 1 .. Len(browsers.free) /\ Len(browsers.free) \in Nat
          /\ browsers.free \in [1 .. Len(browsers.free) -> PoolWorker]
      BY <2>1, <2>2, LenProperties, ElementOfSeq DEF PoolInv, NotNewer
    <3>2. browsers.free \in [1 .. Len(browsers.free) -> ChromeWorker]
      BY <3>1
    <3>3. QED
      BY <3>1, <3>2, SeqDef
  <2>4. NoWorker \in ChromeWorker
    BY <2>1 DEF NoWorker, ChromeWorker
  <2>5. ASSUME NEW t \in Calls
        PROVE  solving[t] \in [pc : {"none", "queued", "wait", "solve", "back", "done"},
                               queue : 0 .. MaxBuilds, worker : ChromeWorker,
                               mode : {"headless", "offscreen"}, live : BOOLEAN]
    <3>1. solving[t] \in SolverTask /\ solving[t].queue <= browsers.build
          /\ solving[t].worker.build <= browsers.build
      BY <2>1 DEF Tasks, SolverTyped, Aged
    <3>2. solving[t].worker \in ChromeWorker
      BY <2>2, <2>4, <3>1 DEF SolverTask
    <3>3. solving[t].queue \in 0 .. MaxBuilds
      BY <2>1, <3>1 DEF SolverTask
    <3>4. QED
      BY <3>1, <3>2, <3>3 DEF SolverTask
  <2>6. DOMAIN solving = Calls /\ solving = [t \in Calls |-> solving[t]]
    BY <2>1 DEF Tasks
  <2>7. browsers.build \in 0 .. MaxBuilds /\ browsers.lame \subseteq Ports
    BY <2>1 DEF Browsers
  <2>8. solving \in [Calls -> [pc : {"none", "queued", "wait", "solve", "back", "done"},
                               queue : 0 .. MaxBuilds, worker : ChromeWorker,
                               mode : {"headless", "offscreen"}, live : BOOLEAN]]
    BY <2>5, <2>6
  <2>9. QED
    BY <2>3, <2>7, <2>8 DEF SolverTypeOK, SolverTyped, Outside, Homed
<1>2. SolverTyped /\ PoolInv /\ PoolInv' /\ NotYetAsked /\ [NextSolver]_solverVars => SolverTyped'
  BY AgedStep, HomedStep, OutsideStep DEF SolverTyped
<1>3. QED
  BY <1>1, <1>2, SolverTypedInit, PoolInit, PoolStep, UnaskedStep, InitFail, StepFail, PTL
     DEF SolverSpec
-----------------------------------------------------------------------------
\* No step takes the domains and what the threads know of them out of their types.
LEMMA DomainTypeStep ==
  ASSUME DomainInv, MailDomainsTypeOK, [NextMailDomains]_mailDomainsVars
  PROVE  MailDomainsTypeOK'
<1> USE MailDomainsAssumption DEF MailDomainsTypeOK, NotPicking
<1>1. now \in Nat /\ 0 \in 0 .. MaxTime /\ Rested \subseteq Domains
  BY DEF Rested
<1>2. ASSUME NEW w \in Pickers, PickBegins(w) \/ WaitEnds(w) PROVE MailDomainsTypeOK'
  <2>1. OfferAfterWait \subseteq Domains
    BY <1>1 DEF OfferAfterWait
  <2>2. \E S \in SUBSET Domains, whom \in {"rested", "all"} :
          picker' = [picker EXCEPT ![w] = Offered(S, whom)]
    BY <1>1, <1>2, <2>1 DEF PickBegins, WaitEnds
  <2>3. UNCHANGED <<now, mode, rest, strikes, deck>>
    BY <1>2 DEF PickBegins, WaitEnds
  <2>4. QED
    BY <2>2, <2>3 DEF Offered
<1>3. ASSUME NEW w \in Pickers, PickWaits(w) PROVE MailDomainsTypeOK'
  BY <1>3 DEF PickWaits
<1>4. ASSUME NEW w \in Pickers, NEW d \in Domains,
             PickAny(w, d) \/ PickDealt(w, d) \/ PickDrawn(w, d)
      PROVE  MailDomainsTypeOK'
  <2>1. deck' \subseteq Domains
    BY <1>4 DEF PickAny, PickDealt, PickDrawn
  <2>2. Handed(w, d) /\ UNCHANGED <<now, mode, rest, strikes>>
    BY <1>4 DEF PickAny, PickDealt, PickDrawn
  <2>3. QED
    BY <1>1, <2>1, <2>2 DEF Handed
<1>5. ASSUME NEW w \in Pickers,
             Refused(w) \/ CodeCame(w) \/ StrikesBack(w) \/ StruckOut(w) \/ NothingNoted(w)
      PROVE  MailDomainsTypeOK'
  <2>1. rest' \in [Domains -> Nat] /\ strikes' \in [Domains -> Nat]
    BY <1>1, <1>5 DEF Refused, CodeCame, StrikesBack, StruckOut, NothingNoted, Tires
  <2>2. \/ picker' = [picker EXCEPT ![w] = NotPicking]
        \/ picker' = [picker EXCEPT ![w].pc = "tiring"]
    BY <1>5 DEF Refused, CodeCame, StrikesBack, StruckOut, NothingNoted
  <2>3. UNCHANGED <<now, mode, deck>>
    BY <1>5 DEF Refused, CodeCame, StrikesBack, StruckOut, NothingNoted
  <2>4. QED
    BY <1>1, <2>1, <2>2, <2>3
<1>6. ASSUME NEW w \in Pickers, NoCode(w) PROVE MailDomainsTypeOK'
  <2>1. strikes' \in [Domains -> Nat] /\ UNCHANGED <<now, mode, rest, deck>>
    <3>1. picker[w].domain \in Domains
      BY <1>6 DEF NoCode, DomainInv, DomainTypes
    <3>2. UNCHANGED <<now, mode, rest, deck>>
          /\ strikes' = [strikes EXCEPT ![picker[w].domain] = @ + 1]
      BY <1>6 DEF NoCode
    <3>3. QED
      BY <3>1, <3>2
  <2>2. \/ picker' = [picker EXCEPT ![w] = NotPicking]
        \/ picker' = [picker EXCEPT ![w].pc = "out"]
    BY <1>6 DEF NoCode
  <2>3. QED
    BY <1>1, <2>1, <2>2
<1>7. CASE TimePasses
  BY <1>7 DEF TimePasses
<1>8. CASE UNCHANGED mailDomainsVars
  BY <1>8 DEF mailDomainsVars
<1>9. QED
  BY <1>2, <1>3, <1>4, <1>5, <1>6, <1>7, <1>8 DEF NextMailDomains

\* What the threads know of the domains, the strikes and the deck keep to their types, for
\* any number of threads and domains (_pick_cf_domain, cf_note_otp_failure).
THEOREM MailDomainsTypesAlways == MailDomainsSpec => []MailDomainsTypeOK
<1>1. InitMailDomains => MailDomainsTypeOK
  BY MailDomainsAssumption DEF InitMailDomains, MailDomainsTypeOK, NotPicking
<1>2. QED
  BY <1>1, DomainInit, DomainStep, DomainTypeStep, PTL DEF MailDomainsSpec

-----------------------------------------------------------------------------
\* What ProxyTypes leaves open.
ProxyCounted ==
  /\ taker \in [Takers -> [pc : {"idle", "pool"}, pool : SUBSET Proxies, calm : BOOLEAN]]
  /\ poolCounts \in [edits : 0 .. MaxEdits, checks : 0 .. MaxChecks,
                     crashes : 0 .. MaxPoolCrashes]
  /\ wiped \in BOOLEAN

LEMMA ProxyCountedStep ==
  ASSUME ProxyInv, ProxyCounted, [NextProxyPool]_proxyPoolVars
  PROVE  ProxyCounted'
<1> USE ProxyPoolAssumption DEF ProxyCounted
<1>1. ASSUME taker' = Disturbed, UNCHANGED <<poolCounts, wiped>> PROVE ProxyCounted'
  BY <1>1 DEF Disturbed
<1>2. ASSUME NEW k \in Checks, CheckBegins(k) PROVE ProxyCounted'
  BY <1>2 DEF CheckBegins
<1>3. ASSUME NEW k \in Checks, ResultReads(k) PROVE ProxyCounted'
  BY <1>3 DEF ResultReads
<1>4. ASSUME NEW k \in Checks, ResultTruncates(k) \/ ResultWrites(k) PROVE ProxyCounted'
  BY <1>1, <1>4 DEF ResultTruncates, ResultWrites
<1>5. CASE PoolReads
  BY <1>5 DEF PoolReads
<1>6. CASE PoolTruncates \/ PoolWrites
  BY <1>1, <1>6 DEF PoolTruncates, PoolWrites
<1>7. CASE PoolCrash
  BY <1>7 DEF PoolCrash, NotTaking
<1>8. ASSUME NEW w \in Takers, TakePool(w) PROVE ProxyCounted'
  BY <1>8 DEF TakePool, ProxyInv, ProxyTypes
<1>9. ASSUME NEW w \in Takers, NEW p, Takes(w, p) PROVE ProxyCounted'
  BY <1>9 DEF Takes, NotTaking
<1>10. CASE UNCHANGED proxyPoolVars
  BY <1>10 DEF proxyPoolVars
<1>11. QED
  BY <1>2, <1>3, <1>4, <1>5, <1>6, <1>7, <1>8, <1>9, <1>10 DEF NextProxyPool

\* The table of results, the checks and the draws keep to their types, for any number of
\* proxies, of checks and of threads that draw (proxy_pool.py).
THEOREM ProxyPoolTypesAlways == ProxyPoolSpec => []ProxyPoolTypeOK
<1>1. InitProxyPool => ProxyCounted
  <2>1. 0 \in 0 .. MaxEdits /\ 0 \in 0 .. MaxChecks /\ 0 \in 0 .. MaxPoolCrashes
    BY ProxyPoolAssumption
  <2>2. NotTaking \in [pc : {"idle", "pool"}, pool : SUBSET Proxies, calm : BOOLEAN]
    BY DEF NotTaking
  <2>3. [edits |-> 0, checks |-> 0, crashes |-> 0]
          \in [edits : 0 .. MaxEdits, checks : 0 .. MaxChecks, crashes : 0 .. MaxPoolCrashes]
    BY <2>1
  <2> HIDE DEF NotTaking
  <2>4. ASSUME InitProxyPool PROVE ProxyCounted
    <3>1. taker = [w \in Takers |-> NotTaking]
          /\ poolCounts = [edits |-> 0, checks |-> 0, crashes |-> 0] /\ wiped = FALSE
      BY <2>4 DEF InitProxyPool
    <3>2. taker \in [Takers -> [pc : {"idle", "pool"}, pool : SUBSET Proxies, calm : BOOLEAN]]
      BY <2>2, <3>1
    <3>3. wiped \in BOOLEAN
      BY <3>1, Zenon
    <3>4. QED
      BY <2>3, <3>1, <3>2, <3>3, Zenon DEF ProxyCounted
  <2>5. QED
    BY <2>4
<1>2. ProxyInv /\ ProxyCounted => ProxyPoolTypeOK
  BY DEF ProxyInv, ProxyTypes, ProxyCounted, ProxyPoolTypeOK
<1>3. QED
  BY <1>1, <1>2, ProxyInit, ProxyStep, ProxyCountedStep, PTL DEF ProxyPoolSpec

-----------------------------------------------------------------------------
\* No Chromium that was never started is known anywhere (TabPool).
THEOREM BrowserTabsTypesAlways == BrowserTabsSpec => []BrowserTabsTypeOK
<1>1. InitBrowserTabs => BrowserTabsTypeOK
  BY TabsInit DEF TabsInv
<1>2. QED
  BY <1>1, TabsTypeStep, PTL DEF BrowserTabsSpec
=============================================================================
