----------------------------- MODULE ProxyPool -----------------------------
(***************************************************************************)
(* The proxy pool (src/proxy_pool.py): proxies.txt, which an operator edits,*)
(* and proxies_state.json with what the checks of proxies found, which the  *)
(* threads that draw a proxy ("pool:random", load_usable_pool) read without *)
(* a lock.  Every write empties its file first: a reader then finds no      *)
(* proxy, or no result.                                                     *)
(***************************************************************************)
EXTENDS Naturals, FiniteSets

CONSTANTS
  Checks,        \* requests to check proxies (webui/app.py)
  Takers,        \* threads that draw a proxy
  Proxies,
  Direct,        \* no proxy
  MaxEdits, MaxChecks, MaxPoolCrashes   \* bounds

ASSUME ProxyPoolAssumption ==
  Direct \notin Proxies /\ {MaxEdits, MaxChecks, MaxPoolCrashes} \subseteq Nat

VARIABLES
  proxyFile,   \* the proxies in proxies.txt
  results,     \* proxies_state.json: proxy -> "none", "ok" or "bad"
  check,       \* request -> its locals
  poolEdit,    \* the locals of an import or a deletion
  taker,       \* thread -> its locals
  poolCounts,  \* how many edits, checks and crashes there were
  \* history variables, read by properties only
  found,       \* proxy -> what its last check found
  wiped        \* was the table of results lost in a crash?

proxyPoolVars == <<proxyFile, results, check, poolEdit, taker, poolCounts, found, wiped>>

Unchecked == [p \in Proxies |-> "none"]
Checking(todo) ==
  [pc |-> IF todo = {} THEN "none" ELSE "checking",
   todo |-> todo, proxy |-> Direct, table |-> Unchecked]
NoCheck   == Checking({})
NoChange  == [pc |-> "none", next |-> {}]
NotTaking == [pc |-> "idle", pool |-> {}, calm |-> TRUE]

InitProxyPool ==
  /\ proxyFile = Proxies /\ results = Unchecked
  /\ check = [k \in Checks |-> NoCheck] /\ poolEdit = NoChange
  /\ taker = [w \in Takers |-> NotTaking]
  /\ poolCounts = [edits |-> 0, checks |-> 0, crashes |-> 0]
  /\ found = Unchecked /\ wiped = FALSE

\* _lock: held from reading to writing by an edit, for the writing alone by a check.
LockFree == poolEdit.pc = "none" /\ \A k \in Checks : check[k].pc # "truncated"

\* For the threads that are drawing: a file has changed under them.
Disturbed == [w \in Takers |-> [taker[w] EXCEPT !.calm = FALSE]]

-----------------------------------------------------------------------------
(* The checks: app.proxy_check, check_pool. *)

MayCheckAlways(k) == check[k].pc = "none"          \* mutant: one beside the other
MayCheck(k) == \A l \in Checks : check[l].pc = "none"

\* All proxies of the pool, or those named.
CheckBegins(k) ==
  /\ MayCheck(k) /\ poolCounts.checks < MaxChecks
  /\ \E named \in (SUBSET proxyFile) \ {{}} :
       check' = [check EXCEPT ![k] = Checking(named)]
  /\ poolCounts' = [poolCounts EXCEPT !.checks = @ + 1]
  /\ UNCHANGED <<proxyFile, results, poolEdit, taker, found, wiped>>

\* _update_state reads the table without the lock and puts a result in its copy, ...
ResultReads(k) ==
  /\ check[k].pc = "checking"
  /\ \E p \in check[k].todo, r \in {"ok", "bad"} :
       check' = [check EXCEPT ![k] =
                   [pc |-> "read", todo |-> @.todo, proxy |-> p,
                    table |-> [results EXCEPT ![p] = r]]]
  /\ UNCHANGED <<proxyFile, results, poolEdit, taker, poolCounts, found, wiped>>

\* ... _save_state empties the file ...
ResultTruncates(k) ==
  /\ check[k].pc = "read" /\ LockFree
  /\ results' = Unchecked
  /\ check' = [check EXCEPT ![k].pc = "truncated"]
  /\ taker' = Disturbed
  /\ UNCHANGED <<proxyFile, poolEdit, poolCounts, found, wiped>>

\* ... and writes the copy.
ResultWrites(k) ==
  /\ check[k].pc = "truncated"
  /\ LET p == check[k].proxy
     IN /\ results' = check[k].table
        /\ found' = [found EXCEPT ![p] = check[k].table[p]]
        /\ check' = [check EXCEPT ![k] = Checking(@.todo \ {p})]
  /\ taker' = Disturbed
  /\ UNCHANGED <<proxyFile, poolEdit, poolCounts, wiped>>

-----------------------------------------------------------------------------
(* The operator: import_proxies, delete_proxies. *)

PoolReads ==
  /\ LockFree /\ poolCounts.edits < MaxEdits
  /\ poolCounts' = [poolCounts EXCEPT !.edits = @ + 1]
  /\ \E some \in (SUBSET Proxies) \ {{}} :
       \E next \in {proxyFile \cup some, some, proxyFile \ some} :
         poolEdit' = [pc |-> "read", next |-> next]
  /\ UNCHANGED <<proxyFile, results, check, taker, found, wiped>>

PoolTruncates ==
  /\ poolEdit.pc = "read"
  /\ proxyFile' = {}
  /\ poolEdit' = [poolEdit EXCEPT !.pc = "truncated"]
  /\ taker' = Disturbed
  /\ UNCHANGED <<results, check, poolCounts, found, wiped>>

PoolWrites ==
  /\ poolEdit.pc = "truncated"
  /\ proxyFile' = poolEdit.next
  /\ poolEdit' = NoChange
  /\ taker' = Disturbed
  /\ UNCHANGED <<results, check, poolCounts, found, wiped>>

\* A file that was emptied and not yet written stays empty.
PoolCrash ==
  /\ poolCounts.crashes < MaxPoolCrashes
  /\ poolCounts' = [poolCounts EXCEPT !.crashes = @ + 1]
  /\ wiped' = (wiped \/ \E k \in Checks : check[k].pc = "truncated")
  /\ check' = [k \in Checks |-> NoCheck] /\ poolEdit' = NoChange
  /\ taker' = [w \in Takers |-> NotTaking]
  /\ UNCHANGED <<proxyFile, results, found>>

-----------------------------------------------------------------------------
(* A thread that asks for a proxy of the pool: load_usable_pool. *)

TakePool(w) ==
  /\ taker[w].pc = "idle"
  /\ taker' = [taker EXCEPT ![w] =
       [pc |-> "pool", pool |-> proxyFile,
        calm |-> poolEdit.pc # "truncated" /\ \A k \in Checks : check[k].pc # "truncated"]]
  /\ UNCHANGED <<proxyFile, results, check, poolEdit, poolCounts, found, wiped>>

\* Those that were found good, or all of them.
Usable(pool) ==
  LET good == {p \in pool : results[p] = "ok"} IN IF good = {} THEN pool ELSE good

\* One of them by chance or by turns; none, and the connection is direct.
Takes(w, p) ==
  /\ taker[w].pc = "pool"
  /\ LET usable == Usable(taker[w].pool) IN p \in usable \/ (usable = {} /\ p = Direct)
  /\ taker' = [taker EXCEPT ![w] = NotTaking]
  /\ UNCHANGED <<proxyFile, results, check, poolEdit, poolCounts, found, wiped>>

NextProxyPool ==
  \/ \E k \in Checks :
       CheckBegins(k) \/ ResultReads(k) \/ ResultTruncates(k) \/ ResultWrites(k)
  \/ PoolReads \/ PoolTruncates \/ PoolWrites \/ PoolCrash
  \/ \E w \in Takers : TakePool(w) \/ \E p \in Proxies \cup {Direct} : Takes(w, p)

ProxyPoolSpec == InitProxyPool /\ [][NextProxyPool]_proxyPoolVars

-----------------------------------------------------------------------------
(* Properties *)

Findings == {"none", "ok", "bad"}

ProxyPoolTypeOK ==
  /\ proxyFile \subseteq Proxies
  /\ {results, found} \subseteq [Proxies -> Findings]
  /\ check \in [Checks -> [pc : {"none", "checking", "read", "truncated"},
                           todo : SUBSET Proxies, proxy : Proxies \cup {Direct},
                           table : [Proxies -> Findings]]]
  /\ poolEdit \in [pc : {"none", "read", "truncated"}, next : SUBSET Proxies]
  /\ taker \in [Takers -> [pc : {"idle", "pool"}, pool : SUBSET Proxies, calm : BOOLEAN]]
  /\ poolCounts \in [edits : 0 .. MaxEdits, checks : 0 .. MaxChecks,
                     crashes : 0 .. MaxPoolCrashes]
  /\ wiped \in BOOLEAN

\* "若存在近期检测成功的代理，则优先只返回成功代理" (proxy_pool.py 181): as long as no file
\* changes under the draw, a thread gets a proxy that its last check found good if the
\* pool has one, and goes direct only if the pool has none.  The results survive that only
\* because checks do not run beside each other (app.py 370), and as long as no crash hits
\* a half-written table.
DrawsFoundGood ==
  [][\A w \in Takers, p \in Proxies \cup {Direct} :
       Takes(w, p) /\ taker[w].calm /\ ~wiped
         => IF p = Direct THEN proxyFile = {}
            ELSE found[p] = "ok" \/ \A q \in proxyFile : found[q] # "ok"]_proxyPoolVars
=============================================================================
