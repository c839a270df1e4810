------------------------------ MODULE MCParts ------------------------------
(***************************************************************************)
(* Small instances of the modules that share no state, explored in one run: *)
(* each behaviour is one of the module that "part" names.                   *)
(***************************************************************************)
EXTENDS RegisterJob, CpaBreaker, CpaGovernance, TurnstileSolver, Registrations, CpaMint,
        AccountFile, MailFile, MailDomains, ProxyPool, BrowserTabs, TLC

CONSTANTS j1, j2, c1, c2, a1, a2, p1, p2, m1, m2

TwoJobs   == {j1, j2}
OneOption == {[extra |-> TRUE, n |-> 1, inline |-> FALSE]}

VARIABLE part

Parts == {"lane", "breaker", "governance", "solver", "registrations", "mint",
          "accounts", "mailboxes", "domains", "proxies", "tabs"}

PartsInit ==
  /\ part \in Parts
  /\ Init /\ InitBreaker /\ InitGovernance /\ InitSolver /\ InitReg /\ InitMint
  /\ InitAccountFile /\ InitMailFile /\ InitMailDomains /\ InitProxyPool /\ InitBrowserTabs
  \* A part that stands still begins in one state.
  /\ part # "mailboxes" => mailFile = {}
  /\ part # "domains" => mode = "any"

manyVars == <<vars, breakerVars, governanceVars, solverVars,
              regVars, mintVars>>
fileVars == <<accountFileVars, mailFileVars, mailDomainsVars,
              proxyPoolVars, browserTabsVars>>

PartsNext ==
  \/ /\ part = "lane"
     /\ UNCHANGED <<part, fileVars, breakerVars, governanceVars, solverVars, regVars, mintVars>>
     /\ Next
  \/ /\ part = "breaker"
     /\ UNCHANGED <<part, fileVars, vars, governanceVars, solverVars, regVars, mintVars>>
     /\ NextBreaker
  \/ /\ part = "governance"
     /\ UNCHANGED <<part, fileVars, vars, breakerVars, solverVars, regVars, mintVars>>
     /\ NextGovernance
  \/ /\ part = "solver"
     /\ UNCHANGED <<part, fileVars, vars, breakerVars, governanceVars, regVars, mintVars>>
     /\ NextSolver
  \/ /\ part = "registrations"
     /\ UNCHANGED <<part, fileVars, vars, breakerVars, governanceVars, solverVars, mintVars>>
     /\ NextReg
  \/ /\ part = "mint"
     /\ UNCHANGED <<part, fileVars, vars, breakerVars, governanceVars, solverVars, regVars>>
     /\ NextMint
  \/ /\ part = "accounts"
     /\ UNCHANGED <<part, manyVars, mailFileVars, mailDomainsVars, proxyPoolVars, browserTabsVars>>
     /\ NextAccountFile
  \/ /\ part = "mailboxes"
     /\ UNCHANGED <<part, manyVars, accountFileVars, mailDomainsVars, proxyPoolVars, browserTabsVars>>
     /\ NextMailFile
  \/ /\ part = "domains"
     /\ UNCHANGED <<part, manyVars, accountFileVars, mailFileVars, proxyPoolVars, browserTabsVars>>
     /\ NextMailDomains
  \/ /\ part = "proxies"
     /\ UNCHANGED <<part, manyVars, accountFileVars, mailFileVars, mailDomainsVars, browserTabsVars>>
     /\ NextProxyPool
  \/ /\ part = "tabs"
     /\ UNCHANGED <<part, manyVars, accountFileVars, mailFileVars, mailDomainsVars, proxyPoolVars>>
     /\ NextBrowserTabs

\* What bounds the instances.  Jobs, calls and accounts that are alike begin in a fixed
\* order, and a member is probed by a worker of its own (idle workers are alike).  The
\* second job is not stopped and tries each number once; no token refresh ends a probe,
\* and the second member's probe ends in the stage "models"; the second account has no
\* SSO cookie and is minted by a backfill only, and after a crash none is enrolled; the
\* Grok job is not stopped before the GPT job, nor the GPT job once there is a third attempt;
\* the first midnight comes after a scan, and no count of an order is lost after it.
Bounds ==
  /\ status[j2] # "none" => status[j1] # "none"
  /\ ~cancel[j2] /\ retry[j2][1] = 0
  /\ calling[c2] # "idle" => calling[c1] # "idle"
  /\ a2 \in known => a1 \in known
  /\ \A w \in Crew : minter[w].acc = a2 => minter[w].pc # "pkce"
  /\ mintCrashes > 0 => fresh = {}
  /\ \A w \in Minters : minter[w].acc # a2
  /\ "grok" \in halted => "gpt" \in halted
  /\ attempts > 2 => "gpt" \notin halted
  /\ day > 1 => round > 0 /\ uncounted = 0
  /\ probe[p1].pc # "idle" => probe[p1].account = m1
  /\ probe[p2].pc # "idle" => probe[p2].account = m2
  /\ probe[p1].pc = "row" => probe[p1].stage # "refresh"
  /\ probe[p2].pc = "row" => probe[p2].stage = "models"

\* The part that runs tells the states apart: the others stand still.
PartsView ==
  CASE part = "lane" -> <<part, vars>>
    [] part = "breaker" -> <<part, breakerVars>>
    [] part = "governance" -> <<part, governanceVars>>
    [] part = "solver" -> <<part, solverVars>>
    [] part = "registrations" -> <<part, regVars>>
    [] part = "mint" -> <<part, mintVars>>
    [] OTHER -> <<part, fileVars>>

partsVars == <<manyVars, fileVars, part>>
PartsSpec == PartsInit /\ [][PartsNext]_partsVars

\* The part that runs keeps to its types; the others stand still.
PartsTypeOK ==
  /\ part = "lane" => TypeOK
  /\ part = "breaker" => BreakerTypeOK
  /\ part = "governance" => GovernanceTypeOK
  /\ part = "solver" => SolverTypeOK
  /\ part = "registrations" => RegTypeOK
  /\ part = "mint" => MintTypeOK
  /\ part = "accounts" => AccountFileTypeOK
  /\ part = "mailboxes" => MailFileTypeOK
  /\ part = "domains" => MailDomainsTypeOK
  /\ part = "proxies" => ProxyPoolTypeOK
  /\ part = "tabs" => BrowserTabsTypeOK
=============================================================================
