---------------------------- MODULE PartsProofs ----------------------------
(***************************************************************************)
(* What is proved of the modules that share no state holds of their        *)
(* composition: a behaviour of MCParts is, to the part it names, a behaviour *)
(* of that part's own specification, so each part keeps to its types        *)
(* because its own specification does.                                      *)
(***************************************************************************)
EXTENDS MCParts, RegisterJobProofs, CpaPolicyProofs, PoolProofs, RegistrationsProofs,
        FileProofs, TLAPS

\* A step of the composition is a step of the part that runs, and leaves which part it is.
LEMMA PartStep ==
  ASSUME [PartsNext]_partsVars
  PROVE  /\ part' = part
         /\ part = "lane" => [Next]_vars
         /\ part = "breaker" => [NextBreaker]_breakerVars
         /\ part = "governance" => [NextGovernance]_governanceVars
         /\ part = "solver" => [NextSolver]_solverVars
         /\ part = "registrations" => [NextReg]_regVars
         /\ part = "mint" => [NextMint]_mintVars
         /\ part = "accounts" => [NextAccountFile]_accountFileVars
         /\ part = "mailboxes" => [NextMailFile]_mailFileVars
         /\ part = "domains" => [NextMailDomains]_mailDomainsVars
         /\ part = "proxies" => [NextProxyPool]_proxyPoolVars
         /\ part = "tabs" => [NextBrowserTabs]_browserTabsVars
<1>1. CASE UNCHANGED partsVars
  BY <1>1 DEF partsVars, manyVars, fileVars
<1>2. CASE PartsNext
  BY <1>2 DEF PartsNext, manyVars, fileVars
<1>3. QED
  BY <1>1, <1>2

\* A behaviour of the composition begins as each of its parts does.
LEMMA PartsBegin ==
  ASSUME PartsInit
  PROVE  /\ Init /\ InitBreaker /\ InitGovernance /\ InitSolver /\ InitReg /\ InitMint
         /\ InitAccountFile /\ InitMailFile /\ InitMailDomains /\ InitProxyPool /\ InitBrowserTabs
BY DEF PartsInit

\* Whatever part of the system runs, its state keeps to its types, for every value of the
\* constants: the lane of jobs (webui/jobs.py), the breaker and the governor of the pool
\* (cpa_pool.py), the captcha solver, the registrations, the minting, the two account files,
\* the mail domains, the proxies and the browser tabs.
THEOREM PartsTypesAlways == PartsSpec => []PartsTypeOK
<1>1. PartsSpec => [](part = "lane" => TypeOK)
  <2> DEFINE Runs == part = "lane"
  <2>1. PartsInit => Init
    BY PartsBegin
  <2>2. Runs /\ [PartsNext]_partsVars => Runs' /\ [Next]_vars
    BY PartStep
  <2>3. ~Runs /\ [PartsNext]_partsVars => ~Runs'
    BY PartStep
  <2> HIDE DEF Runs
  <2>4. PartsSpec => [](Runs => TypeOK)
    BY <2>1, <2>2, <2>3, TypeCorrect, PTL DEF PartsSpec, Spec
  <2>5. QED
    BY <2>4 DEF Runs
<1>2. PartsSpec => [](part = "breaker" => BreakerTypeOK)
  <2> DEFINE Runs == part = "breaker"
  <2>1. PartsInit => InitBreaker
    BY PartsBegin
  <2>2. Runs /\ [PartsNext]_partsVars => Runs' /\ [NextBreaker]_breakerVars
    BY PartStep
  <2>3. ~Runs /\ [PartsNext]_partsVars => ~Runs'
    BY PartStep
  <2> HIDE DEF Runs
  <2>4. PartsSpec => [](Runs => BreakerTypeOK)
    BY <2>1, <2>2, <2>3, BreakerTypesAlways, PTL DEF PartsSpec, BreakerSpec
  <2>5. QED
    BY <2>4 DEF Runs
<1>3. PartsSpec => [](part = "governance" => GovernanceTypeOK)
  <2> DEFINE Runs == part = "governance"
  <2>1. PartsInit => InitGovernance
    BY PartsBegin
  <2>2. Runs /\ [PartsNext]_partsVars => Runs' /\ [NextGovernance]_governanceVars
    BY PartStep
  <2>3. ~Runs /\ [PartsNext]_partsVars => ~Runs'
    BY PartStep
  <2> HIDE DEF Runs
  <2>4. PartsSpec => [](Runs => GovernanceTypeOK)
    BY <2>1, <2>2, <2>3, GovernanceTypesAlways, PTL DEF PartsSpec, GovernanceSpec
  <2>5. QED
    BY <2>4 DEF Runs
<1>4. PartsSpec => [](part = "solver" => SolverTypeOK)
  <2> DEFINE Runs == part = "solver"
  <2>1. PartsInit => InitSolver
    BY PartsBegin
  <2>2. Runs /\ [PartsNext]_partsVars => Runs' /\ [NextSolver]_solverVars
    BY PartStep
  <2>3. ~Runs /\ [PartsNext]_partsVars => ~Runs'
    BY PartStep
  <2> HIDE DEF Runs
  <2>4. PartsSpec => [](Runs => SolverTypeOK)
    BY <2>1, <2>2, <2>3, SolverTypesAlways, PTL DEF PartsSpec, SolverSpec
  <2>5. QED
    BY <2>4 DEF Runs
<1>5. PartsSpec => [](part = "registrations" => RegTypeOK)
  <2> DEFINE Runs == part = "registrations"
  <2>1. PartsInit => InitReg
    BY PartsBegin
  <2>2. Runs /\ [PartsNext]_partsVars => Runs' /\ [NextReg]_regVars
    BY PartStep
  <2>3. ~Runs /\ [PartsNext]_partsVars => ~Runs'
    BY PartStep
  <2> HIDE DEF Runs
  <2>4. PartsSpec => [](Runs => RegTypeOK)
    BY <2>1, <2>2, <2>3, RegTypesAlways, PTL DEF PartsSpec, RegSpec
  <2>5. QED
    BY <2>4 DEF Runs
<1>6. PartsSpec => [](part = "mint" => MintTypeOK)
  <2> DEFINE Runs == part = "mint"
  <2>1. PartsInit => InitMint
    BY PartsBegin
  <2>2. Runs /\ [PartsNext]_partsVars => Runs' /\ [NextMint]_mintVars
    BY PartStep
  <2>3. ~Runs /\ [PartsNext]_partsVars => ~Runs'
    BY PartStep
  <2> HIDE DEF Runs
  <2>4. PartsSpec => [](Runs => MintTypeOK)
    BY <2>1, <2>2, <2>3, MintTypesAlways, PTL DEF PartsSpec, MintSpec
  <2>5. QED
    BY <2>4 DEF Runs
<1>7. PartsSpec => [](part = "accounts" => AccountFileTypeOK)
  <2> DEFINE Runs == part = "accounts"
  <2>1. PartsInit => InitAccountFile
    BY PartsBegin
  <2>2. Runs /\ [PartsNext]_partsVars => Runs' /\ [NextAccountFile]_accountFileVars
    BY PartStep
  <2>3. ~Runs /\ [PartsNext]_partsVars => ~Runs'
    BY PartStep
  <2> HIDE DEF Runs
  <2>4. PartsSpec => [](Runs => AccountFileTypeOK)
    BY <2>1, <2>2, <2>3, AccountFileTypesAlways, PTL DEF PartsSpec, AccountFileSpec
  <2>5. QED
    BY <2>4 DEF Runs
<1>8. PartsSpec => [](part = "mailboxes" => MailFileTypeOK)
  <2> DEFINE Runs == part = "mailboxes"
  <2>1. PartsInit => InitMailFile
    BY PartsBegin
  <2>2. Runs /\ [PartsNext]_partsVars => Runs' /\ [NextMailFile]_mailFileVars
    BY PartStep
  <2>3. ~Runs /\ [PartsNext]_partsVars => ~Runs'
    BY PartStep
  <2> HIDE DEF Runs
  <2>4. PartsSpec => [](Runs => MailFileTypeOK)
    BY <2>1, <2>2, <2>3, MailFileTypesAlways, PTL DEF PartsSpec, MailFileSpec
  <2>5. QED
    BY <2>4 DEF Runs
<1>9. PartsSpec => [](part = "domains" => MailDomainsTypeOK)
  <2> DEFINE Runs == part = "domains"
  <2>1. PartsInit => InitMailDomains
    BY PartsBegin
  <2>2. Runs /\ [PartsNext]_partsVars => Runs' /\ [NextMailDomains]_mailDomainsVars
    BY PartStep
  <2>3. ~Runs /\ [PartsNext]_partsVars => ~Runs'
    BY PartStep
  <2> HIDE DEF Runs
  <2>4. PartsSpec => [](Runs => MailDomainsTypeOK)
    BY <2>1, <2>2, <2>3, MailDomainsTypesAlways, PTL DEF PartsSpec, MailDomainsSpec
  <2>5. QED
    BY <2>4 DEF Runs
<1>10. PartsSpec => [](part = "proxies" => ProxyPoolTypeOK)
  <2> DEFINE Runs == part = "proxies"
  <2>1. PartsInit => InitProxyPool
    BY PartsBegin
  <2>2. Runs /\ [PartsNext]_partsVars => Runs' /\ [NextProxyPool]_proxyPoolVars
    BY PartStep
  <2>3. ~Runs /\ [PartsNext]_partsVars => ~Runs'
    BY PartStep
  <2> HIDE DEF Runs
  <2>4. PartsSpec => [](Runs => ProxyPoolTypeOK)
    BY <2>1, <2>2, <2>3, ProxyPoolTypesAlways, PTL DEF PartsSpec, ProxyPoolSpec
  <2>5. QED
    BY <2>4 DEF Runs
<1>11. PartsSpec => [](part = "tabs" => BrowserTabsTypeOK)
  <2> DEFINE Runs == part = "tabs"
  <2>1. PartsInit => InitBrowserTabs
    BY PartsBegin
  <2>2. Runs /\ [PartsNext]_partsVars => Runs' /\ [NextBrowserTabs]_browserTabsVars
    BY PartStep
  <2>3. ~Runs /\ [PartsNext]_partsVars => ~Runs'
    BY PartStep
  <2> HIDE DEF Runs
  <2>4. PartsSpec => [](Runs => BrowserTabsTypeOK)
    BY <2>1, <2>2, <2>3, BrowserTabsTypesAlways, PTL DEF PartsSpec, BrowserTabsSpec
  <2>5. QED
    BY <2>4 DEF Runs
<1>12. (/\ (part = "lane" => TypeOK)
      /\ (part = "breaker" => BreakerTypeOK)
      /\ (part = "governance" => GovernanceTypeOK)
      /\ (part = "solver" => SolverTypeOK)
      /\ (part = "registrations" => RegTypeOK)
      /\ (part = "mint" => MintTypeOK)
      /\ (part = "accounts" => AccountFileTypeOK)
      /\ (part = "mailboxes" => MailFileTypeOK)
      /\ (part = "domains" => MailDomainsTypeOK)
      /\ (part = "proxies" => ProxyPoolTypeOK)
      /\ (part = "tabs" => BrowserTabsTypeOK))
      => PartsTypeOK
  BY DEF PartsTypeOK
<1>13. QED
  BY <1>1, <1>2, <1>3, <1>4, <1>5, <1>6, <1>7, <1>8, <1>9, <1>10, <1>11, <1>12, PTL
=============================================================================
