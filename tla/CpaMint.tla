------------------------------ MODULE CpaMint ------------------------------
(***************************************************************************)
(* Minting the auth file of an account: the mint workers of a registration  *)
(* (cpa_export) and those of a backfill job (JobRunner._run_backfill) go    *)
(* through cpa_xai.mint_and_export, with the SSO cookie over HTTP or with a *)
(* browser that each thread keeps between its accounts, and leave the file  *)
(* in the hotload directory.  A register job and a backfill share a lane;   *)
(* they meet all the same, as threads of a stopped job or as two processes. *)
(*                                                                         *)
(* A token is known by the account it gives access to, whatever the e-mail  *)
(* address is that it gets filed under.                                     *)
(***************************************************************************)
EXTENDS Naturals, FiniteSets

CONSTANTS
  Minters,      \* mint workers of registrations
  Fillers,      \* workers of the backfill job
  Enrolled,     \* the accounts of accounts_cli.txt, and those yet to be registered
  Nobody,       \* no account: no file, no session, no token
  DeviceFlow,   \* cpa_allow_device_flow_fallback
  BrowserOnly,  \* the backfill option: not prefer_protocol
  PkceRetries,  \* cpa_pkce_network_retries
  MaxBackfills, MaxMintCrashes   \* bounds on the jobs and the crashes of a run

ASSUME MintAssumption ==
  /\ Minters \cap Fillers = {} /\ Nobody \notin Enrolled
  /\ {DeviceFlow, BrowserOnly} \subseteq BOOLEAN
  /\ {PkceRetries, MaxBackfills, MaxMintCrashes} \subseteq Nat

VARIABLES
  known,     \* accounts in the accounts file
  fresh,     \* accounts waiting for a mint worker
  minter,    \* thread -> the locals of its attempt
  session,   \* thread -> its browser: "closed", or who is signed in there
  authDir,   \* cpa_auths: account -> whose token its file holds
  hotDir,    \* the hotload directory, likewise
  backfill,  \* the backfill job
  unclean,   \* threads whose last clear_page_session failed without a word
  smudged,   \* accounts whose token was granted in such a browser
  stuck,     \* accounts whose file could not be moved, or not before a crash
  mintCrashes

mintVars == <<known, fresh, minter, session, authDir, hotDir, backfill, unclean, smudged,
              stuck, mintCrashes>>

Crew    == Minters \cup Fillers
Off     == [pc |-> "off", acc |-> Nobody, try |-> 0, token |-> Nobody, poll |-> "none"]
NoBackfill == [on |-> FALSE, cancelled |-> FALSE, no |-> 0,
               plan |-> {}, todo |-> {}, ok |-> {}, fail |-> {}]
Unfiled == [a \in Enrolled |-> Nobody]

InitMint ==
  /\ known = {} /\ fresh = {}
  /\ minter = [w \in Crew |-> Off] /\ session = [w \in Crew |-> "closed"]
  /\ authDir = Unfiled /\ hotDir = Unfiled /\ backfill = NoBackfill
  /\ unclean = {} /\ smudged = {} /\ stuck = {} /\ mintCrashes = 0

\* existing_cpa_emails of both directories.
Present == {a \in Enrolled : authDir[a] # Nobody \/ hotDir[a] # Nobody}

-----------------------------------------------------------------------------
(* The jobs. *)

\* A registration: the account is in the file and goes to the mint queue.
Enrol(a) ==
  /\ a \notin known
  /\ known' = known \cup {a} /\ fresh' = fresh \cup {a}
  /\ UNCHANGED <<minter, session, authDir, hotDir, backfill, unclean, smudged, stuck, mintCrashes>>

\* The accounts that were named, whether they have a file or not; else those without one.
StartBackfill(named) ==
  /\ ~backfill.on /\ backfill.no < MaxBackfills
  /\ LET plan == IF named = {} THEN known \ Present ELSE named \cap known
     IN backfill' = [NoBackfill EXCEPT !.on = TRUE, !.plan = plan, !.todo = plan,
                                       !.no = backfill.no + 1]
  /\ UNCHANGED <<known, fresh, minter, session, authDir, hotDir, unclean, smudged, stuck, mintCrashes>>

CancelBackfill ==
  /\ backfill.on /\ ~backfill.cancelled
  /\ backfill' = [backfill EXCEPT !.cancelled = TRUE]
  /\ UNCHANGED <<known, fresh, minter, session, authDir, hotDir, unclean, smudged, stuck, mintCrashes>>

\* Every worker is joined, whether the job was cancelled or not; on its way out it shuts
\* down its browser.
EndBackfill ==
  /\ backfill.on
  /\ backfill.todo = {} \/ backfill.cancelled
  /\ \A w \in Fillers : minter[w].pc = "off"
  /\ backfill' = [backfill EXCEPT !.on = FALSE]
  /\ session' = [w \in Crew |-> IF w \in Fillers THEN "closed" ELSE session[w]]
  /\ unclean' = unclean \ Fillers
  /\ UNCHANGED <<known, fresh, minter, authDir, hotDir, smudged, stuck, mintCrashes>>

\* With the SSO cookie first over HTTP (an account line may lack it).
Fetch(w, a, sso) ==
  /\ minter[w].pc = "off"
  /\ \/ /\ w \in Minters /\ a \in fresh
        /\ fresh' = fresh \ {a} /\ UNCHANGED backfill
     \/ /\ w \in Fillers /\ backfill.on /\ ~backfill.cancelled /\ a \in backfill.todo
        /\ backfill' = [backfill EXCEPT !.todo = @ \ {a}] /\ UNCHANGED fresh
  /\ minter' = [minter EXCEPT ![w] =
       [Off EXCEPT !.acc = a,
                   !.pc = IF sso /\ ~(w \in Fillers /\ BrowserOnly) THEN "pkce" ELSE "browser"]]
  /\ UNCHANGED <<known, session, authDir, hotDir, unclean, smudged, stuck, mintCrashes>>

-----------------------------------------------------------------------------
(* mint_and_export. *)

In(w, p)       == minter[w].pc = p
Goes(w, p)     == minter' = [minter EXCEPT ![w].pc = p]
Granted(w, to) == minter' = [minter EXCEPT ![w].pc = "probe", ![w].token = to]

\* The answers of the authorization-code exchange: with the cookie of the account the
\* code is for that account; a cut connection may come at every request of it.
PkceAnswers   == {"granted", "cut", "refused"}
\* ... and of the device flow over HTTP.
DeviceAnswers == {"granted", "refused"}

AfterPkce == IF DeviceFlow THEN "device" ELSE "fail"

TryPkce(w) ==
  /\ In(w, "pkce")
  /\ \E answer \in PkceAnswers :
       \/ answer = "granted" /\ Granted(w, minter[w].acc)
       \/ answer = "cut" /\ minter[w].try < PkceRetries
            /\ minter' = [minter EXCEPT ![w].try = @ + 1]
       \/ /\ answer = "refused" \/ (answer = "cut" /\ minter[w].try = PkceRetries)
          /\ Goes(w, AfterPkce)
  /\ UNCHANGED <<known, fresh, session, authDir, hotDir, backfill, unclean, smudged, stuck,
                 mintCrashes>>

TryDevice(w) ==
  /\ In(w, "device")
  /\ \E answer \in DeviceAnswers :
       \/ answer = "granted" /\ Granted(w, minter[w].acc)
       \/ answer = "refused" /\ Goes(w, "browser")
  /\ UNCHANGED <<known, fresh, session, authDir, hotDir, backfill, unclean, smudged, stuck,
                 mintCrashes>>

\* create_standalone_page; then the profile is its own and empty.
NewBrowser(w) ==
  /\ session' = [session EXCEPT ![w] = "nobody"]
  /\ unclean' = unclean \ {w}

\* clear_page_session, which swallows its own errors.
KeptBrowser(w) ==
  /\ session[w] # "closed"
  /\ \/ NewBrowser(w)
     \/ session[w] # "nobody" /\ unclean' = unclean \cup {w} /\ UNCHANGED session

\* The browser of the thread, unless its proxy, its mode or its age (recycle_every) ask for
\* another.
AcquireBrowserAsIs(w) ==                       \* mutant: a kept browser is not cleared
  \/ session[w] = "closed" /\ NewBrowser(w)
  \/ session[w] # "closed" /\ UNCHANGED <<session, unclean>>
AcquireBrowser(w) == NewBrowser(w) \/ KeptBrowser(w)

\* Quitting it after a failure.
DropBrowser(w) ==
  /\ session' = [session EXCEPT ![w] = "closed"]
  /\ unclean' = unclean \ {w}

\* Without a device code there is no browser.
StartBrowser(w) ==
  /\ In(w, "browser")
  /\ \/ Goes(w, "fail") /\ UNCHANGED <<session, unclean>>
     \/ AcquireBrowser(w) /\ Goes(w, "inject")
  /\ UNCHANGED <<known, fresh, authDir, hotDir, backfill, smudged, stuck, mintCrashes>>

\* The cookies of the registration, where they are known and can be set, sign the account
\* in; then a second thread begins to poll for the token.
InjectCookies(w) ==
  /\ In(w, "inject")
  /\ \/ session' = [session EXCEPT ![w] = minter[w].acc]
     \/ UNCHANGED session
  /\ minter' = [minter EXCEPT ![w].pc = "approve", ![w].poll = "open"]
  /\ UNCHANGED <<known, fresh, authDir, hotDir, backfill, unclean, smudged, stuck, mintCrashes>>

\* Rounds of approve_device_code: the password where a login is asked for, and the consent
\* of whoever is signed in.
SignIn(w) ==
  /\ In(w, "approve") /\ session[w] = "nobody" /\ minter[w].poll = "open"
  /\ session' = [session EXCEPT ![w] = minter[w].acc]
  /\ UNCHANGED <<known, fresh, minter, authDir, hotDir, backfill, unclean, smudged, stuck,
                 mintCrashes>>

Consent(w) ==
  /\ In(w, "approve") /\ session[w] # "nobody" /\ minter[w].poll = "open"
  /\ minter[w].token = Nobody
  /\ minter' = [minter EXCEPT ![w].token = session[w]]
  /\ smudged' = IF w \in unclean THEN smudged \cup {minter[w].acc} ELSE smudged
  /\ UNCHANGED <<known, fresh, session, authDir, hotDir, backfill, unclean, stuck, mintCrashes>>

\* poll_device_token in its thread: the token once there is consent; or an error, which
\* stops the browser as well.
TokenPolled(w) ==
  /\ In(w, "approve") /\ minter[w].poll = "open"
  /\ \E found \in {"token", "error"} :
       /\ found = "token" => minter[w].token # Nobody
       /\ minter' = [minter EXCEPT ![w].poll = found]
  /\ UNCHANGED <<known, fresh, session, authDir, hotDir, backfill, unclean, smudged, stuck,
                 mintCrashes>>

\* The browser stops when the poll has ended; or it gives up, were the token there or not.
Approved(w) ==
  /\ In(w, "approve")
  /\ \/ /\ minter[w].poll = "token"
        /\ Goes(w, "probe") /\ UNCHANGED <<session, unclean>>
     \/ /\ minter' = [minter EXCEPT ![w].pc = "fail", ![w].token = Nobody, ![w].poll = "none"]
        /\ DropBrowser(w)
  /\ UNCHANGED <<known, fresh, authDir, hotDir, backfill, smudged, stuck, mintCrashes>>

\* The models, then the chat; without both there is no file.
Probe(w) ==
  /\ In(w, "probe")
  /\ \E passed \in BOOLEAN : Goes(w, IF passed THEN "write" ELSE "fail")
  /\ UNCHANGED <<known, fresh, session, authDir, hotDir, backfill, unclean, smudged, stuck,
                 mintCrashes>>

\* build_cpa_xai_auth: the tokens of the attempt under the address of the account; what the
\* token says of its owner is not compared with it.
AuthOf(w) == minter[w].token

\* Atomically, over what was there.
WriteAuth(w) ==
  /\ In(w, "write")
  /\ authDir' = [authDir EXCEPT ![minter[w].acc] = AuthOf(w)]
  /\ Goes(w, "move")
  /\ UNCHANGED <<known, fresh, session, hotDir, backfill, unclean, smudged, stuck, mintCrashes>>

-----------------------------------------------------------------------------
(* The callers. *)

FiledOk(w, how) ==                             \* mutant: a failed mint is not counted
  backfill' = IF w \in Minters \/ how = "fail" THEN backfill
              ELSE [backfill EXCEPT ![how] = @ \cup {minter[w].acc}]
Filed(w, how) ==
  backfill' = IF w \in Minters THEN backfill
              ELSE [backfill EXCEPT ![how] = @ \cup {minter[w].acc}]

KeptThere(a) == authDir                            \* mutant: the file is copied
MovedOut(a) == [authDir EXCEPT ![a] = Nobody]

\* Moved, never copied.  The file is gone if another worker has moved it: an error to the
\* backfill, for the registration a note.
MoveHot(w) ==
  LET a == minter[w].acc IN
  /\ In(w, "move")
  /\ \/ /\ authDir[a] # Nobody
        /\ hotDir' = [hotDir EXCEPT ![a] = authDir[a]]
        /\ authDir' = MovedOut(a)
        /\ stuck' = stuck \ {a} /\ Filed(w, "ok")
     \/ /\ stuck' = IF authDir[a] # Nobody THEN stuck \cup {a} ELSE stuck
        /\ Filed(w, "fail") /\ UNCHANGED <<authDir, hotDir>>
  /\ minter' = [minter EXCEPT ![w] = Off]
  /\ UNCHANGED <<known, fresh, session, unclean, smudged, mintCrashes>>

MintFails(w) ==
  /\ In(w, "fail")
  /\ Filed(w, "fail")
  /\ minter' = [minter EXCEPT ![w] = Off]
  /\ UNCHANGED <<known, fresh, session, authDir, hotDir, unclean, smudged, stuck, mintCrashes>>

\* Only files survive.
CrashMint ==
  /\ mintCrashes < MaxMintCrashes
  /\ mintCrashes' = mintCrashes + 1
  /\ stuck' = stuck \cup {minter[w].acc : w \in {v \in Crew : In(v, "move")}}
  /\ fresh' = {} /\ minter' = [w \in Crew |-> Off] /\ session' = [w \in Crew |-> "closed"]
  /\ unclean' = {} /\ backfill' = [NoBackfill EXCEPT !.no = backfill.no]
  /\ UNCHANGED <<known, authDir, hotDir, smudged>>

NextMint ==
  \/ \E a \in Enrolled : Enrol(a)
  \/ \E named \in SUBSET Enrolled : StartBackfill(named)
  \/ CancelBackfill \/ EndBackfill \/ CrashMint
  \/ \E w \in Crew :
       \/ \E a \in Enrolled, sso \in BOOLEAN : Fetch(w, a, sso)
       \/ TryPkce(w) \/ TryDevice(w) \/ StartBrowser(w) \/ InjectCookies(w)
       \/ SignIn(w) \/ Consent(w) \/ TokenPolled(w) \/ Approved(w) \/ Probe(w)
       \/ WriteAuth(w) \/ MoveHot(w) \/ MintFails(w)

MintSpec == InitMint /\ [][NextMint]_mintVars

-----------------------------------------------------------------------------
(* Properties *)

MintTypeOK ==
  LET Whose == Enrolled \cup {Nobody} IN
  /\ known \subseteq Enrolled /\ fresh \subseteq known
  /\ minter \in [Crew -> [pc : {"off", "pkce", "device", "browser", "inject", "approve", "probe",
                                "write", "move", "fail"},
                          acc : Whose, try : 0 .. PkceRetries, token : Whose,
                          poll : {"none", "open", "token", "error"}]]
  /\ session \in [Crew -> Enrolled \cup {"closed", "nobody"}]
  /\ {authDir, hotDir} \subseteq [Enrolled -> Whose]
  /\ backfill \in [on : BOOLEAN, cancelled : BOOLEAN, plan : SUBSET Enrolled,
                   todo : SUBSET Enrolled, ok : SUBSET Enrolled, fail : SUBSET Enrolled,
                   no : 0 .. MaxBackfills]
  /\ unclean \subseteq Crew /\ {smudged, stuck} \subseteq SUBSET Enrolled
  /\ mintCrashes \in 0 .. MaxMintCrashes

\* The file of an account holds its own token, though a thread's browser serves one account
\* after the other (browser_confirm.py 466-511): only where clearing the browser failed,
\* which nobody is told (289-326), may it be that of the account before.
MintedAsSelf ==
  \A a \in Enrolled \ smudged : {authDir[a], hotDir[a]} \subseteq {Nobody, a}

\* A backfill accounts for each of its accounts once, whatever way its mint ends
\* (jobs.py 1128-1174).
BackfillAccounts ==
  LET inHand == {minter[w].acc : w \in {v \in Fillers : minter[v].pc # "off"}}
      parts  == <<backfill.todo, inHand, backfill.ok, backfill.fail>>
  IN /\ UNION {parts[i] : i \in 1 .. 4} = backfill.plan
     /\ \A i, j \in 1 .. 4 : i # j => parts[i] \cap parts[j] = {}

\* "移动而非复制：hotload 目录作为唯一存储" (cpa_export.py 267): when nobody is moving,
\* a file lies outside the hotload directory only if its move failed or a crash prevented it.
OnlyInHotload ==
  \A a \in Enrolled :
    authDir[a] # Nobody =>
      a \in stuck \/ \E w \in Crew : In(w, "move") /\ minter[w].acc = a
=============================================================================
