----------------------------- MODULE FileProofs -----------------------------
(***************************************************************************)
(* The files that jobs and the WebUI share.  The two text files:            *)
(* AccountsKept for any number of accounts, of requests to delete some of   *)
(* them and of crashes, and MailboxesCurrent for any number of registering  *)
(* threads, of mailboxes and of changes of the file.  The auth files:       *)
(* MintedAsSelf, OnlyInHotload and BackfillAccounts for any number of mint  *)
(* workers, of accounts, of retries, of jobs and of crashes.  Of all three, *)
(* that they keep to their types.                                           *)
(***************************************************************************)
EXTENDS AccountFile, MailFile, CpaMint, TLAPS

(* accounts_cli.txt *)

Rewriting == {"read", "truncated"}

\* Who rewrites the file, and that a request finds and keeps only accounts that have been
\* registered, and deletes only what somebody asked for.
Rewriter ==
  /\ \A d \in Deletions : deletion[d].pc \in Rewriting <=> rewriter = d
  /\ \A d \in Deletions : deletion[d].wanted \subseteq asked
  /\ \A d \in Deletions : deletion[d].found \cup deletion[d].kept \subseteq appended
  /\ lines \subseteq appended /\ gone \subseteq appended

\* What the rewriter has read divides the file: what it will write holds no account
\* that is gone, nor one that it will answer for, and every account nobody asked for.
\* After the truncation the file holds accounts that are at risk, and no other.
FileDivided ==
  \A d \in Deletions : rewriter = d =>
    /\ deletion[d].kept \cap (gone \cup deletion[d].found) = {}
    /\ deletion[d].pc = "read" => lines \ (asked \cup risked) \subseteq deletion[d].kept
    /\ deletion[d].pc = "truncated" => lines \subseteq risked
    /\ deletion[d].pc = "truncated" => lines \cap deletion[d].found = {}

AccountInv == AccountFileTypeOK /\ Rewriter /\ FileDivided /\ AccountsKept

-----------------------------------------------------------------------------

LEMMA AccountInit == InitAccountFile => AccountInv
<1> SUFFICES ASSUME InitAccountFile PROVE AccountInv
  OBVIOUS
<1> USE DEF InitAccountFile, Unasked
<1>1. AccountFileTypeOK
  BY AccountFileAssumption DEF AccountFileTypeOK
<1>2. Rewriter
  BY AccountFileAssumption DEF Rewriter, Rewriting
<1>3. FileDivided
  BY AccountFileAssumption DEF FileDivided
<1>4. AccountsKept
  BY DEF AccountsKept, ToBeWritten
<1> QED
  BY <1>1, <1>2, <1>3, <1>4 DEF AccountInv

\* Every step keeps to the types.
LEMMA AccountTypeStep ==
  AccountFileTypeOK /\ [NextAccountFile]_accountFileVars => AccountFileTypeOK'
<1> SUFFICES ASSUME AccountFileTypeOK, [NextAccountFile]_accountFileVars
             PROVE  AccountFileTypeOK'
  OBVIOUS
<1> USE AccountFileAssumption DEF AccountFileTypeOK
<1>1. ASSUME NEW a \in Registered, AppendRecord(a) PROVE AccountFileTypeOK'
  BY <1>1 DEF AppendRecord
<1>2. ASSUME NEW d \in Deletions, NEW wanted \in SUBSET Registered, DeleteAsked(d, wanted)
      PROVE AccountFileTypeOK'
  BY <1>2 DEF DeleteAsked
<1>3. ASSUME NEW d \in Deletions, DeleteRead(d) PROVE AccountFileTypeOK'
  BY <1>3 DEF DeleteRead
<1>4. ASSUME NEW d \in Deletions, DeleteTruncates(d) PROVE AccountFileTypeOK'
  BY <1>4 DEF DeleteTruncates
<1>5. ASSUME NEW d \in Deletions, DeleteWrites(d) PROVE AccountFileTypeOK'
  BY <1>5 DEF DeleteWrites
<1>6. CASE FileCrash
  BY <1>6 DEF FileCrash, Unasked
<1>7. CASE UNCHANGED accountFileVars
  BY <1>7 DEF accountFileVars
<1> QED
  BY <1>1, <1>2, <1>3, <1>4, <1>5, <1>6, <1>7 DEF NextAccountFile

\* One request at a time rewrites the file.
LEMMA RewriterStep == AccountInv /\ [NextAccountFile]_accountFileVars => Rewriter'
<1> SUFFICES ASSUME AccountInv, [NextAccountFile]_accountFileVars
             PROVE  Rewriter'
  OBVIOUS
<1> USE AccountFileAssumption DEF AccountInv, AccountFileTypeOK, Rewriter, Rewriting
<1>1. ASSUME NEW a \in Registered, AppendRecord(a) PROVE Rewriter'
  BY <1>1 DEF AppendRecord
<1>2. ASSUME NEW d \in Deletions, NEW wanted \in SUBSET Registered, DeleteAsked(d, wanted)
      PROVE Rewriter'
  BY <1>2 DEF DeleteAsked
<1>3. ASSUME NEW d \in Deletions, DeleteRead(d) PROVE Rewriter'
  BY <1>3 DEF DeleteRead, Unlocked
<1>4. ASSUME NEW d \in Deletions, DeleteTruncates(d) PROVE Rewriter'
  BY <1>4 DEF DeleteTruncates
<1>5. ASSUME NEW d \in Deletions, DeleteWrites(d) PROVE Rewriter'
  BY <1>5 DEF DeleteWrites
<1>6. CASE FileCrash
  BY <1>6 DEF FileCrash, Unasked
<1>7. CASE UNCHANGED accountFileVars
  BY <1>7 DEF accountFileVars
<1> QED
  BY <1>1, <1>2, <1>3, <1>4, <1>5, <1>6, <1>7 DEF NextAccountFile

\* What the rewriter has read stays divided as it was, whatever is appended meanwhile.
LEMMA DividedStep == AccountInv /\ [NextAccountFile]_accountFileVars => FileDivided'
<1> SUFFICES ASSUME AccountInv, [NextAccountFile]_accountFileVars
             PROVE  FileDivided'
  OBVIOUS
<1> USE AccountFileAssumption DEF AccountInv, AccountFileTypeOK, Rewriter, Rewriting, FileDivided
<1>1. ASSUME NEW a \in Registered, AppendRecord(a) PROVE FileDivided'
  BY <1>1 DEF AppendRecord
<1>2. ASSUME NEW d \in Deletions, NEW wanted \in SUBSET Registered, DeleteAsked(d, wanted)
      PROVE FileDivided'
  BY <1>2 DEF DeleteAsked
<1>3. ASSUME NEW d \in Deletions, DeleteRead(d) PROVE FileDivided'
  BY <1>3 DEF DeleteRead, Unlocked, AccountsKept
<1>4. ASSUME NEW d \in Deletions, DeleteTruncates(d) PROVE FileDivided'
  BY <1>4 DEF DeleteTruncates
<1>5. ASSUME NEW d \in Deletions, DeleteWrites(d) PROVE FileDivided'
  BY <1>5 DEF DeleteWrites
<1>6. CASE FileCrash
  BY <1>6 DEF FileCrash
<1>7. CASE UNCHANGED accountFileVars
  BY <1>7 DEF accountFileVars
<1> QED
  BY <1>1, <1>2, <1>3, <1>4, <1>5, <1>6, <1>7 DEF NextAccountFile

\* No step loses an account or brings one back.
LEMMA KeptStep == AccountInv /\ [NextAccountFile]_accountFileVars => AccountsKept'
<1> SUFFICES ASSUME AccountInv, [NextAccountFile]_accountFileVars
             PROVE  AccountsKept'
  OBVIOUS
<1> USE AccountFileAssumption
    DEF AccountInv, AccountFileTypeOK, Rewriter, Rewriting, FileDivided, AccountsKept, ToBeWritten
<1>1. ASSUME NEW a \in Registered, AppendRecord(a) PROVE AccountsKept'
  BY <1>1 DEF AppendRecord
<1>2. ASSUME NEW d \in Deletions, NEW wanted \in SUBSET Registered, DeleteAsked(d, wanted)
      PROVE AccountsKept'
  BY <1>2 DEF DeleteAsked
<1>3. ASSUME NEW d \in Deletions, DeleteRead(d) PROVE AccountsKept'
  BY <1>3 DEF DeleteRead, Unlocked
<1>4. ASSUME NEW d \in Deletions, DeleteTruncates(d) PROVE AccountsKept'
  BY <1>4 DEF DeleteTruncates
<1>5. ASSUME NEW d \in Deletions, DeleteWrites(d) PROVE AccountsKept'
  BY <1>5 DEF DeleteWrites
<1>6. CASE FileCrash
  BY <1>6 DEF FileCrash
<1>7. CASE UNCHANGED accountFileVars
  BY <1>7 DEF accountFileVars
<1> QED
  BY <1>1, <1>2, <1>3, <1>4, <1>5, <1>6, <1>7 DEF NextAccountFile

-----------------------------------------------------------------------------

\* The ledger of the accounts loses and revives nothing, whoever deletes what and however
\* often the process dies, but for what is appended during a rewrite or stood in it when
\* the process died (append_account_record, delete_accounts).
THEOREM AccountsKeptAlways == AccountFileSpec => []AccountsKept
<1>1. AccountInv /\ [NextAccountFile]_accountFileVars => AccountInv'
  BY AccountTypeStep, RewriterStep, DividedStep, KeptStep DEF AccountInv
<1>2. AccountInv => AccountsKept
  BY DEF AccountInv
<1> QED
  BY AccountInit, <1>1, <1>2, PTL DEF AccountFileSpec

\* Whoever rewrites the file is a request, and the lines are those of accounts, for any number
\* of accounts and of requests (store.py 379-393).
THEOREM AccountFileTypesAlways == AccountFileSpec => []AccountFileTypeOK
<1>1. InitAccountFile => AccountFileTypeOK
  BY AccountInit DEF AccountInv
<1> QED
  BY <1>1, AccountTypeStep, PTL DEF AccountFileSpec

-----------------------------------------------------------------------------
(* mail_credentials.txt *)

\* No time that was noted is later than the file's, ...
PastTimes == list.stamp <= stamp /\ \A w \in Drawers : drawer[w].seen <= stamp

\* ... and a thread that is reading has read the file of the time it noted, if that is
\* still the file's.
ReadCurrent ==
  \A w \in Drawers :
    drawer[w].pc = "loading" /\ drawer[w].seen = stamp => drawer[w].copy = mailFile

MailInv == MailFileTypeOK /\ PastTimes /\ ReadCurrent /\ MailboxesCurrent

-----------------------------------------------------------------------------

LEMMA MailInit == InitMailFile => MailInv
<1> SUFFICES ASSUME InitMailFile PROVE MailInv
  OBVIOUS
<1> USE MailFileAssumption DEF InitMailFile, NoEdit, Drawing
<1>1. MailFileTypeOK
  BY DEF MailFileTypeOK
<1>2. PastTimes /\ ReadCurrent /\ MailboxesCurrent
  BY DEF PastTimes, ReadCurrent, MailboxesCurrent
<1> QED
  BY <1>1, <1>2 DEF MailInv

\* Every step keeps to the types.
LEMMA MailTypeStep == MailFileTypeOK /\ [NextMailFile]_mailFileVars => MailFileTypeOK'
<1> SUFFICES ASSUME MailFileTypeOK, [NextMailFile]_mailFileVars
             PROVE  MailFileTypeOK'
  OBVIOUS
<1> USE MailFileAssumption DEF MailFileTypeOK, Changed, Drawing, NoEdit
<1>1. CASE EditReads
  <2>1. PICK boxes \in SUBSET Boxes :
          \E next \in {mailFile \cup boxes, boxes, mailFile \ boxes} :
            edit' = [pc |-> "read", next |-> next]
    BY <1>1 DEF EditReads
  <2>2. PICK next \in SUBSET Boxes : edit' = [pc |-> "read", next |-> next]
    BY <2>1
  <2> QED
    BY <1>1, <2>2 DEF EditReads
<1>2. CASE EditTruncates
  BY <1>2 DEF EditTruncates
<1>3. CASE EditWrites
  BY <1>3 DEF EditWrites
<1>4. ASSUME NEW w \in Drawers, LoadStat(w) PROVE MailFileTypeOK'
  BY <1>4 DEF LoadStat
<1>5. ASSUME NEW w \in Drawers, LoadHit(w) PROVE MailFileTypeOK'
  BY <1>5 DEF LoadHit
<1>6. ASSUME NEW w \in Drawers, LoadRead(w) PROVE MailFileTypeOK'
  <2>1. /\ [drawer[w] EXCEPT !.pc = "loading", !.copy = mailFile]
             \in [pc : {"idle", "stat", "loading", "using", "renewed", "emptied", "written"},
                 seen : Nat, copy : SUBSET Boxes]
        /\ drawer' = [drawer EXCEPT ![w] = [drawer[w] EXCEPT !.pc = "loading", !.copy = mailFile]]
    BY <1>6 DEF LoadRead
  <2>2. drawer' \in [Drawers -> [pc : {"idle", "stat", "loading", "using", "renewed", "emptied",
                                      "written"},
                                seen : Nat, copy : SUBSET Boxes]]
    BY <2>1
  <2>3. UNCHANGED <<mailFile, stamp, edit, list, covered>> /\ fileLock' = w
    BY <1>6, Zenon DEF LoadRead
  <2> QED
    BY <2>2, <2>3
<1>7. ASSUME NEW w \in Drawers, LoadPublish(w) PROVE MailFileTypeOK'
  <2>1. list' \in [loaded : BOOLEAN, boxes : SUBSET Boxes, stamp : Nat]
    <3>1. drawer[w].copy \in SUBSET Boxes /\ drawer[w].seen \in Nat
      OBVIOUS
    <3>2. [loaded |-> TRUE, boxes |-> drawer[w].copy, stamp |-> drawer[w].seen]
            \in [loaded : BOOLEAN, boxes : SUBSET Boxes, stamp : Nat]
      BY <3>1, Zenon
    <3>3. list' \in {list, [loaded |-> TRUE, boxes |-> drawer[w].copy, stamp |-> drawer[w].seen]}
      BY <1>7, Zenon DEF LoadPublish, StampOf
    <3> QED
      BY <3>2, <3>3, Zenon
  <2>2. covered' \in BOOLEAN
    BY <1>7 DEF LoadPublish
  <2>3. drawer' \in [Drawers -> [pc : {"idle", "stat", "loading", "using", "renewed", "emptied",
                                      "written"},
                                seen : Nat, copy : SUBSET Boxes]]
    BY <1>7 DEF LoadPublish
  <2> QED
    BY <1>7, <2>1, <2>2, <2>3 DEF LoadPublish
<1>8. ASSUME NEW w \in Drawers, Done(w) PROVE MailFileTypeOK'
  BY <1>8 DEF Done
<1>9. ASSUME NEW w \in Drawers, TokenReads(w) PROVE MailFileTypeOK'
  BY <1>9 DEF TokenReads
<1>10. ASSUME NEW w \in Drawers, TokenTruncates(w) PROVE MailFileTypeOK'
  BY <1>10 DEF TokenTruncates
<1>11. ASSUME NEW w \in Drawers, TokenWrites(w) PROVE MailFileTypeOK'
  BY <1>11 DEF TokenWrites
<1>12. ASSUME NEW w \in Drawers, TokenStamps(w) PROVE MailFileTypeOK'
  BY <1>12 DEF TokenStamps
<1>13. CASE UNCHANGED mailFileVars
  BY <1>13 DEF mailFileVars
<1> QED
  BY <1>1, <1>2, <1>3, <1>4, <1>5, <1>6, <1>7, <1>8, <1>9, <1>10, <1>11, <1>12, <1>13
  DEF NextMailFile

\* A change gives the file a time that nobody has noted; everything else notes a time
\* with the file it belongs to.
LEMMA MailStep ==
  MailInv /\ [NextMailFile]_mailFileVars => PastTimes' /\ ReadCurrent' /\ MailboxesCurrent'
<1> SUFFICES ASSUME MailInv, [NextMailFile]_mailFileVars
             PROVE  PastTimes' /\ ReadCurrent' /\ MailboxesCurrent'
  OBVIOUS
<1> USE DEF MailInv, MailFileTypeOK, PastTimes, ReadCurrent, MailboxesCurrent, Changed, Drawing
<1>1. CASE EditReads
  BY <1>1 DEF EditReads
<1>2. CASE EditTruncates
  BY <1>2 DEF EditTruncates
<1>3. CASE EditWrites
  BY <1>3 DEF EditWrites
<1>4. ASSUME NEW w \in Drawers, LoadStat(w)
      PROVE  PastTimes' /\ ReadCurrent' /\ MailboxesCurrent'
  BY <1>4 DEF LoadStat
<1>5. ASSUME NEW w \in Drawers, LoadHit(w)
      PROVE  PastTimes' /\ ReadCurrent' /\ MailboxesCurrent'
  BY <1>5 DEF LoadHit
<1>6. ASSUME NEW w \in Drawers, LoadRead(w)
      PROVE  PastTimes' /\ ReadCurrent' /\ MailboxesCurrent'
  BY <1>6 DEF LoadRead
<1>7. ASSUME NEW w \in Drawers, LoadPublish(w)
      PROVE  PastTimes' /\ ReadCurrent' /\ MailboxesCurrent'
  BY <1>7 DEF LoadPublish, StampOf
<1>8. ASSUME NEW w \in Drawers, Done(w)
      PROVE  PastTimes' /\ ReadCurrent' /\ MailboxesCurrent'
  BY <1>8 DEF Done
<1>9. ASSUME NEW w \in Drawers, TokenReads(w)
      PROVE  PastTimes' /\ ReadCurrent' /\ MailboxesCurrent'
  BY <1>9 DEF TokenReads
<1>10. ASSUME NEW w \in Drawers, TokenTruncates(w)
       PROVE  PastTimes' /\ ReadCurrent' /\ MailboxesCurrent'
  BY <1>10 DEF TokenTruncates
<1>11. ASSUME NEW w \in Drawers, TokenWrites(w)
       PROVE  PastTimes' /\ ReadCurrent' /\ MailboxesCurrent'
  BY <1>11 DEF TokenWrites
<1>12. ASSUME NEW w \in Drawers, TokenStamps(w)
       PROVE  PastTimes' /\ ReadCurrent' /\ MailboxesCurrent'
  BY <1>12 DEF TokenStamps
<1>13. CASE UNCHANGED mailFileVars
  BY <1>13 DEF mailFileVars
<1> QED
  BY <1>1, <1>2, <1>3, <1>4, <1>5, <1>6, <1>7, <1>8, <1>9, <1>10, <1>11, <1>12, <1>13
  DEF NextMailFile

-----------------------------------------------------------------------------

\* A list of mailboxes that passes for the file's is the file's, except where a token was
\* written back into a file the list had not seen (_hotmail_load_accounts,
\* _hotmail_update_refresh_token_file).
THEOREM MailboxesCurrentAlways == MailFileSpec => []MailboxesCurrent
<1>1. MailInv /\ [NextMailFile]_mailFileVars => MailInv'
  BY MailTypeStep, MailStep DEF MailInv
<1>2. MailInv => MailboxesCurrent
  BY DEF MailInv
<1> QED
  BY MailInit, <1>1, <1>2, PTL DEF MailFileSpec

\* The list in memory and what the threads copy of it are mailboxes, for any number of them
\* and of registering threads (grok_register_ttk.py 2107-2137).
THEOREM MailFileTypesAlways == MailFileSpec => []MailFileTypeOK
<1>1. MailInv /\ [NextMailFile]_mailFileVars => MailInv'
  BY MailTypeStep, MailStep DEF MailInv
<1>2. MailInv => MailFileTypeOK
  BY DEF MailInv
<1> QED
  BY MailInit, <1>1, <1>2, PTL DEF MailFileSpec

-----------------------------------------------------------------------------
(* The auth files. *)

\* All that is needed of the shape of the variables.
MintShaped ==
  /\ DOMAIN minter = Crew /\ DOMAIN session = Crew
  /\ \A w \in Crew : {"pc", "acc", "token", "poll"} \subseteq DOMAIN minter[w]
  /\ DOMAIN authDir = Enrolled /\ DOMAIN hotDir = Enrolled

\* A browser that was cleared knows nobody but the account that it is used for, ...
OwnSession ==
  \A w \in Crew : minter[w].pc \in {"inject", "approve"} /\ w \notin unclean
                    => session[w] \in {"nobody", minter[w].acc}

\* ... so the token is that account's, as it is over HTTP.
OwnToken ==
  \A w \in Crew : minter[w].token \in {Nobody, minter[w].acc} \/ minter[w].acc \in smudged

FileInv == MintShaped /\ OwnSession /\ OwnToken /\ MintedAsSelf /\ OnlyInHotload

-----------------------------------------------------------------------------

\* The thread goes to p, not to move a file and not into a browser, with its account, and
\* with the token it has, its own or none.
MintMoves(w, p) ==
  /\ DOMAIN minter' = Crew /\ \A v \in Crew \ {w} : minter'[v] = minter[v]
  /\ {"pc", "acc", "token", "poll"} \subseteq DOMAIN minter'[w]
  /\ minter'[w].pc = p /\ minter'[w].acc = minter[w].acc
  /\ minter'[w].token \in {minter[w].token, minter[w].acc, Nobody}

Files == <<authDir, hotDir, smudged, stuck>>

\* A step of a thread that leaves the files alone, and its browser or is not in it after.
LEMMA MintMoveKeeps ==
  ASSUME FileInv, NEW w \in Crew, minter[w].pc # "move", NEW p, MintMoves(w, p),
         UNCHANGED Files, DOMAIN session' = Crew,
         \A v \in Crew \ {w} : session'[v] = session[v] /\ (v \in unclean' <=> v \in unclean),
         p \in {"inject", "approve"} /\ w \notin unclean'
           => session'[w] \in {"nobody", minter[w].acc}
  PROVE  FileInv'
<1>1. MintShaped'
  BY DEF FileInv, MintShaped, MintMoves, Files
<1>2. OwnSession'
  BY DEF FileInv, OwnSession, MintMoves
<1>3. OwnToken'
  BY DEF FileInv, OwnToken, MintMoves, Files
<1>4. MintedAsSelf'
  BY DEF FileInv, MintedAsSelf, Files
<1>5. OnlyInHotload'
  BY DEF FileInv, OnlyInHotload, MintMoves, Files, In
<1> QED
  BY <1>1, <1>2, <1>3, <1>4, <1>5 DEF FileInv

\* The thread begins with an account or ends with one, or with none.
LEMMA FreshKeeps ==
  ASSUME FileInv, NEW w \in Crew, minter[w].pc # "move", NEW r,
         {"pc", "acc", "token", "poll"} \subseteq DOMAIN r,
         r.pc \notin {"inject", "approve"}, r.token = Nobody,
         minter' = [minter EXCEPT ![w] = r], UNCHANGED <<Files, session, unclean>>
  PROVE  FileInv'
<1>1. MintShaped'
  BY DEF FileInv, MintShaped, Files
<1>2. OwnSession' /\ OwnToken'
  BY DEF FileInv, MintShaped, OwnSession, OwnToken, Files
<1>4. MintedAsSelf'
  BY DEF FileInv, MintedAsSelf, Files
<1>5. OnlyInHotload'
  BY DEF FileInv, MintShaped, OnlyInHotload, Files, In
<1> QED
  BY <1>1, <1>2, <1>4, <1>5 DEF FileInv

LEMMA FileInit == InitMint => FileInv
BY DEF InitMint, FileInv, MintShaped, OwnSession, OwnToken, MintedAsSelf, OnlyInHotload, Off,
       Unfiled, In

LEMMA MintGoes ==
  ASSUME MintShaped, NEW w \in Crew, NEW p, Goes(w, p)
  PROVE  MintMoves(w, p)
BY DEF MintShaped, Goes, MintMoves

LEMMA GrantMoves ==
  ASSUME MintShaped, NEW w \in Crew, Granted(w, minter[w].acc)
  PROVE  MintMoves(w, "probe")
BY DEF MintShaped, Granted, MintMoves

LEMMA HttpKeeps ==
  ASSUME FileInv, NEW w \in Crew, TryPkce(w) \/ TryDevice(w) PROVE FileInv'
<1>1. minter[w].pc # "move" /\ UNCHANGED <<session, unclean>> /\ UNCHANGED Files
  BY DEF TryPkce, TryDevice, In, Files
<1>2. PICK p \in {"probe", "pkce", "device", "browser", "fail"} : MintMoves(w, p)
  <2>1. CASE Granted(w, minter[w].acc)
    BY <2>1, GrantMoves DEF FileInv
  <2>2. CASE \E p \in {"device", "browser", "fail"} : Goes(w, p)
    BY <2>2, MintGoes DEF FileInv
  <2>3. CASE In(w, "pkce") /\ minter' = [minter EXCEPT ![w].try = @ + 1]
    BY <2>3 DEF FileInv, MintShaped, MintMoves, In
  <2> QED
    BY <2>1, <2>2, <2>3 DEF TryPkce, TryDevice, AfterPkce
<1> QED
  BY <1>1, <1>2, MintMoveKeeps DEF FileInv, MintShaped

LEMMA StartBrowserKeeps ==
  ASSUME FileInv, NEW w \in Crew, StartBrowser(w) PROVE FileInv'
<1>1. minter[w].pc # "move" /\ UNCHANGED Files
  BY DEF StartBrowser, In, Files
<1>2. CASE Goes(w, "fail") /\ UNCHANGED <<session, unclean>>
  BY <1>1, <1>2, MintGoes, MintMoveKeeps DEF FileInv, MintShaped
<1>3. CASE AcquireBrowser(w) /\ Goes(w, "inject")
  <2>1. /\ DOMAIN session' = Crew
        /\ \A v \in Crew \ {w} : session'[v] = session[v] /\ (v \in unclean' <=> v \in unclean)
        /\ w \notin unclean' => session'[w] = "nobody"
    BY <1>3 DEF AcquireBrowser, NewBrowser, KeptBrowser, FileInv, MintShaped
  <2> QED
    BY <1>1, <1>3, <2>1, MintGoes, MintMoveKeeps DEF FileInv
<1> QED
  BY <1>2, <1>3 DEF StartBrowser

LEMMA ApproveKeeps ==
  ASSUME FileInv, NEW w \in Crew, InjectCookies(w) \/ SignIn(w) \/ TokenPolled(w)
  PROVE  FileInv'
<1>1. minter[w].pc \in {"inject", "approve"} /\ UNCHANGED Files /\ UNCHANGED unclean
  BY DEF InjectCookies, SignIn, TokenPolled, In, Files
<1>2. MintMoves(w, "approve")
  BY DEF InjectCookies, SignIn, TokenPolled, In, FileInv, MintShaped, MintMoves
<1>3. DOMAIN session' = Crew /\ session'[w] \in {session[w], minter[w].acc}
      /\ \A v \in Crew \ {w} : session'[v] = session[v]
  BY DEF InjectCookies, SignIn, TokenPolled, FileInv, MintShaped
<1> QED
  BY <1>1, <1>2, <1>3, MintMoveKeeps DEF FileInv, OwnSession

LEMMA ApprovedKeeps ==
  ASSUME FileInv, NEW w \in Crew, Approved(w) PROVE FileInv'
<1>1. minter[w].pc # "move" /\ UNCHANGED Files
  BY DEF Approved, In, Files
<1>2. CASE Goes(w, "probe") /\ UNCHANGED <<session, unclean>>
  BY <1>1, <1>2, MintGoes, MintMoveKeeps DEF FileInv, MintShaped
<1>3. CASE /\ minter' = [minter EXCEPT ![w].pc = "fail", ![w].token = Nobody, ![w].poll = "none"]
           /\ DropBrowser(w)
  <2>1. MintMoves(w, "fail")
    BY <1>3 DEF FileInv, MintShaped, MintMoves
  <2>2. /\ DOMAIN session' = Crew
        /\ \A v \in Crew \ {w} : session'[v] = session[v] /\ (v \in unclean' <=> v \in unclean)
    BY <1>3 DEF DropBrowser, FileInv, MintShaped
  <2> QED
    BY <1>1, <2>1, <2>2, MintMoveKeeps
<1> QED
  BY <1>2, <1>3 DEF Approved

\* In a browser that may hold another's session the account counts as smudged.
LEMMA ConsentKeeps ==
  ASSUME FileInv, NEW w \in Crew, Consent(w) PROVE FileInv'
<1>1. /\ minter[w].pc = "approve" /\ session[w] # "nobody"
      /\ minter' = [minter EXCEPT ![w].token = session[w]]
      /\ smudged' = IF w \in unclean THEN smudged \cup {minter[w].acc} ELSE smudged
      /\ UNCHANGED <<session, authDir, hotDir, unclean, stuck>>
  BY DEF Consent, In
<1>2. /\ \A v \in Crew : minter'[v].pc = minter[v].pc /\ minter'[v].acc = minter[v].acc
      /\ \A v \in Crew \ {w} : minter'[v].token = minter[v].token
      /\ minter'[w].token = session[w] /\ smudged \subseteq smudged'
  BY <1>1 DEF FileInv, MintShaped
<1>3. session[w] = minter[w].acc \/ minter[w].acc \in smudged'
  BY <1>1 DEF FileInv, OwnSession
<1>4. MintShaped'
  BY <1>1 DEF FileInv, MintShaped
<1>5. OwnSession'
  BY <1>1, <1>2 DEF FileInv, OwnSession
<1>6. OwnToken'
  BY <1>2, <1>3 DEF FileInv, OwnToken
<1>7. MintedAsSelf'
  BY <1>1, <1>2 DEF FileInv, MintedAsSelf
<1>8. OnlyInHotload'
  BY <1>1, <1>2 DEF FileInv, OnlyInHotload, In
<1> QED
  BY <1>4, <1>5, <1>6, <1>7, <1>8 DEF FileInv

LEMMA WriteKeeps ==
  ASSUME FileInv, NEW w \in Crew, WriteAuth(w) PROVE FileInv'
<1>1. /\ authDir' = [authDir EXCEPT ![minter[w].acc] = minter[w].token]
      /\ MintMoves(w, "move") /\ UNCHANGED <<session, hotDir, unclean, smudged, stuck>>
  BY MintGoes DEF WriteAuth, AuthOf, FileInv
<1>2. minter'[w].token = minter[w].token
  BY DEF WriteAuth, Goes, FileInv, MintShaped
<1>3. MintShaped' /\ OwnSession' /\ OwnToken'
  BY <1>1 DEF FileInv, MintShaped, OwnSession, OwnToken, MintMoves
<1>4. MintedAsSelf'
  BY <1>1 DEF FileInv, MintShaped, OwnToken, MintedAsSelf
<1>5. OnlyInHotload'
  <2>1. \A v \in Crew \ {w} : minter'[v] = minter[v]
    BY <1>1 DEF MintMoves
  <2>2. minter'[w].pc = "move" /\ minter'[w].acc = minter[w].acc /\ minter[w].pc = "write"
    BY <1>1 DEF MintMoves, WriteAuth, In
  <2> QED
    BY <1>1, <2>1, <2>2 DEF FileInv, MintShaped, OnlyInHotload, In
<1> QED
  BY <1>3, <1>4, <1>5 DEF FileInv

LEMMA MoveHotKeeps ==
  ASSUME FileInv, NEW w \in Crew, MoveHot(w) PROVE FileInv'
<1> DEFINE a == minter[w].acc
<1>1. /\ minter' = [minter EXCEPT ![w] = Off] /\ UNCHANGED <<session, unclean, smudged>>
      /\ \/ /\ hotDir' = [hotDir EXCEPT ![a] = authDir[a]]
            /\ authDir' = [authDir EXCEPT ![a] = Nobody] /\ stuck' = stuck \ {a}
         \/ /\ stuck' = IF authDir[a] # Nobody THEN stuck \cup {a} ELSE stuck
            /\ UNCHANGED <<authDir, hotDir>>
  BY DEF MoveHot, MovedOut
<1>2. MintShaped'
  BY <1>1 DEF FileInv, MintShaped, Off
<1>3. OwnSession' /\ OwnToken'
  BY <1>1 DEF FileInv, MintShaped, OwnSession, OwnToken, Off
<1>4. MintedAsSelf'
  BY <1>1 DEF FileInv, MintShaped, MintedAsSelf
<1>5. OnlyInHotload'
  BY <1>1 DEF FileInv, MintShaped, OnlyInHotload, In
<1> QED
  BY <1>2, <1>3, <1>4, <1>5 DEF FileInv

LEMMA FileStep == FileInv /\ [NextMint]_mintVars => FileInv'
<1> SUFFICES ASSUME FileInv, [NextMint]_mintVars PROVE FileInv'
  OBVIOUS
<1>1. CASE UNCHANGED mintVars
  BY <1>1 DEF mintVars, FileInv, MintShaped, OwnSession, OwnToken, MintedAsSelf, OnlyInHotload, In
<1>2. CASE (\E a \in Enrolled : Enrol(a)) \/ (\E named \in SUBSET Enrolled : StartBackfill(named))
           \/ CancelBackfill
  <2>1. UNCHANGED <<minter, session, authDir, hotDir, unclean, smudged, stuck>>
    BY <1>2 DEF Enrol, StartBackfill, CancelBackfill
  <2> QED
    BY <2>1 DEF FileInv, MintShaped, OwnSession, OwnToken, MintedAsSelf, OnlyInHotload, In
<1>3. CASE EndBackfill
  BY <1>3 DEF EndBackfill, FileInv, MintShaped, OwnSession, OwnToken, MintedAsSelf, OnlyInHotload, In
<1>4. CASE CrashMint
  <2>1. /\ stuck' = stuck \cup {minter[w].acc : w \in {v \in Crew : In(v, "move")}}
        /\ minter' = [w \in Crew |-> Off] /\ session' = [w \in Crew |-> "closed"]
        /\ UNCHANGED <<authDir, hotDir, smudged>>
    BY <1>4 DEF CrashMint
  <2> QED
    BY <2>1 DEF FileInv, MintShaped, OwnSession, OwnToken, MintedAsSelf, OnlyInHotload, In, Off
<1>5. ASSUME NEW w \in Crew, NEW a \in Enrolled, NEW sso \in BOOLEAN, Fetch(w, a, sso)
      PROVE  FileInv'
  <2> DEFINE r == [Off EXCEPT !.acc = a,
                     !.pc = IF sso /\ ~(w \in Fillers /\ BrowserOnly) THEN "pkce" ELSE "browser"]
  <2>1. minter' = [minter EXCEPT ![w] = r] /\ minter[w].pc = "off"
        /\ UNCHANGED <<Files, session, unclean>>
    BY <1>5 DEF Fetch, Files
  <2>2. {"pc", "acc", "token", "poll"} \subseteq DOMAIN r
        /\ r.pc \notin {"inject", "approve"} /\ r.token = Nobody
    BY DEF Off
  <2> HIDE DEF r
  <2> QED
    BY <2>1, <2>2, FreshKeeps
<1>6. ASSUME NEW w \in Crew, Probe(w) PROVE FileInv'
  BY <1>6, MintGoes, MintMoveKeeps DEF Probe, In, Files, FileInv, MintShaped
<1>7. ASSUME NEW w \in Crew, MintFails(w) PROVE FileInv'
  BY <1>7, FreshKeeps DEF MintFails, In, Files, Off
<1> QED
  BY <1>1, <1>2, <1>3, <1>4, <1>5, <1>6, <1>7, HttpKeeps, StartBrowserKeeps, ApproveKeeps,
     ApprovedKeeps, ConsentKeeps, WriteKeeps, MoveHotKeeps DEF NextMint

\* The file of an account holds its own token, whichever accounts the browser of a mint
\* worker has served before, wherever clearing it did not fail (browser_confirm.py 289-326,
\* 466-511).
THEOREM MintedAsSelfAlways == MintSpec => []MintedAsSelf
BY FileInit, FileStep, PTL DEF MintSpec, FileInv

\* A file outside the hotload directory is about to be moved, or its move has failed or was
\* prevented by a crash, whatever jobs overlap (cpa_export.py 267).
THEOREM OnlyInHotloadAlways == MintSpec => []OnlyInHotload
BY FileInit, FileStep, PTL DEF MintSpec, FileInv

-----------------------------------------------------------------------------
(* The accounts of a backfill. *)

BusyFiller(w) == minter[w].pc # "off"

\* The workers have different accounts of the plan in hand, and only while the job is on.
Hands ==
  /\ \A w \in Fillers : BusyFiller(w) =>
       /\ backfill.on /\ minter[w].acc \in backfill.plan
       /\ minter[w].acc \notin backfill.todo \cup backfill.ok \cup backfill.fail
  /\ \A w, v \in Fillers :
       w # v /\ BusyFiller(w) /\ BusyFiller(v) => minter[w].acc # minter[v].acc

\* The rest of the plan is to be done, or has ended well or badly.
MintRest ==
  /\ backfill.todo \cap backfill.ok = {} /\ backfill.todo \cap backfill.fail = {}
  /\ backfill.ok \cap backfill.fail = {}
  /\ backfill.todo \cup backfill.ok \cup backfill.fail \subseteq backfill.plan
  /\ \A a \in backfill.plan \ (backfill.todo \cup backfill.ok \cup backfill.fail) :
       \E w \in Fillers : BusyFiller(w) /\ minter[w].acc = a

\* All that is needed of the shape of the variables.
Formed ==
  /\ DOMAIN minter = Crew /\ \A w \in Crew : {"pc", "acc"} \subseteq DOMAIN minter[w]
  /\ {"on", "plan", "todo", "ok", "fail"} \subseteq DOMAIN backfill

PlanInv == Formed /\ Hands /\ MintRest

-----------------------------------------------------------------------------

LEMMA PlanInit == InitMint => PlanInv
BY DEF InitMint, PlanInv, Formed, Hands, MintRest, BusyFiller, Off, NoBackfill, Crew

\* A step that neither begins nor ends an account, nor changes the accounts of the job.
LEMMA PlanKeeps ==
  ASSUME PlanInv, DOMAIN minter' = Crew,
         \A w \in Crew : {"pc", "acc"} \subseteq DOMAIN minter'[w]
                         /\ (BusyFiller(w)' <=> BusyFiller(w)) /\ minter'[w].acc = minter[w].acc,
         {"on", "plan", "todo", "ok", "fail"} \subseteq DOMAIN backfill',
         backfill'.on = backfill.on \/ \A w \in Fillers : ~BusyFiller(w),
         backfill'.plan = backfill.plan, backfill'.todo = backfill.todo,
         backfill'.ok = backfill.ok, backfill'.fail = backfill.fail
  PROVE  PlanInv'
<1>1. Fillers \subseteq Crew
  BY DEF Crew
<1>2. Formed'
  BY DEF PlanInv, Formed
<1>3. Hands'
  BY <1>1 DEF PlanInv, Hands
<1>4. MintRest'
  BY <1>1 DEF PlanInv, MintRest
<1> QED
  BY <1>2, <1>3, <1>4 DEF PlanInv

\* The steps within an attempt.
Within(w) ==
  TryPkce(w) \/ TryDevice(w) \/ StartBrowser(w) \/ InjectCookies(w) \/ SignIn(w) \/ Consent(w)
  \/ TokenPolled(w) \/ Approved(w) \/ Probe(w) \/ WriteAuth(w)

LEMMA WithinKeeps ==
  ASSUME PlanInv, NEW w \in Crew, Within(w)
  PROVE  PlanInv'
<1>1. backfill' = backfill /\ BusyFiller(w)
  BY DEF Within, TryPkce, TryDevice, StartBrowser, InjectCookies, SignIn, Consent, TokenPolled,
         Approved, Probe, WriteAuth, In, BusyFiller
<1>2. \/ minter' = minter
      \/ \E p : p # "off" /\ Goes(w, p)
      \/ \E to : Granted(w, to)
      \/ minter' = [minter EXCEPT ![w].try = @ + 1]
      \/ minter' = [minter EXCEPT ![w].pc = "approve", ![w].poll = "open"]
      \/ \E to : minter' = [minter EXCEPT ![w].token = to]
      \/ \E poll : minter' = [minter EXCEPT ![w].poll = poll]
      \/ minter' = [minter EXCEPT ![w].pc = "fail", ![w].token = Nobody, ![w].poll = "none"]
  BY DEF Within, TryPkce, TryDevice, StartBrowser, InjectCookies, SignIn, Consent, TokenPolled,
         Approved, Probe, WriteAuth, AfterPkce
<1>3. /\ DOMAIN minter' = Crew
      /\ \A v \in Crew : {"pc", "acc"} \subseteq DOMAIN minter'[v]
                         /\ (BusyFiller(v)' <=> BusyFiller(v)) /\ minter'[v].acc = minter[v].acc
  BY <1>1, <1>2 DEF PlanInv, Formed, BusyFiller, Goes, Granted
<1> QED
  BY <1>1, <1>3, PlanKeeps DEF PlanInv, Formed

LEMMA FetchKeeps ==
  ASSUME PlanInv, NEW w \in Crew, NEW a \in Enrolled, NEW sso \in BOOLEAN, Fetch(w, a, sso)
  PROVE  PlanInv'
<1> DEFINE r == [Off EXCEPT !.acc = a,
                   !.pc = IF sso /\ ~(w \in Fillers /\ BrowserOnly) THEN "pkce" ELSE "browser"]
<1>1. minter' = [minter EXCEPT ![w] = r] /\ ~BusyFiller(w)
  BY DEF Fetch, BusyFiller
<1>2. {"pc", "acc"} \subseteq DOMAIN r /\ r.pc # "off" /\ r.acc = a
  BY DEF Off
<1> HIDE DEF r
<1>3. /\ DOMAIN minter' = Crew /\ \A v \in Crew : {"pc", "acc"} \subseteq DOMAIN minter'[v]
      /\ \A v \in Crew \ {w} : minter'[v] = minter[v]
      /\ BusyFiller(w)' /\ minter'[w].acc = a
  BY <1>1, <1>2 DEF PlanInv, Formed, BusyFiller
<1>4. CASE w \in Minters
  <2>1. w \notin Fillers /\ backfill' = backfill
    BY <1>4, MintAssumption DEF Fetch
  <2> QED
    BY <1>3, <2>1 DEF PlanInv, Formed, Hands, MintRest, BusyFiller, Crew
<1>5. CASE w \in Fillers
  <2>1. /\ backfill.on /\ a \in backfill.todo
        /\ backfill' = [backfill EXCEPT !.todo = backfill.todo \ {a}]
    BY <1>5, MintAssumption DEF Fetch
  <2>2. /\ {"on", "plan", "todo", "ok", "fail"} \subseteq DOMAIN backfill'
        /\ backfill'.on = backfill.on /\ backfill'.plan = backfill.plan
        /\ backfill'.ok = backfill.ok /\ backfill'.fail = backfill.fail
        /\ backfill'.todo = backfill.todo \ {a}
    BY <2>1 DEF PlanInv, Formed
  <2>3. Formed'
    BY <1>3, <2>2 DEF Formed
  <2>4. Hands'
    BY <1>3, <1>5, <2>1, <2>2 DEF PlanInv, Hands, MintRest, BusyFiller, Crew
  <2>5. MintRest'
    BY <1>1, <1>3, <1>5, <2>1, <2>2 DEF PlanInv, MintRest, BusyFiller, Crew
  <2> QED
    BY <2>3, <2>4, <2>5 DEF PlanInv
<1> QED
  BY <1>4, <1>5 DEF Crew

\* The attempt of a worker ends, and its account is counted.
LEMMA FiledKeeps ==
  ASSUME PlanInv, NEW w \in Crew, BusyFiller(w), minter' = [minter EXCEPT ![w] = Off],
         NEW how \in {"ok", "fail"}, Filed(w, how)
  PROVE  PlanInv'
<1>1. /\ DOMAIN minter' = Crew /\ \A v \in Crew : {"pc", "acc"} \subseteq DOMAIN minter'[v]
      /\ \A v \in Crew \ {w} : minter'[v] = minter[v]
      /\ ~BusyFiller(w)'
  BY DEF PlanInv, Formed, BusyFiller, Off
<1>2. CASE w \in Minters
  <2>1. w \notin Fillers /\ backfill' = backfill
    BY <1>2, MintAssumption DEF Filed
  <2> QED
    BY <1>1, <2>1 DEF PlanInv, Formed, Hands, MintRest, BusyFiller, Crew
<1>3. CASE w \in Fillers
  <2> DEFINE a == minter[w].acc
  <2>1. backfill' = [backfill EXCEPT ![how] = backfill[how] \cup {a}]
    BY <1>3, MintAssumption DEF Filed
  <2>2. /\ {"on", "plan", "todo", "ok", "fail"} \subseteq DOMAIN backfill'
        /\ backfill'.on = backfill.on /\ backfill'.plan = backfill.plan
        /\ backfill'.todo = backfill.todo
        /\ \/ backfill'.ok = backfill.ok \cup {a} /\ backfill'.fail = backfill.fail
           \/ backfill'.fail = backfill.fail \cup {a} /\ backfill'.ok = backfill.ok
    BY <2>1 DEF PlanInv, Formed
  <2>3. /\ a \in backfill.plan /\ a \notin backfill.todo \cup backfill.ok \cup backfill.fail
        /\ \A v \in Fillers \ {w} : BusyFiller(v) => minter[v].acc # a
    BY <1>3 DEF PlanInv, Hands
  <2> HIDE DEF a
  <2>4. Formed'
    BY <1>1, <2>2 DEF Formed
  <2>5. Hands'
    BY <1>1, <2>2, <2>3 DEF PlanInv, Hands, BusyFiller, Crew
  <2>6. MintRest'
    BY <1>1, <2>2, <2>3 DEF PlanInv, MintRest, BusyFiller, Crew, a
  <2> QED
    BY <2>4, <2>5, <2>6 DEF PlanInv
<1> QED
  BY <1>2, <1>3 DEF Crew

LEMMA PlanStep == PlanInv /\ [NextMint]_mintVars => PlanInv'
<1> SUFFICES ASSUME PlanInv, [NextMint]_mintVars PROVE PlanInv'
  OBVIOUS
<1>1. CASE UNCHANGED mintVars \/ (\E a \in Enrolled : Enrol(a))
  <2>1. UNCHANGED <<minter, backfill>>
    BY <1>1 DEF mintVars, Enrol
  <2> QED
    BY <2>1, PlanKeeps DEF PlanInv, Formed, BusyFiller
<1>2. ASSUME NEW named \in SUBSET Enrolled, StartBackfill(named) PROVE PlanInv'
  <2>1. PICK plan :
          backfill' = [NoBackfill EXCEPT !.on = TRUE, !.plan = plan, !.todo = plan,
                                         !.no = backfill.no + 1]
    BY <1>2 DEF StartBackfill
  <2>2. /\ {"on", "plan", "todo", "ok", "fail"} \subseteq DOMAIN backfill'
        /\ backfill'.plan = plan /\ backfill'.todo = plan
        /\ backfill'.ok = {} /\ backfill'.fail = {}
    BY <2>1 DEF NoBackfill
  <2>3. minter' = minter /\ \A w \in Fillers : ~BusyFiller(w)
    BY <1>2 DEF StartBackfill, PlanInv, Hands
  <2> QED
    BY <2>2, <2>3 DEF PlanInv, Formed, Hands, MintRest, BusyFiller
<1>3. CASE CancelBackfill
  <2>1. minter' = minter /\ backfill' = [backfill EXCEPT !.cancelled = TRUE]
    BY <1>3 DEF CancelBackfill
  <2> QED
    BY <2>1, PlanKeeps DEF PlanInv, Formed, BusyFiller
<1>4. CASE EndBackfill
  <2>1. minter' = minter /\ backfill' = [backfill EXCEPT !.on = FALSE]
        /\ \A w \in Fillers : ~BusyFiller(w)
    BY <1>4 DEF EndBackfill, BusyFiller
  <2> QED
    BY <2>1, PlanKeeps DEF PlanInv, Formed, BusyFiller
<1>5. CASE CrashMint
  <2>1. minter' = [w \in Crew |-> Off] /\ backfill' = [NoBackfill EXCEPT !.no = backfill.no]
    BY <1>5 DEF CrashMint
  <2> QED
    BY <2>1 DEF PlanInv, Formed, Hands, MintRest, BusyFiller, Off, NoBackfill, Crew
<1>6. ASSUME NEW w \in Crew, MoveHot(w) PROVE PlanInv'
  <2>1. BusyFiller(w) /\ minter' = [minter EXCEPT ![w] = Off]
        /\ (Filed(w, "ok") \/ Filed(w, "fail"))
    BY <1>6 DEF MoveHot, In, BusyFiller
  <2> QED
    BY <2>1, FiledKeeps
<1>7. ASSUME NEW w \in Crew, MintFails(w) PROVE PlanInv'
  BY <1>7, FiledKeeps DEF MintFails, In, BusyFiller
<1> QED
  BY <1>1, <1>2, <1>3, <1>4, <1>5, <1>6, <1>7, FetchKeeps, WithinKeeps DEF NextMint, Within

LEMMA PlanAccounted == PlanInv => BackfillAccounts
<1> SUFFICES ASSUME PlanInv PROVE BackfillAccounts
  OBVIOUS
<1> DEFINE inHand == {minter[w].acc : w \in {v \in Fillers : minter[v].pc # "off"}}
           parts  == <<backfill.todo, inHand, backfill.ok, backfill.fail>>
<1>1. /\ inHand \subseteq backfill.plan
      /\ inHand \cap (backfill.todo \cup backfill.ok \cup backfill.fail) = {}
      /\ backfill.plan \subseteq inHand \cup backfill.todo \cup backfill.ok \cup backfill.fail
  BY DEF PlanInv, Hands, MintRest, BusyFiller
<1>2. /\ parts[1] = backfill.todo /\ parts[2] = inHand /\ parts[3] = backfill.ok
      /\ parts[4] = backfill.fail /\ 1 .. 4 = {1, 2, 3, 4}
  OBVIOUS
<1> HIDE DEF inHand, parts
<1>3. UNION {parts[i] : i \in 1 .. 4} = parts[1] \cup parts[2] \cup parts[3] \cup parts[4]
  BY <1>2
<1>4. UNION {parts[i] : i \in 1 .. 4} = backfill.plan
  BY <1>1, <1>2, <1>3 DEF PlanInv, MintRest
<1>5. \A i, j \in 1 .. 4 : i # j => parts[i] \cap parts[j] = {}
  BY <1>1, <1>2 DEF PlanInv, MintRest
<1> QED
  BY <1>4, <1>5 DEF BackfillAccounts, inHand, parts

\* Whatever its attempts come to, and whether it was cancelled, a backfill knows of each of
\* its accounts that it is to be done, in hand, done or failed (jobs.py 1128-1174).
THEOREM BackfillAccountsAlways == MintSpec => []BackfillAccounts
BY PlanInit, PlanStep, PlanAccounted, PTL DEF MintSpec
-----------------------------------------------------------------------------
(* The types: a thread at work has an account and, in a browser, somebody may be signed in
   there. *)

Attending ==
  \A w \in Crew :
    /\ minter[w].pc # "off" => minter[w].acc \in Enrolled
    /\ minter[w].pc \in {"inject", "approve"} => session[w] \in Enrolled \cup {"nobody"}

MintTyped == MintTypeOK /\ Attending

Attempt ==
  [pc : {"off", "pkce", "device", "browser", "inject", "approve", "probe", "write", "move",
         "fail"},
   acc : Enrolled \cup {Nobody}, try : 0 .. PkceRetries, token : Enrolled \cup {Nobody},
   poll : {"none", "open", "token", "error"}]

LEMMA MintNumbers ==
  /\ 0 \in 0 .. PkceRetries /\ PkceRetries \in Nat
  /\ MaxBackfills \in Nat /\ MaxMintCrashes \in Nat /\ Off \in Attempt
BY MintAssumption DEF Off, Attempt

\* A step that changes the locals of one thread, and its browser at most.
LEMMA AttemptStep ==
  ASSUME MintTyped, NEW w \in Crew, NEW r \in Attempt, minter' = [minter EXCEPT ![w] = r],
         r.pc # "off" => r.acc \in Enrolled,
         NEW s \in Enrolled \cup {"closed", "nobody"}, session' = [session EXCEPT ![w] = s],
         r.pc \in {"inject", "approve"} => s \in Enrolled \cup {"nobody"},
         unclean' \subseteq Crew, known' = known, fresh' \subseteq known, mintCrashes' = mintCrashes,
         {authDir', hotDir'} \subseteq [Enrolled -> Enrolled \cup {Nobody}],
         {smudged', stuck'} \subseteq SUBSET Enrolled,
         backfill' \in [on : BOOLEAN, cancelled : BOOLEAN, plan : SUBSET Enrolled,
                   todo : SUBSET Enrolled, ok : SUBSET Enrolled, fail : SUBSET Enrolled,
                   no : 0 .. MaxBackfills]
  PROVE  MintTyped'
<1>1. minter \in [Crew -> Attempt] /\ session \in [Crew -> Enrolled \cup {"closed", "nobody"}]
      /\ known \subseteq Enrolled /\ mintCrashes \in 0 .. MaxMintCrashes
  BY DEF MintTyped, MintTypeOK, Attempt
<1>2. minter' \in [Crew -> Attempt] /\ session' \in [Crew -> Enrolled \cup {"closed", "nobody"}]
  BY <1>1
<1>3. MintTypeOK'
  BY <1>1, <1>2 DEF MintTypeOK, Attempt
<1>4. Attending'
  <2> SUFFICES ASSUME NEW v \in Crew
               PROVE  /\ minter'[v].pc # "off" => minter'[v].acc \in Enrolled
                      /\ minter'[v].pc \in {"inject", "approve"}
                           => session'[v] \in Enrolled \cup {"nobody"}
    BY DEF Attending
  <2>1. CASE v = w
    BY <1>1, <2>1
  <2>2. CASE v # w
    <3>1. minter'[v] = minter[v] /\ session'[v] = session[v]
      BY <1>1, <2>2
    <3>2. QED
      BY <3>1 DEF MintTyped, Attending
  <2>3. QED
    BY <2>1, <2>2
<1>5. QED
  BY <1>3, <1>4 DEF MintTyped

\* The same, where the browser and the files are left alone.
LEMMA AttemptAlone ==
  ASSUME MintTyped, NEW w \in Crew, NEW r \in Attempt, minter' = [minter EXCEPT ![w] = r],
         r.pc # "off" => r.acc \in Enrolled,
         r.pc \in {"inject", "approve"} => session[w] \in Enrolled \cup {"nobody"},
         UNCHANGED <<session, unclean, known, fresh, mintCrashes, authDir, hotDir, smudged, stuck,
                     backfill>>
  PROVE  MintTyped'
<1>1. session[w] \in Enrolled \cup {"closed", "nobody"}
      /\ session' = [session EXCEPT ![w] = session[w]]
  BY DEF MintTyped, MintTypeOK
<1>2. /\ unclean' \subseteq Crew /\ fresh' \subseteq known
      /\ {authDir', hotDir'} \subseteq [Enrolled -> Enrolled \cup {Nobody}]
      /\ {smudged', stuck'} \subseteq SUBSET Enrolled
      /\ backfill' \in [on : BOOLEAN, cancelled : BOOLEAN, plan : SUBSET Enrolled,
                   todo : SUBSET Enrolled, ok : SUBSET Enrolled, fail : SUBSET Enrolled,
                   no : 0 .. MaxBackfills]
  BY DEF MintTyped, MintTypeOK
<1>3. QED
  BY <1>1, <1>2, AttemptStep
-----------------------------------------------------------------------------
LEMMA AttemptParts ==
  ASSUME MintTyped, NEW w \in Crew
  PROVE  /\ minter[w] \in Attempt /\ session[w] \in Enrolled \cup {"closed", "nobody"}
         /\ known \subseteq Enrolled /\ fresh \subseteq known /\ unclean \subseteq Crew
         /\ {authDir, hotDir} \subseteq [Enrolled -> Enrolled \cup {Nobody}]
         /\ {smudged, stuck} \subseteq SUBSET Enrolled
         /\ minter[w].pc # "off" => minter[w].acc \in Enrolled
BY DEF MintTyped, MintTypeOK, Attending, Attempt

BackfillJobs ==
  [on : BOOLEAN, cancelled : BOOLEAN, plan : SUBSET Enrolled,
         todo : SUBSET Enrolled, ok : SUBSET Enrolled, fail : SUBSET Enrolled,
         no : 0 .. MaxBackfills]

LEMMA GoesTyped ==
  ASSUME NEW r \in Attempt, NEW p, p \in {"device", "browser", "inject", "probe", "write",
                                          "move", "fail"}
  PROVE  /\ [r EXCEPT !.pc = p] \in Attempt
         /\ [r EXCEPT !.pc = p].pc = p /\ [r EXCEPT !.pc = p].acc = r.acc
BY DEF Attempt

Elsewhere == <<session, unclean, known, fresh, mintCrashes, authDir, hotDir, smudged, stuck,
               backfill>>

\* What a thread does alone.
LEMMA AloneTyped ==
  ASSUME MintTyped, NEW w \in Crew,
         TryPkce(w) \/ TryDevice(w) \/ Probe(w) \/ TokenPolled(w)
  PROVE  MintTyped'
<1> DEFINE m == minter[w]
<1>1. m \in Attempt /\ minter[w].pc # "off" /\ m.acc \in Enrolled /\ UNCHANGED Elsewhere
  BY AttemptParts DEF TryPkce, TryDevice, Probe, TokenPolled, In, Elsewhere
<1>2. ASSUME NEW p \in {"device", "browser", "fail", "write"}, Goes(w, p) PROVE MintTyped'
  <2> DEFINE r == [minter[w] EXCEPT !.pc = p]
  <2>1. r \in Attempt /\ r.pc = p /\ r.acc = m.acc
    <3>1. p \in {"device", "browser", "inject", "probe", "write", "move", "fail"}
      OBVIOUS
    <3>2. QED
      BY <1>1, <3>1, GoesTyped
  <2>2. minter' = [minter EXCEPT ![w] = r]
    BY <1>2 DEF Goes
  <2> HIDE DEF r
  <2>3. QED
    BY <1>1, <2>1, <2>2, AttemptAlone DEF Elsewhere
<1>3. ASSUME Granted(w, minter[w].acc) PROVE MintTyped'
  <2> DEFINE r == [minter[w] EXCEPT !.pc = "probe", !.token = minter[w].acc]
  <2>1. r \in Attempt /\ r.pc = "probe" /\ r.acc = m.acc
    BY <1>1 DEF Attempt
  <2>2. minter' = [minter EXCEPT ![w] = r]
    BY <1>3 DEF Granted
  <2> HIDE DEF r
  <2>3. QED
    BY <1>1, <2>1, <2>2, AttemptAlone DEF Elsewhere
<1>4. ASSUME In(w, "pkce"), minter[w].try < PkceRetries,
             minter' = [minter EXCEPT ![w].try = @ + 1]
      PROVE  MintTyped'
  <2> DEFINE n == minter[w].try + 1
             r == [minter[w] EXCEPT !.try = n]
  <2>1. n \in 0 .. PkceRetries
    BY <1>1, <1>4, MintNumbers DEF Attempt
  <2> HIDE DEF n
  <2>2. r \in Attempt /\ r.pc = "pkce" /\ r.acc = m.acc
    BY <1>1, <1>4, <2>1 DEF Attempt, In
  <2>3. minter' = [minter EXCEPT ![w] = r]
    BY <1>4 DEF n
  <2> HIDE DEF r
  <2>4. QED
    BY <1>1, <2>2, <2>3, AttemptAlone DEF Elsewhere
<1>5. ASSUME In(w, "approve"), NEW f \in {"token", "error"},
             minter' = [minter EXCEPT ![w].poll = f]
      PROVE  MintTyped'
  <2> DEFINE r == [minter[w] EXCEPT !.poll = f]
  <2>1. r \in Attempt /\ r.pc = "approve" /\ r.acc = m.acc
    BY <1>1, <1>5 DEF Attempt, In
  <2>2. minter' = [minter EXCEPT ![w] = r] /\ session[w] \in Enrolled \cup {"nobody"}
    BY <1>5 DEF In, MintTyped, Attending
  <2> HIDE DEF r
  <2>3. QED
    BY <1>1, <2>1, <2>2, AttemptAlone DEF Elsewhere
<1>6. AfterPkce \in {"device", "browser", "fail", "write"}
  BY DEF AfterPkce
<1>7. QED
  BY <1>2, <1>3, <1>4, <1>5, <1>6 DEF TryPkce, TryDevice, Probe, TokenPolled

\* What it does with its browser.
LEMMA BrowserTyped ==
  ASSUME MintTyped, NEW w \in Crew,
         StartBrowser(w) \/ InjectCookies(w) \/ SignIn(w) \/ Consent(w) \/ Approved(w)
  PROVE  MintTyped'
<1> DEFINE Signed == Enrolled \cup {"closed", "nobody"}
<1>1. /\ minter[w] \in Attempt /\ minter[w].acc \in Enrolled
      /\ UNCHANGED <<known, fresh, mintCrashes, authDir, hotDir, stuck, backfill>>
  BY AttemptParts DEF StartBrowser, InjectCookies, SignIn, Consent, Approved, In
<1>2. /\ session \in [Crew -> Signed] /\ unclean \subseteq Crew /\ w \in Crew
      /\ session[w] \in Signed
      /\ minter[w].pc \in {"inject", "approve"} => session[w] \in Enrolled \cup {"nobody"}
  BY DEF MintTyped, MintTypeOK, Attending
<1>3. ASSUME NEW r \in Attempt, minter' = [minter EXCEPT ![w] = r], r.acc = minter[w].acc,
             NEW s \in Signed, session' = [session EXCEPT ![w] = s],
             r.pc \in {"inject", "approve"} => s \in Enrolled \cup {"nobody"},
             unclean' \subseteq Crew, smudged' \subseteq Enrolled
      PROVE  MintTyped'
  <2>1. /\ fresh' \subseteq known /\ stuck' \subseteq Enrolled /\ known' = known
        /\ {authDir', hotDir'} \subseteq [Enrolled -> Enrolled \cup {Nobody}]
        /\ mintCrashes' = mintCrashes
    BY <1>1, AttemptParts
  <2>2. backfill' \in [on : BOOLEAN, cancelled : BOOLEAN, plan : SUBSET Enrolled,
                   todo : SUBSET Enrolled, ok : SUBSET Enrolled, fail : SUBSET Enrolled,
                   no : 0 .. MaxBackfills]
    BY <1>1 DEF MintTyped, MintTypeOK
  <2>3. {smudged', stuck'} \subseteq SUBSET Enrolled /\ r.acc \in Enrolled
    BY <1>1, <1>3, <2>1
  <2>4. QED
    BY <1>3, <2>1, <2>2, <2>3, AttemptStep
<1>4. smudged \subseteq Enrolled /\ session' = [session EXCEPT ![w] = session'[w]]
      /\ session'[w] \in Signed /\ unclean' \subseteq Crew /\ smudged' \subseteq Enrolled
  <2>1. smudged \subseteq Enrolled
    BY AttemptParts
  <2>2. smudged' \subseteq Enrolled
    BY <1>1, <2>1 DEF StartBrowser, InjectCookies, SignIn, Consent, Approved
  <2>3. \/ UNCHANGED session
        \/ \E s \in {"nobody", "closed", minter[w].acc} : session' = [session EXCEPT ![w] = s]
    BY DEF StartBrowser, InjectCookies, SignIn, Consent, Approved, AcquireBrowser, NewBrowser,
           KeptBrowser, DropBrowser
  <2>4. session' = [session EXCEPT ![w] = session'[w]] /\ session'[w] \in Signed
    BY <1>1, <1>2, <2>3
  <2>5. unclean' \subseteq Crew
    BY <1>2 DEF StartBrowser, InjectCookies, SignIn, Consent, Approved, AcquireBrowser,
                NewBrowser, KeptBrowser, DropBrowser
  <2>6. QED
    BY <2>1, <2>2, <2>4, <2>5
<1>5. CASE StartBrowser(w)
  <2>1. PICK p \in {"fail", "inject"} :
          Goes(w, p) /\ (p = "inject" => AcquireBrowser(w))
    BY <1>5 DEF StartBrowser
  <2> DEFINE r == [minter[w] EXCEPT !.pc = p]
  <2>2. r \in Attempt /\ r.pc = p /\ r.acc = minter[w].acc
    <3>1. p \in {"device", "browser", "inject", "probe", "write", "move", "fail"}
      OBVIOUS
    <3>2. QED
      BY <1>1, <3>1, GoesTyped
  <2>3. minter' = [minter EXCEPT ![w] = r]
    BY <2>1 DEF Goes
  <2>4. p = "inject" => session'[w] \in Enrolled \cup {"nobody"}
    BY <1>2, <2>1 DEF AcquireBrowser, NewBrowser, KeptBrowser
  <2> HIDE DEF r
  <2>5. QED
    BY <1>3, <1>4, <2>1, <2>2, <2>3, <2>4
<1>6. CASE InjectCookies(w)
  <2> DEFINE r == [minter[w] EXCEPT !.pc = "approve", !.poll = "open"]
  <2>1. r \in Attempt /\ r.acc = minter[w].acc
    BY <1>1 DEF Attempt
  <2>2. minter' = [minter EXCEPT ![w] = r]
    BY <1>6 DEF InjectCookies
  <2>3. session'[w] \in Enrolled \cup {"nobody"}
    BY <1>1, <1>2, <1>6 DEF InjectCookies, In
  <2> HIDE DEF r
  <2>4. QED
    BY <1>3, <1>4, <2>1, <2>2, <2>3
<1>7. CASE SignIn(w)
  <2>1. minter' = [minter EXCEPT ![w] = minter[w]]
    BY <1>7 DEF SignIn, MintTyped, MintTypeOK
  <2>2. session'[w] \in Enrolled \cup {"nobody"}
    BY <1>1, <1>2, <1>7 DEF SignIn
  <2>3. QED
    BY <1>1, <1>3, <1>4, <2>1, <2>2
<1>8. CASE Consent(w)
  <2> DEFINE r == [minter[w] EXCEPT !.token = session[w]]
  <2>1. session[w] \in Enrolled /\ session' = session
    BY <1>2, <1>8 DEF Consent, In
  <2>2. r \in Attempt /\ r.acc = minter[w].acc
    BY <1>1, <2>1 DEF Attempt
  <2>3. minter' = [minter EXCEPT ![w] = r]
    BY <1>8 DEF Consent
  <2> HIDE DEF r
  <2>4. QED
    BY <1>3, <1>4, <2>1, <2>2, <2>3
<1>9. CASE Approved(w)
  <2>1. CASE Goes(w, "probe")
    <3> DEFINE r == [minter[w] EXCEPT !.pc = "probe"]
    <3>1. r \in Attempt /\ r.pc = "probe" /\ r.acc = minter[w].acc
      BY <1>1, GoesTyped
    <3>2. minter' = [minter EXCEPT ![w] = r]
      BY <2>1 DEF Goes
    <3> HIDE DEF r
    <3>3. QED
      BY <1>3, <1>4, <3>1, <3>2
  <2>2. CASE minter' = [minter EXCEPT ![w].pc = "fail", ![w].token = Nobody, ![w].poll = "none"]
    <3> DEFINE r == [minter[w] EXCEPT !.pc = "fail", !.token = Nobody, !.poll = "none"]
    <3>1. r \in Attempt /\ r.pc = "fail" /\ r.acc = minter[w].acc
      BY <1>1 DEF Attempt
    <3>2. minter' = [minter EXCEPT ![w] = r]
      BY <2>2
    <3> HIDE DEF r
    <3>3. QED
      BY <1>3, <1>4, <3>1, <3>2
  <2>3. QED
    BY <1>9, <2>1, <2>2 DEF Approved
<1>10. QED
  BY <1>5, <1>6, <1>7, <1>8, <1>9
-----------------------------------------------------------------------------
\* An attempt that begins, is filed or is over.
LEMMA FiledTyped ==
  ASSUME MintTyped, NEW w \in Crew, WriteAuth(w) \/ MoveHot(w) \/ MintFails(w)
  PROVE  MintTyped'
<1>1. /\ minter[w] \in Attempt /\ minter[w].acc \in Enrolled /\ backfill \in BackfillJobs
      /\ UNCHANGED <<known, fresh, session, unclean, smudged, mintCrashes>>
  BY AttemptParts
     DEF WriteAuth, MoveHot, MintFails, In, MintTyped, MintTypeOK, BackfillJobs
<1>2. /\ {authDir, hotDir} \subseteq [Enrolled -> Enrolled \cup {Nobody}]
      /\ smudged \subseteq Enrolled /\ stuck \subseteq Enrolled
      /\ fresh \subseteq known /\ unclean \subseteq Crew
  BY AttemptParts
<1>3. ASSUME NEW how \in {"ok", "fail"}, Filed(w, how) PROVE backfill' \in BackfillJobs
  BY <1>1, <1>3 DEF Filed, BackfillJobs
<1>4. ASSUME NEW r \in Attempt, minter' = [minter EXCEPT ![w] = r], r.pc \in {"off", "move"},
             r.pc # "off" => r.acc \in Enrolled, backfill' \in BackfillJobs,
             stuck' \subseteq Enrolled,
             {authDir', hotDir'} \subseteq [Enrolled -> Enrolled \cup {Nobody}]
      PROVE  MintTyped'
  <2>1. session[w] \in Enrolled \cup {"closed", "nobody"}
        /\ session' = [session EXCEPT ![w] = session[w]]
    BY <1>1 DEF MintTyped, MintTypeOK
  <2>2. {smudged', stuck'} \subseteq SUBSET Enrolled /\ unclean' \subseteq Crew
        /\ known' = known /\ fresh' \subseteq known /\ mintCrashes' = mintCrashes
    BY <1>1, <1>2, <1>4
  <2>3. QED
    BY <1>4, <2>1, <2>2, AttemptStep DEF BackfillJobs
<1>5. CASE WriteAuth(w)
  <2> DEFINE r == [minter[w] EXCEPT !.pc = "move"]
  <2>1. r \in Attempt /\ r.pc = "move" /\ r.acc = minter[w].acc
    BY <1>1, GoesTyped
  <2>2. minter' = [minter EXCEPT ![w] = r]
    BY <1>5 DEF WriteAuth, Goes
  <2>3. AuthOf(w) \in Enrolled \cup {Nobody}
    BY <1>1 DEF AuthOf, Attempt
  <2>4. authDir' \in [Enrolled -> Enrolled \cup {Nobody}]
    BY <1>2, <1>5, <2>3 DEF WriteAuth
  <2>5. UNCHANGED <<hotDir, backfill, stuck>>
    BY <1>5 DEF WriteAuth
  <2> HIDE DEF r
  <2>6. QED
    BY <1>1, <1>2, <1>4, <2>1, <2>2, <2>4, <2>5
<1>6. Off \in Attempt /\ Off.pc = "off"
  BY MintNumbers DEF Off
<1>7. CASE MintFails(w)
  <2>1. /\ minter' = [minter EXCEPT ![w] = Off] /\ UNCHANGED <<authDir, hotDir, stuck>>
        /\ backfill' \in BackfillJobs
    BY <1>3, <1>7 DEF MintFails
  <2>2. QED
    BY <1>2, <1>4, <1>6, <2>1
<1>8. CASE MoveHot(w)
  <2>1. minter' = [minter EXCEPT ![w] = Off] /\ backfill' \in BackfillJobs
    BY <1>3, <1>8 DEF MoveHot
  <2>2. stuck' \subseteq Enrolled
    BY <1>1, <1>2, <1>8 DEF MoveHot
  <2>3. hotDir' \in [Enrolled -> Enrolled \cup {Nobody}]
    BY <1>1, <1>2, <1>8 DEF MoveHot
  <2>4. authDir' \in [Enrolled -> Enrolled \cup {Nobody}]
    BY <1>1, <1>2, <1>8 DEF MoveHot, MovedOut
  <2>5. QED
    BY <1>4, <1>6, <2>1, <2>2, <2>3, <2>4
<1>9. QED
  BY <1>5, <1>7, <1>8

LEMMA FetchTyped ==
  ASSUME MintTyped, NEW w \in Crew, NEW a \in Enrolled, NEW sso \in BOOLEAN, Fetch(w, a, sso)
  PROVE  MintTyped'
<1> DEFINE p == IF sso /\ ~(w \in Fillers /\ BrowserOnly) THEN "pkce" ELSE "browser"
           r == [Off EXCEPT !.acc = a, !.pc = p]
<1>1. p \in {"pkce", "browser"}
  OBVIOUS
<1>2. minter' = [minter EXCEPT ![w] = r]
      /\ UNCHANGED <<known, session, authDir, hotDir, unclean, smudged, stuck, mintCrashes>>
  BY DEF Fetch
<1> HIDE DEF p
<1>3. r \in Attempt /\ r.pc \in {"pkce", "browser"} /\ r.acc = a
  BY <1>1, MintNumbers DEF Off, Attempt
<1>4. backfill \in BackfillJobs
  BY DEF MintTyped, MintTypeOK, BackfillJobs
<1>5. backfill' \in BackfillJobs
  BY <1>4 DEF Fetch, BackfillJobs
<1>6. fresh' \subseteq known
  BY AttemptParts DEF Fetch
<1>7. /\ session[w] \in Enrolled \cup {"closed", "nobody"}
      /\ session' = [session EXCEPT ![w] = session[w]]
  BY <1>2 DEF MintTyped, MintTypeOK
<1>8. {smudged', stuck'} \subseteq SUBSET Enrolled /\ unclean' \subseteq Crew
      /\ {authDir', hotDir'} \subseteq [Enrolled -> Enrolled \cup {Nobody}]
  BY <1>2, AttemptParts
<1> HIDE DEF r
<1>9. QED
  BY <1>2, <1>3, <1>5, <1>6, <1>7, <1>8, AttemptStep DEF BackfillJobs

\* The jobs and the crashes.
LEMMA JobsTyped ==
  ASSUME MintTyped,
         \/ \E a \in Enrolled : Enrol(a)
         \/ \E named \in SUBSET Enrolled : StartBackfill(named)
         \/ CancelBackfill \/ EndBackfill \/ CrashMint \/ UNCHANGED mintVars
  PROVE  MintTyped'
<1>1. /\ minter \in [Crew -> Attempt] /\ session \in [Crew -> Enrolled \cup {"closed", "nobody"}]
      /\ known \subseteq Enrolled /\ fresh \subseteq known /\ unclean \subseteq Crew
      /\ {smudged, stuck} \subseteq SUBSET Enrolled /\ mintCrashes \in 0 .. MaxMintCrashes
      /\ backfill \in BackfillJobs /\ Attending
      /\ {authDir, hotDir} \subseteq [Enrolled -> Enrolled \cup {Nobody}]
  BY DEF MintTyped, MintTypeOK, BackfillJobs, Attempt
<1>2. SUFFICES
      /\ minter' \in [Crew -> Attempt] /\ session' \in [Crew -> Enrolled \cup {"closed", "nobody"}]
      /\ known' \subseteq Enrolled /\ fresh' \subseteq known' /\ unclean' \subseteq Crew
      /\ {smudged', stuck'} \subseteq SUBSET Enrolled /\ mintCrashes' \in 0 .. MaxMintCrashes
      /\ backfill' \in BackfillJobs /\ Attending' /\ UNCHANGED <<authDir, hotDir>>
  BY <1>1 DEF MintTyped, MintTypeOK, BackfillJobs, Attempt
<1>3. CASE \E a \in Enrolled : Enrol(a)
  BY <1>1, <1>3 DEF Enrol, Attending
<1>4. CASE \E named \in SUBSET Enrolled : StartBackfill(named)
  <2>1. PICK named \in SUBSET Enrolled : StartBackfill(named)
    BY <1>4
  <2>2. PICK plan \in SUBSET Enrolled :
          backfill' = [NoBackfill EXCEPT !.on = TRUE, !.plan = plan, !.todo = plan,
                                         !.no = backfill.no + 1]
    BY <1>1, <2>1 DEF StartBackfill
  <2>3. backfill.no + 1 \in 0 .. MaxBackfills
    <3>1. backfill.no \in 0 .. MaxBackfills
      BY <1>1 DEF BackfillJobs
    <3>2. backfill.no < MaxBackfills
      BY <2>1 DEF StartBackfill
    <3>3. QED
      BY <3>1, <3>2, MintNumbers
  <2>4. backfill' \in BackfillJobs
    BY <2>2, <2>3 DEF NoBackfill, BackfillJobs
  <2>5. UNCHANGED <<known, fresh, minter, authDir, hotDir, session, unclean, smudged, stuck,
                    mintCrashes>>
    BY <2>1 DEF StartBackfill
  <2>6. QED
    BY <1>1, <2>4, <2>5 DEF Attending
<1>5. CASE CancelBackfill
  <2>1. backfill' \in BackfillJobs
    BY <1>1, <1>5 DEF CancelBackfill, BackfillJobs
  <2>2. QED
    BY <1>1, <1>5, <2>1 DEF CancelBackfill, Attending
<1>6. CASE EndBackfill
  <2>1. backfill' \in BackfillJobs
    BY <1>1, <1>6 DEF EndBackfill, BackfillJobs
  <2>2. session' \in [Crew -> Enrolled \cup {"closed", "nobody"}]
    BY <1>1, <1>6 DEF EndBackfill
  <2>3. Attending'
    BY <1>1, <1>6 DEF EndBackfill, Attending
  <2>4. QED
    BY <1>1, <1>6, <2>1, <2>2, <2>3 DEF EndBackfill
<1>7. CASE CrashMint
  <2>1. mintCrashes' \in 0 .. MaxMintCrashes
    BY <1>1, <1>7, MintNumbers DEF CrashMint
  <2>2. backfill' \in BackfillJobs
    BY <1>1, <1>7 DEF CrashMint, NoBackfill, BackfillJobs
  <2>3. minter' \in [Crew -> Attempt] /\ Attending'
    BY <1>7, MintNumbers DEF CrashMint, Attending, Off
  <2>4. stuck' \subseteq Enrolled
    BY <1>1, <1>7 DEF CrashMint, In, Attending
  <2>5. QED
    BY <1>1, <1>7, <2>1, <2>2, <2>3, <2>4 DEF CrashMint
<1>8. CASE UNCHANGED mintVars
  BY <1>1, <1>8 DEF mintVars, Attending
<1>9. QED
  BY <1>3, <1>4, <1>5, <1>6, <1>7, <1>8

\* Whoever is at work has an account, the browser he consents in is open, and the jobs,
\* directories and counts keep to their types, for any number of threads, of accounts, of
\* retries, of jobs and of crashes.
THEOREM MintTypesAlways == MintSpec => []MintTypeOK
<1>1. InitMint => MintTyped
  <2> SUFFICES ASSUME InitMint PROVE MintTyped
    OBVIOUS
  <2>1. backfill \in BackfillJobs /\ mintCrashes \in 0 .. MaxMintCrashes
    BY MintNumbers DEF InitMint, NoBackfill, BackfillJobs
  <2>2. minter \in [Crew -> Attempt] /\ Attending
    BY MintNumbers DEF InitMint, Attending, Off
  <2>3. QED
    BY <2>1, <2>2 DEF InitMint, MintTyped, MintTypeOK, Unfiled, BackfillJobs, Attempt
<1>2. MintTyped /\ [NextMint]_mintVars => MintTyped'
  BY AloneTyped, BrowserTyped, FiledTyped, FetchTyped, JobsTyped DEF NextMint
<1>3. MintTyped => MintTypeOK
  BY DEF MintTyped
<1>4. QED
  BY <1>1, <1>2, <1>3, PTL DEF MintSpec
=============================================================================
