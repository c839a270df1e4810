---------------------------- MODULE AccountFile ----------------------------
(***************************************************************************)
(* accounts_cli.txt: the registration workers append to it                  *)
(* (register_cli.append_account_record, under _accounts_file_lock), the     *)
(* WebUI rewrites it without the accounts an operator deletes               *)
(* (webui/store.delete_accounts, under its own _lock).  The two locks do    *)
(* not exclude each other, and a rewrite truncates the file first.          *)
(***************************************************************************)
EXTENDS Naturals

CONSTANTS
  Deletions,     \* requests to delete accounts
  Registered,    \* the accounts registered one after the other, or side by side
  NoDeletion,
  MaxFileCrashes \* bound

ASSUME AccountFileAssumption == NoDeletion \notin Deletions /\ MaxFileCrashes \in Nat

VARIABLES
  lines,     \* the accounts with a line in the file
  appended,  \* the accounts whose line was written
  deletion,  \* request -> its locals
  rewriter,  \* the request that holds store._lock, or NoDeletion
  fileCrashes,
  \* history variables, read by properties only
  asked,     \* the accounts some request wanted deleted
  gone,      \* ... and found in the file, and answered for
  risked     \* accounts appended during a rewrite, or not written back before a crash

accountFileVars == <<lines, appended, deletion, rewriter, fileCrashes, asked, gone, risked>>

Unasked == [pc |-> "none", wanted |-> {}, found |-> {}, kept |-> {}]

InitAccountFile ==
  /\ lines = {} /\ appended = {}
  /\ deletion = [d \in Deletions |-> Unasked] /\ rewriter = NoDeletion
  /\ fileCrashes = 0
  /\ asked = {} /\ gone = {} /\ risked = {}

\* append_account_record: one line, opened for appending.
AppendRecord(a) ==
  /\ a \notin appended
  /\ lines' = lines \cup {a} /\ appended' = appended \cup {a}
  /\ risked' = IF rewriter # NoDeletion THEN risked \cup {a} ELSE risked
  /\ UNCHANGED <<deletion, rewriter, fileCrashes, asked, gone>>

\* Of accounts that are listed, or of any other e-mail address.
DeleteAsked(d, wanted) ==
  /\ deletion[d].pc = "none" /\ wanted # {}
  /\ deletion' = [deletion EXCEPT ![d].pc = "locking", ![d].wanted = wanted]
  /\ asked' = asked \cup wanted
  /\ UNCHANGED <<lines, appended, rewriter, fileCrashes, gone, risked>>

UnlockedAlways == TRUE                             \* mutant: requests run side by side
Unlocked == rewriter = NoDeletion

DeleteRead(d) ==
  /\ deletion[d].pc = "locking" /\ Unlocked
  /\ rewriter' = d
  /\ LET wanted == deletion[d].wanted
     IN deletion' = [deletion EXCEPT ![d] = [pc |-> "read", wanted |-> wanted,
                       found |-> lines \cap wanted, kept |-> lines \ wanted]]
  /\ UNCHANGED <<lines, appended, fileCrashes, asked, gone, risked>>

\* write_text opens the file, which empties it ...
DeleteTruncates(d) ==
  /\ deletion[d].pc = "read"
  /\ lines' = {}
  /\ deletion' = [deletion EXCEPT ![d].pc = "truncated"]
  /\ UNCHANGED <<appended, rewriter, fileCrashes, asked, gone, risked>>

\* ... and writes from its beginning, over what was appended meanwhile; nothing if nothing
\* is kept.
DeleteWrites(d) ==
  /\ deletion[d].pc = "truncated"
  /\ \E spared \in SUBSET lines :
       /\ deletion[d].kept = {} => spared = lines
       /\ lines' = deletion[d].kept \cup spared
  /\ deletion' = [deletion EXCEPT ![d].pc = "done"]
  /\ rewriter' = NoDeletion
  /\ gone' = gone \cup deletion[d].found
  /\ UNCHANGED <<appended, fileCrashes, asked, risked>>

\* The process dies: a truncated file stays so.
FileCrash ==
  /\ fileCrashes < MaxFileCrashes
  /\ fileCrashes' = fileCrashes + 1
  /\ risked' = IF rewriter # NoDeletion /\ deletion[rewriter].pc = "truncated"
               THEN risked \cup deletion[rewriter].kept ELSE risked
  /\ deletion' = [d \in Deletions |-> IF deletion[d].pc = "none" THEN Unasked
                                      ELSE [deletion[d] EXCEPT !.pc = "done"]]
  /\ rewriter' = NoDeletion
  /\ UNCHANGED <<lines, appended, asked, gone>>

NextAccountFile ==
  \/ \E a \in Registered : AppendRecord(a)
  \/ \E d \in Deletions :
       \/ \E wanted \in SUBSET Registered : DeleteAsked(d, wanted)
       \/ DeleteRead(d) \/ DeleteTruncates(d) \/ DeleteWrites(d)
  \/ FileCrash

AccountFileSpec == InitAccountFile /\ [][NextAccountFile]_accountFileVars

-----------------------------------------------------------------------------
(* Properties *)

AccountFileTypeOK ==
  /\ {lines, appended, asked, gone, risked} \subseteq SUBSET Registered
  /\ deletion \in [Deletions -> [pc : {"none", "locking", "read", "truncated", "done"},
                                 wanted : SUBSET Registered, found : SUBSET Registered,
                                 kept : SUBSET Registered]]
  /\ rewriter \in Deletions \cup {NoDeletion}
  /\ fileCrashes \in 0 .. MaxFileCrashes

\* What the rewrite under way will put back.
ToBeWritten ==
  IF rewriter # NoDeletion /\ deletion[rewriter].pc = "truncated"
  THEN deletion[rewriter].kept ELSE {}

\* The ledger of the accounts loses and revives nothing (store.py 379-393): an account
\* that nobody wanted deleted keeps its line, though other requests rewrite the file
\* side by side, and one whose deletion was reported does not come back.  Not so
\* for what was appended during a rewrite, or stood in it when the process died.
AccountsKept ==
  /\ appended \ (asked \cup risked) \subseteq lines \cup ToBeWritten
  /\ (lines \cup ToBeWritten) \cap gone = {}
=============================================================================
