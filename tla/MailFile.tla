------------------------------ MODULE MailFile ------------------------------
(***************************************************************************)
(* mail_credentials.txt, the mailboxes of the registrations.  Registering   *)
(* threads keep the list in memory and look at the time of the file before  *)
(* they use it (grok_register_ttk._hotmail_load_accounts); they write       *)
(* renewed refresh tokens back into it (_hotmail_update_refresh_token_file),*)
(* both under _hotmail_accounts_lock.  The WebUI imports and deletes        *)
(* mailboxes under a lock of its own (webui/store.py).  Every write empties *)
(* the file first.                                                          *)
(***************************************************************************)
EXTENDS Naturals

CONSTANTS
  Drawers,       \* registering threads
  Boxes,         \* mailboxes
  NoDrawer,
  MaxStamp       \* bound on the changes of the file

ASSUME MailFileAssumption == NoDrawer \notin Drawers /\ MaxStamp \in Nat

VARIABLES
  mailFile,   \* the mailboxes the file lists
  stamp,      \* its modification time
  edit,       \* the locals of the WebUI's request
  list,       \* _hotmail_accounts_cache and _hotmail_accounts_mtime
  drawer,     \* thread -> its locals
  fileLock,   \* the thread that holds _hotmail_accounts_lock, or NoDrawer
  covered     \* history: a token was written into a file the list is not of

mailFileVars == <<mailFile, stamp, edit, list, drawer, fileLock, covered>>

NoEdit  == [pc |-> "none", next |-> {}]
Drawing == [pc |-> "idle", seen |-> 0, copy |-> {}]

InitMailFile ==
  /\ mailFile \in SUBSET Boxes /\ stamp = 1
  /\ edit = NoEdit
  /\ list = [loaded |-> FALSE, boxes |-> {}, stamp |-> 0]
  /\ drawer = [w \in Drawers |-> Drawing] /\ fileLock = NoDrawer
  /\ covered = FALSE

Changed(boxes) == mailFile' = boxes /\ stamp' = stamp + 1

-----------------------------------------------------------------------------
(* The WebUI: import_mail_credentials, delete_mail_credentials. *)

EditReads ==
  /\ edit.pc = "none" /\ stamp < MaxStamp
  /\ \E boxes \in (SUBSET Boxes) \ {{}} :
       \E next \in {mailFile \cup boxes, boxes, mailFile \ boxes} :
         edit' = [pc |-> "read", next |-> next]
  /\ UNCHANGED <<mailFile, stamp, list, drawer, fileLock, covered>>

EditTruncates ==
  /\ edit.pc = "read"
  /\ Changed({})
  /\ edit' = [edit EXCEPT !.pc = "truncated"]
  /\ UNCHANGED <<list, drawer, fileLock, covered>>

EditWrites ==
  /\ edit.pc = "truncated"
  /\ Changed(edit.next)
  /\ edit' = NoEdit
  /\ UNCHANGED <<list, drawer, fileLock, covered>>

-----------------------------------------------------------------------------
(* A registering thread. *)

\* _hotmail_load_accounts: the time of the file, before the lock ...
LoadStat(w) ==
  /\ drawer[w].pc = "idle"
  /\ drawer' = [drawer EXCEPT ![w] = [Drawing EXCEPT !.pc = "stat", !.seen = stamp]]
  /\ UNCHANGED <<mailFile, stamp, edit, list, fileLock, covered>>

\* ... under which the list is good if it is of that time, ...
LoadHit(w) ==
  /\ drawer[w].pc = "stat" /\ fileLock = NoDrawer
  /\ list.loaded /\ list.stamp = drawer[w].seen
  /\ drawer' = [drawer EXCEPT ![w].pc = "using"]
  /\ UNCHANGED <<mailFile, stamp, edit, list, fileLock, covered>>

\* ... or is read anew, ...
LoadRead(w) ==
  /\ drawer[w].pc = "stat" /\ fileLock = NoDrawer
  /\ ~list.loaded \/ list.stamp # drawer[w].seen
  /\ fileLock' = w
  /\ drawer' = [drawer EXCEPT ![w].pc = "loading", ![w].copy = mailFile]
  /\ UNCHANGED <<mailFile, stamp, edit, list, covered>>

\* ... and noted with the time that was looked at; an empty file is an error.
StampAfter(w) == stamp                             \* mutant: looked at after reading
StampOf(w)    == drawer[w].seen

LoadPublish(w) ==
  /\ drawer[w].pc = "loading"
  /\ fileLock' = NoDrawer
  /\ \/ /\ drawer[w].copy # {}
        /\ list' = [loaded |-> TRUE, boxes |-> drawer[w].copy, stamp |-> StampOf(w)]
        /\ drawer' = [drawer EXCEPT ![w].pc = "using"]
        /\ covered' = FALSE
     \/ /\ drawer[w].copy = {}
        /\ drawer' = [drawer EXCEPT ![w] = Drawing]
        /\ UNCHANGED <<list, covered>>
  /\ UNCHANGED <<mailFile, stamp, edit>>

\* The attempt with a mailbox ends without a new refresh token ...
Done(w) ==
  /\ drawer[w].pc = "using"
  /\ drawer' = [drawer EXCEPT ![w] = Drawing]
  /\ UNCHANGED <<mailFile, stamp, edit, list, fileLock, covered>>

\* ... or with one: it goes into the line of the mailbox, if the file has one ...
TokenReads(w) ==
  /\ drawer[w].pc = "using" /\ fileLock = NoDrawer /\ stamp < MaxStamp
  /\ \E box \in list.boxes :
       IF box \in mailFile
       THEN /\ fileLock' = w
            /\ drawer' = [drawer EXCEPT ![w].pc = "renewed", ![w].copy = mailFile]
       ELSE /\ drawer' = [drawer EXCEPT ![w] = Drawing]
            /\ UNCHANGED fileLock
  /\ UNCHANGED <<mailFile, stamp, edit, list, covered>>

TokenTruncates(w) ==
  /\ drawer[w].pc = "renewed"
  /\ Changed({})
  /\ drawer' = [drawer EXCEPT ![w].pc = "emptied"]
  /\ UNCHANGED <<edit, list, fileLock, covered>>

TokenWrites(w) ==
  /\ drawer[w].pc = "emptied"
  /\ Changed(drawer[w].copy)
  /\ drawer' = [drawer EXCEPT ![w].pc = "written"]
  /\ UNCHANGED <<edit, list, fileLock, covered>>

\* ... and the list is taken to be of the time the file has then.
TokenStamps(w) ==
  /\ drawer[w].pc = "written"
  /\ list' = [list EXCEPT !.stamp = stamp]
  /\ covered' = (list.boxes # mailFile)
  /\ fileLock' = NoDrawer
  /\ drawer' = [drawer EXCEPT ![w] = Drawing]
  /\ UNCHANGED <<mailFile, stamp, edit>>

NextMailFile ==
  \/ EditReads \/ EditTruncates \/ EditWrites
  \/ \E w \in Drawers :
       \/ LoadStat(w) \/ LoadHit(w) \/ LoadRead(w) \/ LoadPublish(w) \/ Done(w)
       \/ TokenReads(w) \/ TokenTruncates(w) \/ TokenWrites(w) \/ TokenStamps(w)

MailFileSpec == InitMailFile /\ [][NextMailFile]_mailFileVars

-----------------------------------------------------------------------------
(* Properties *)

MailFileTypeOK ==
  /\ mailFile \subseteq Boxes /\ stamp \in Nat
  /\ edit \in [pc : {"none", "read", "truncated"}, next : SUBSET Boxes]
  /\ list \in [loaded : BOOLEAN, boxes : SUBSET Boxes, stamp : Nat]
  /\ drawer \in [Drawers -> [pc : {"idle", "stat", "loading", "using", "renewed", "emptied",
                                   "written"},
                             seen : Nat, copy : SUBSET Boxes]]
  /\ fileLock \in Drawers \cup {NoDrawer}
  /\ covered \in BOOLEAN

\* A list in memory that passes for the file's has its mailboxes (grok_register_ttk.py
\* 2107-2137), however loads, imports, deletions and returned tokens fall together, but
\* for one case: the time noted after a token was written back also covers a change the
\* list has not seen (2328-2331), and an imported mailbox stays unknown until the next.
MailboxesCurrent ==
  list.loaded /\ list.stamp = stamp => list.boxes = mailFile \/ covered
=============================================================================
