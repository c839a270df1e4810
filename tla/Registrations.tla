--------------------------- MODULE Registrations ---------------------------
(***************************************************************************)
(* Attempts to register an account, and the mail addresses they share.      *)
(* The worker threads of a Grok job go through register_cli.register_one    *)
(* (protocol_register.register_one_protocol, then or instead the browser),  *)
(* those of a GPT job through JobRunner._run_gpt_register and                *)
(* gpt_register_flow; all of one process, they draw on the aliases of the   *)
(* mailboxes of grok_register_ttk, its reservations and its two ledgers.    *)
(*                                                                         *)
(* A mail is known by the attempt that had it sent.  The filter on the time *)
(* of a mail lets mails of an earlier attempt through within its grace, and *)
(* late ones always (Graph goes by the time of receipt): any mail to the    *)
(* address may be taken, whenever it comes.                                 *)
(***************************************************************************)
EXTENDS Naturals, FiniteSets

CONSTANTS
  Workers1, Workers2,  \* threads of the Grok job, and of the GPT job
  Mailboxes, Aliases,  \* Aliases: what random aliases can be drawn, per mailbox
  AliasLimit,          \* hotmail_max_aliases_per_account
  ActiveLimit,         \* hotmail_max_active_aliases_per_account
  Protocol,            \* protocol_register: first without a browser
  MailTries,           \* mail_retry_count
  Accounts1, Accounts2,\* accounts wanted of either job
  MaxAttempts          \* bound on the attempts of a run

ASSUME RegistrationsAssumption ==
  /\ Workers1 \cap Workers2 = {} /\ Protocol \in BOOLEAN
  /\ {AliasLimit, ActiveLimit, MailTries} \subseteq Nat \ {0}
  /\ {Accounts1, Accounts2, MaxAttempts} \subseteq Nat

VARIABLES
  reserved,  \* _hotmail_reserved_aliases
  book,      \* emails_used.txt and emails_error.txt
  thread,    \* worker -> the locals of its attempt
  attempts,  \* how many attempts there have been
  mails,     \* the verification mails sent
  held,      \* held_transient_emails of the GPT job
  wanted,    \* accounts not yet begun, per job
  halted,    \* jobs that were stopped
  released,  \* has the GPT job come to its end, which releases what is held?
  records,   \* the accounts written
  stranded   \* addresses of attempts that raised past their release, or could not be marked

regVars == <<reserved, book, thread, attempts, mails, held, wanted, halted, released,
             records, stranded>>

Threads == Workers1 \cup Workers2
JobOf(w) == IF w \in Workers1 THEN "grok" ELSE "gpt"

\* An address: a mailbox itself, or an alias of it.
Addresses == Mailboxes \X ({"main"} \cup Aliases)
Nowhere   == <<"none", "none">>
Resting   == [pc |-> "idle", way |-> "none", addr |-> Nowhere, no |-> 0, try |-> 0, code |-> 0,
              verdict |-> "none", late |-> FALSE]
FirstWay(w) == CASE w \in Workers2 -> "gpt"
                 [] w \in Workers1 /\ Protocol  -> "protocol"
                 [] w \in Workers1 /\ ~Protocol -> "browser"

InitReg ==
  /\ reserved = {} /\ book = [used |-> {}, failed |-> {}]
  /\ thread = [w \in Threads |-> Resting] /\ attempts = 0 /\ mails = {}
  /\ held = {} /\ wanted = [grok |-> Accounts1, gpt |-> Accounts2]
  /\ halted = {} /\ released = FALSE /\ records = {} /\ stranded = {}

-----------------------------------------------------------------------------
(* hotmail_get_email_and_token, under its lock. *)

AliasesOf(m)   == {a \in Addresses : a[1] = m}
InBook         == book.used \cup book.failed
Consumed(m)    == AliasesOf(m) \cap (InBook \cup reserved)
AvailableUnlessBooked(a) == a \notin InBook   \* mutant: reservations are not looked at
Available(a)   == a \notin reserved /\ a \notin InBook

\* The mailbox itself goes first, then its aliases.
Candidates(m) ==
  LET free == {a \in AliasesOf(m) : Available(a)}
  IN IF <<m, "main">> \in free THEN {<<m, "main">>} ELSE free

Open(m) ==
  /\ Cardinality(Consumed(m)) < AliasLimit
  /\ Cardinality(AliasesOf(m) \cap reserved) < ActiveLimit

-----------------------------------------------------------------------------
(* The way of an attempt through its worker. *)

At(w, p)    == thread[w].pc = p
Way(w)      == thread[w].way
Go(w, p)    == thread' = [thread EXCEPT ![w].pc = p]
Stopped(w)  == JobOf(w) \in halted
Addr(w)     == thread[w].addr

\* The worker takes the next account of its job.
TakeNext(w) ==
  /\ At(w, "idle") /\ ~Stopped(w) /\ wanted[JobOf(w)] > 0
  /\ wanted' = [wanted EXCEPT ![JobOf(w)] = @ - 1]
  /\ thread' = [thread EXCEPT ![w].pc = "pick", ![w].way = FirstWay(w), ![w].try = 1]
  /\ UNCHANGED <<reserved, book, attempts, mails, held, halted, released, records, stranded>>

\* An address, or none is left: the attempt has failed.
Pick(w) ==
  /\ At(w, "pick")
  /\ \/ /\ attempts < MaxAttempts
        /\ \E m \in Mailboxes, a \in Addresses :
             /\ Open(m) /\ a \in Candidates(m)
             /\ reserved' = reserved \cup {a}
             /\ thread' = [thread EXCEPT ![w].pc = "send", ![w].addr = a,
                                         ![w].no = attempts + 1, ![w].late = released]
        /\ attempts' = attempts + 1
     \/ /\ \A m \in Mailboxes : Open(m) => Candidates(m) = {}
        /\ thread' = [thread EXCEPT ![w].pc = "again",
                                    ![w].verdict = "over"]
        /\ UNCHANGED <<reserved, attempts>>
  /\ UNCHANGED <<book, mails, held, wanted, halted, released, records, stranded>>

\* Where the worker goes from an attempt whose address is not to blame.
AfterSoftFree(w) == "free"                     \* mutant: GPT releases at once
AfterSoft(w)     == IF Way(w) = "gpt" THEN "hold" ELSE "free"

PastTheCode(w) == Way(w) = "browser" /\ thread[w].pc \in {"signup", "sso", "write"}

\* The attempt has failed: "hard" is a reason that should_persist_email_error blames on
\* the address, "soft" one that it does not.  It is "over" where no other address is tried:
\* in the browser after the code, for GPT after a hard reason (_gpt_should_retry_error).
Fails(w, reason) ==
  /\ \/ /\ reason = "hard"
        /\ thread' = [thread EXCEPT ![w].pc = "mark",
                                    ![w].verdict = IF Way(w) = "gpt" THEN "over" ELSE "failed"]
     \/ /\ reason = "soft"
        /\ thread' = [thread EXCEPT
                        ![w].pc = AfterSoft(w),
                        ![w].verdict = IF PastTheCode(w) THEN "over" ELSE "failed"]
  /\ UNCHANGED stranded

\* An exception leaves register_one_protocol, or the browser's fill_email_and_submit,
\* before the caller has the address: nobody releases it.
Raises(w) ==
  /\ thread' = [thread EXCEPT ![w].pc = "again", ![w].verdict = "failed", ![w].addr = Nowhere]
  /\ stranded' = stranded \cup {Addr(w)}

Unchanged == UNCHANGED <<reserved, book, attempts, held, wanted, halted, released>>

\* A mail with a code goes out: for an attempt that goes on, or for one that fails before
\* it has heard of it.
WithMail(w)  == mails \cup {[to |-> Addr(w), no |-> thread[w].no, of |-> JobOf(w)]}
Sent(w)      == mails' = WithMail(w) /\ Go(w, "wait") /\ UNCHANGED stranded
PerhapsSent(w) == mails' \in {mails, WithMail(w)}

\* What both a page and a service may do at any time: nothing of what was asked of them.
SoftFails(w) == Fails(w, "soft")
\* An HTTP 401 or 403 of the sign-up service reads like one of the mailbox.
GptFails(w)  == \E reason \in {"hard", "soft"} : Fails(w, reason)

\* The code is asked for: by a call, by a click, or by following where sign-in leads.
ProtocolSend(w) ==
  /\ At(w, "send") /\ Way(w) = "protocol"
  /\ \/ ~Stopped(w) /\ Sent(w)
     \/ (SoftFails(w) \/ Raises(w)) /\ PerhapsSent(w)
  /\ Unchanged /\ UNCHANGED records

BrowserSend(w) ==
  /\ At(w, "send") /\ Way(w) = "browser"
  /\ Sent(w) \/ (Raises(w) /\ PerhapsSent(w))
  /\ Unchanged /\ UNCHANGED records

GptSend(w) ==
  /\ At(w, "send") /\ Way(w) = "gpt"
  /\ Sent(w) \/ (GptFails(w) /\ PerhapsSent(w))
  /\ Unchanged /\ UNCHANGED records

\* Mails of the code to this very address, newest first or not.
Arrived(w) == {m \in mails : m.to = Addr(w)}

\* get_oai_code: a code out of such a mail, or an error.
Read(w) ==
  /\ At(w, "wait")
  /\ \/ \E m \in Arrived(w) :
          /\ thread' = [thread EXCEPT ![w].pc = "verify", ![w].code = m.no]
          /\ UNCHANGED stranded
     \/ \E reason \in {"hard", "soft"} : Fails(w, reason)
  /\ Unchanged /\ UNCHANGED <<mails, records>>

\* Only the code of the attempt itself is right.
RightCode(w) == thread[w].code = thread[w].no
Accepted(w)  == Go(w, "signup") /\ UNCHANGED stranded

ProtocolVerify(w) ==
  /\ At(w, "verify") /\ Way(w) = "protocol"
  /\ \/ RightCode(w) /\ ~Stopped(w) /\ Accepted(w)
     \/ SoftFails(w) \/ Raises(w)
  /\ Unchanged /\ UNCHANGED <<mails, records>>

\* The browser goes on with whatever code it typed.
BrowserVerify(w) ==
  /\ At(w, "verify") /\ Way(w) = "browser"
  /\ Accepted(w) \/ SoftFails(w)
  /\ Unchanged /\ UNCHANGED <<mails, records>>

GptVerify(w) ==
  /\ At(w, "verify") /\ Way(w) = "gpt"
  /\ (RightCode(w) /\ Accepted(w)) \/ GptFails(w)
  /\ Unchanged /\ UNCHANGED <<mails, records>>

\* There is an account: the protocol marks its address before it is written down, the
\* others afterwards.
SignedUp(w, p) ==
  /\ thread' = [thread EXCEPT ![w].pc = p, ![w].verdict = "used"]
  /\ UNCHANGED stranded

\* Profile, captcha and sign-up, in all their tries.
ProtocolSignUp(w) ==
  /\ At(w, "signup") /\ Way(w) = "protocol"
  /\ SignedUp(w, "mark") \/ SoftFails(w) \/ Raises(w)
  /\ Unchanged /\ UNCHANGED <<mails, records>>

BrowserSignUp(w) ==
  /\ At(w, "signup") /\ Way(w) = "browser"
  /\ \/ RightCode(w) /\ Go(w, "sso") /\ UNCHANGED stranded
     \/ SoftFails(w)
  /\ Unchanged /\ UNCHANGED <<mails, records>>

\* wait_for_sso_cookie
SsoCookie(w) ==
  /\ At(w, "sso")
  /\ SignedUp(w, "write") \/ SoftFails(w)
  /\ Unchanged /\ UNCHANGED <<mails, records>>

GptSignUp(w) ==
  /\ At(w, "signup") /\ Way(w) = "gpt"
  /\ SignedUp(w, "write") \/ GptFails(w)
  /\ Unchanged /\ UNCHANGED <<mails, records>>

\* The account is in the file, or the disk is full.
Recorded(w, p) ==
  /\ records' = records \cup {[addr |-> Addr(w), no |-> thread[w].no]}
  /\ Go(w, p) /\ UNCHANGED stranded

\* Then the address is marked once more: to no effect, unless the first mark failed.
Unmarked(w) == thread[w].verdict = "unmarked"

ProtocolWrite(w) ==
  /\ At(w, "write") /\ Way(w) = "protocol"
  /\ \/ Recorded(w, IF Unmarked(w) THEN "mark" ELSE "again")
     \/ /\ Go(w, "again") /\ UNCHANGED records
        /\ stranded' = IF Unmarked(w) THEN stranded \cup {Addr(w)} ELSE stranded
  /\ Unchanged /\ UNCHANGED mails

Write(w) ==
  /\ At(w, "write") /\ Way(w) # "protocol"
  /\ Recorded(w, "mark") \/ (SoftFails(w) /\ UNCHANGED records)
  /\ Unchanged /\ UNCHANGED mails

Marked(w) == LET l == IF thread[w].verdict \in {"used", "unmarked"} THEN "used" ELSE "failed"
             IN [book EXCEPT ![l] = @ \cup {Addr(w)}]

\* mark_used and mark_error: first the ledger ...
MarkLedger(w) ==
  /\ At(w, "mark")
  /\ book' = Marked(w)
  /\ Go(w, "free")
  /\ UNCHANGED <<reserved, attempts, mails, held, wanted, halted, released, records, stranded>>

\* ... or it cannot be written, to the end or at all, and the address is not released.  The
\* browser's own handler then releases that of an account, the protocol goes on to a second
\* mark; all others swallow it.
MarkFails(w) ==
  /\ At(w, "mark")
  /\ book' \in {book, Marked(w)}
  /\ \/ /\ Way(w) = "browser" /\ thread[w].verdict = "used"
        /\ thread' = [thread EXCEPT ![w].pc = "free", ![w].verdict = "over"]
        /\ UNCHANGED stranded
     \/ /\ Way(w) = "protocol" /\ thread[w].verdict = "used"
        /\ thread' = [thread EXCEPT ![w].pc = "write", ![w].verdict = "unmarked"]
        /\ UNCHANGED stranded
     \/ /\ Way(w) = "gpt" \/ thread[w].verdict # "used"
        /\ Go(w, "again")
        /\ stranded' = stranded \cup {Addr(w)}
  /\ UNCHANGED <<reserved, attempts, mails, held, wanted, halted, released, records>>

\* ... then release_email.
Free(w) ==
  /\ At(w, "free")
  /\ reserved' = reserved \ {Addr(w)}
  /\ held' = held \ {Addr(w)}
  /\ Go(w, IF Way(w) = "protocol" /\ thread[w].verdict = "used" THEN "write" ELSE "again")
  /\ UNCHANGED <<book, attempts, mails, wanted, halted, released, records, stranded>>

\* A GPT attempt that failed keeps its address, until the job ends.
Hold(w) ==
  /\ At(w, "hold")
  /\ held' = held \cup {Addr(w)}
  /\ Go(w, "again")
  /\ UNCHANGED <<reserved, book, attempts, mails, wanted, halted, released, records, stranded>>

\* Another address, another way, or the end of this account.
Again(w) ==
  /\ At(w, "again")
  /\ \/ /\ thread[w].verdict = "failed" /\ Way(w) # "protocol" /\ thread[w].try < MailTries
        /\ Way(w) = "gpt" => ~Stopped(w)
        /\ thread' = [thread EXCEPT ![w] = [Resting EXCEPT !.pc = "pick", !.way = Way(w),
                                                          !.try = thread[w].try + 1]]
     \/ /\ thread[w].verdict \in {"failed", "over"} /\ Way(w) = "protocol"
        /\ thread' = [thread EXCEPT ![w] = [Resting EXCEPT !.pc = "pick", !.way = "browser",
                                                          !.try = 1]]
     \/ thread' = [thread EXCEPT ![w] = Resting]
  /\ UNCHANGED <<reserved, book, attempts, mails, held, wanted, halted, released, records,
                 stranded>>

-----------------------------------------------------------------------------
Halt(j) ==
  /\ j \notin halted
  /\ halted' = halted \cup {j}
  /\ UNCHANGED <<reserved, book, thread, attempts, mails, held, wanted, released, records,
                 stranded>>

ReleasedOf(R) == R                             \* mutant: what is held is forgotten
ReleasedHeld(R) == R \ held

\* The GPT job does not wait for its workers once it was stopped.
EndGpt ==
  /\ ~released
  /\ "gpt" \in halted \/ (wanted.gpt = 0 /\ \A w \in Workers2 : At(w, "idle"))
  /\ released' = TRUE
  /\ reserved' = ReleasedHeld(reserved) /\ held' = {}
  /\ UNCHANGED <<book, thread, attempts, mails, wanted, halted, records, stranded>>

NextReg ==
  \/ \E w \in Threads :
       \/ TakeNext(w) \/ Pick(w) \/ Read(w)
       \/ ProtocolSend(w) \/ ProtocolVerify(w) \/ ProtocolSignUp(w) \/ ProtocolWrite(w)
       \/ BrowserSend(w) \/ BrowserVerify(w) \/ BrowserSignUp(w) \/ SsoCookie(w)
       \/ GptSend(w) \/ GptVerify(w) \/ GptSignUp(w) \/ Write(w)
       \/ MarkLedger(w) \/ MarkFails(w) \/ Free(w) \/ Hold(w) \/ Again(w)
  \/ \E j \in {"grok", "gpt"} : Halt(j)
  \/ EndGpt

RegSpec == InitReg /\ [][NextReg]_regVars

-----------------------------------------------------------------------------
(* Properties *)

RegTypeOK ==
  /\ reserved \subseteq Addresses /\ held \subseteq Addresses /\ stranded \subseteq Addresses
  /\ book \in [used : SUBSET Addresses, failed : SUBSET Addresses]
  /\ thread \in [Threads ->
       [pc : {"idle", "pick", "send", "wait", "verify", "signup", "sso", "write", "mark", "free",
              "hold", "again"},
        way : {"none", "gpt", "protocol", "browser"}, addr : Addresses \cup {Nowhere},
        no : 0 .. MaxAttempts, try : 0 .. MailTries, code : 0 .. MaxAttempts,
        verdict : {"none", "used", "unmarked", "failed", "over"}, late : BOOLEAN]]
  /\ attempts \in 0 .. MaxAttempts
  /\ mails \subseteq [to : Addresses, no : 1 .. MaxAttempts, of : {"grok", "gpt"}]
  /\ records \subseteq [addr : Addresses, no : 1 .. MaxAttempts]
  /\ halted \subseteq {"grok", "gpt"} /\ released \in BOOLEAN

\* The worker has an address that it must yet release.
Busy(w) ==
  \/ thread[w].pc \in {"send", "wait", "verify", "signup", "sso", "mark", "free",
                        "hold"}
  \/ At(w, "write") /\ (Way(w) # "protocol" \/ thread[w].verdict = "unmarked")

\* An address is with one attempt at a time, and once it is in a ledger with none whose
\* outcome is still open (grok_register_ttk.py 2229-2289): the ledger is written before the
\* reservation goes (129-142).
AddressOnce ==
  /\ \A w, v \in Threads : w # v /\ Busy(w) /\ Busy(v) => Addr(w) # Addr(v)
  /\ \A w \in Threads : Busy(w) /\ thread[w].verdict = "none" => Addr(w) \notin InBook

\* Whatever way an attempt ends, its address is released, or held by the GPT job, except
\* where an exception takes the address with it (protocol_register.py 971, 1019, 1091,
\* 1133; grok_register_ttk.py 3550) or its ledger cannot be written (129-142).
ReservationsAccounted ==
  reserved = {Addr(w) : w \in {v \in Threads : Busy(v)}} \cup held \cup stranded

\* What the GPT job holds addresses for (jobs.py 140-143): while it lasts, no attempt of
\* it reads the code that an earlier attempt of it had sent.
HeldNoOldCode ==
  \A w \in Workers2, m \in mails :
    At(w, "verify") /\ ~thread[w].late /\ m.no = thread[w].code
      => m.of = "grok" \/ m.no = thread[w].no
=============================================================================
