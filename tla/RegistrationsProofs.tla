------------------------- MODULE RegistrationsProofs -------------------------
(***************************************************************************)
(* AddressOnce, ReservationsAccounted and HeldNoOldCode for any number of   *)
(* registering threads of both jobs, of mailboxes and aliases, of tries and *)
(* of accounts.  The first two are inductive together: that an address is   *)
(* with one attempt rests on what the reservations consist of.  Last, the   *)
(* types.                                                                   *)
(***************************************************************************)
EXTENDS Registrations, TLAPS

\* All that is needed of the shape of the threads' locals.
Local(r) == {"pc", "way", "addr", "verdict"} \subseteq DOMAIN r
Shaped   == DOMAIN thread = Threads /\ \A w \in Threads : Local(thread[w])

\* The reservations divide into those of attempts, those held, and those lost.
Divided ==
  /\ \A w \in Threads : Busy(w) => Addr(w) \notin held \cup stranded
  /\ held \cap stranded = {}

\* Only the browser waits for a cookie (a protocol attempt that writes and has been marked is
\* done with its address, another is not), and an attempt that is written down or marked has
\* an outcome.
Decided(r) ==
  /\ r.pc = "sso" => r.way # "protocol"
  /\ r.pc \in {"write", "mark"} => r.verdict # "none"
Decisions == \A w \in Threads : Decided(thread[w])

RegInv == Shaped /\ Decisions /\ Divided /\ AddressOnce /\ ReservationsAccounted

-----------------------------------------------------------------------------
(* What a step does to the locals of the thread that takes it. *)

Others(w) == /\ DOMAIN thread' = Threads
             /\ \A v \in Threads \ {w} : thread'[v] = thread[v]

\* The thread goes to p with the address it has, the way it is on.
Moves(w, p) ==
  /\ Others(w) /\ Local(thread'[w])
  /\ thread'[w].pc = p /\ thread'[w].way = thread[w].way /\ thread'[w].addr = thread[w].addr
  /\ thread'[w].verdict = "none" => thread[w].verdict = "none"

\* Places of an attempt that has its address ...
Places == {"send", "wait", "verify", "signup", "sso", "mark", "hold"}
\* ... and a write on the way of the browser, of a GPT attempt, or before a second mark.
Clear(w) == \/ thread[w].pc \in Places
            \/ At(w, "write") /\ (Way(w) # "protocol" \/ thread[w].verdict = "unmarked")

\* The ledgers stay, or the address that is being marked comes into one.
MayBook(w) == \/ UNCHANGED book
              \/ At(w, "mark") /\ InBook' \subseteq InBook \cup {Addr(w)}

LEMMA GoMoves ==
  ASSUME Shaped, NEW w \in Threads, NEW p, Go(w, p)
  PROVE  Moves(w, p)
BY DEF Shaped, Local, Go, Moves, Others

\* With its address from one place to another.
LEMMA MoveKeeps ==
  ASSUME RegInv, NEW w \in Threads, Clear(w), MayBook(w),
         NEW p, Moves(w, p), UNCHANGED <<reserved, held, stranded>>, Decided(thread'[w]),
         \/ p \in Places \cup {"free"}
         \/ p = "write" /\ (Way(w) # "protocol" \/ thread'[w].verdict = "unmarked")
  PROVE  RegInv'
<1>1. \A v \in Threads : Busy(v)' <=> Busy(v)
  BY DEF Busy, Clear, Places, Moves, Others, At, Way
<1>2. \A v \in Threads : Addr(v)' = Addr(v)
  BY DEF Moves, Others, Addr
<1>3. \A v \in Threads : thread'[v].verdict = "none" => thread[v].verdict = "none"
  BY DEF Moves, Others
<1>4. Shaped' /\ Decisions'
  BY DEF RegInv, Shaped, Decisions, Moves, Others
<1>5. Busy(w)
  BY DEF Clear, Places, Busy, At
<1>6. Divided'
  BY <1>1, <1>2 DEF RegInv, Divided
<1>7. AddressOnce'
  <2>1. \A v \in Threads \ {w} : Busy(v) => Addr(v) # Addr(w)
    BY <1>5 DEF RegInv, AddressOnce
  <2>2. \/ InBook' \subseteq InBook
        \/ InBook' \subseteq InBook \cup {Addr(w)} /\ thread[w].verdict # "none"
    BY DEF MayBook, InBook, RegInv, Decisions, Decided, At
  <2> QED
    BY <1>1, <1>2, <1>3, <2>1, <2>2 DEF RegInv, AddressOnce
<1>8. ReservationsAccounted'
  <2>1. {Addr(v) : v \in {u \in Threads : Busy(u)}}' = {Addr(v) : v \in {u \in Threads : Busy(u)}}
    BY <1>1, <1>2
  <2> QED
    BY <2>1 DEF RegInv, ReservationsAccounted
<1> QED
  BY <1>4, <1>6, <1>7, <1>8 DEF RegInv

\* Without an address, to another place without one.
Away == {"idle", "pick", "again"}

LEMMA AwayKeeps ==
  ASSUME RegInv, NEW w \in Threads, ~Busy(w), Others(w), Local(thread'[w]),
         thread'[w].pc \in Away, UNCHANGED <<reserved, book, held, stranded>>
  PROVE  RegInv'
<1>1. \A v \in Threads : Busy(v)' <=> Busy(v)
  BY DEF Busy, Away, Others, At, Way
<1>2. \A v \in Threads : Busy(v) => Addr(v)' = Addr(v) /\ thread'[v] = thread[v]
  BY DEF Others, Addr
<1>3. Shaped' /\ Decisions'
  BY DEF RegInv, Shaped, Decisions, Decided, Away, Others
<1>4. InBook' = InBook
  BY DEF InBook
<1>5. Divided'
  BY <1>1, <1>2 DEF RegInv, Divided
<1>6. AddressOnce'
  BY <1>1, <1>2, <1>4 DEF RegInv, AddressOnce
<1>7. ReservationsAccounted'
  <2>1. {Addr(v) : v \in {u \in Threads : Busy(u)}}' = {Addr(v) : v \in {u \in Threads : Busy(u)}}
    BY <1>1, <1>2
  <2> QED
    BY <2>1 DEF RegInv, ReservationsAccounted
<1> QED
  BY <1>3, <1>5, <1>6, <1>7 DEF RegInv

\* The thread gives its address to S, one of the sets of what is reserved, or to none.
LEMMA LeaveKeeps ==
  ASSUME RegInv, NEW w \in Threads, Busy(w), Others(w), Local(thread'[w]), ~Busy(w)',
         Decided(thread'[w]), MayBook(w),
         \/ /\ held' = held \cup {Addr(w)} /\ UNCHANGED <<stranded, reserved>>
         \/ /\ stranded' = stranded \cup {Addr(w)} /\ UNCHANGED <<held, reserved>>
         \/ /\ reserved' = reserved \ {Addr(w)} /\ held' = held \ {Addr(w)}
            /\ UNCHANGED stranded
  PROVE  RegInv'
<1>1. \A v \in Threads \ {w} : (Busy(v)' <=> Busy(v)) /\ Addr(v)' = Addr(v)
                               /\ thread'[v] = thread[v]
  BY DEF Busy, Others, At, Way, Addr
<1>2. \A v \in Threads \ {w} : Busy(v) => Addr(v) # Addr(w)
  BY DEF RegInv, AddressOnce
<1>3. Addr(w) \notin held \cup stranded
  BY DEF RegInv, Divided
<1>4. Shaped' /\ Decisions'
  BY DEF RegInv, Shaped, Decisions, Others
<1>5. InBook' \subseteq InBook \cup {Addr(w)}
  BY DEF InBook, MayBook
<1>6. Divided'
  BY <1>1, <1>2, <1>3 DEF RegInv, Divided
<1>7. AddressOnce'
  BY <1>1, <1>2, <1>5 DEF RegInv, AddressOnce
<1>8. ReservationsAccounted'
  <2> DEFINE Rest == {Addr(v) : v \in {u \in Threads \ {w} : Busy(u)}}
  <2>1. {Addr(v) : v \in {u \in Threads : Busy(u)}} = Rest \cup {Addr(w)}
    OBVIOUS
  <2>2. {Addr(v) : v \in {u \in Threads : Busy(u)}}' = Rest
    BY <1>1
  <2>3. Addr(w) \notin Rest
    BY <1>2
  <2> HIDE DEF Rest
  <2> QED
    BY <2>1, <2>2, <2>3, <1>3 DEF RegInv, ReservationsAccounted
<1> QED
  BY <1>4, <1>6, <1>7, <1>8 DEF RegInv

-----------------------------------------------------------------------------
(* The steps of the model, in these terms. *)

LEMMA FailsKeeps ==
  ASSUME RegInv, NEW w \in Threads, Clear(w), NEW reason, Fails(w, reason),
         UNCHANGED <<reserved, book, held>>
  PROVE  RegInv'
<1>1. PICK p \in {"mark", "hold", "free"} : \E verdict \in {"over", "failed"} :
        thread' = [thread EXCEPT ![w].pc = p, ![w].verdict = verdict]
  BY DEF Fails, AfterSoft
<1>2. Moves(w, p) /\ Decided(thread'[w])
  BY <1>1 DEF RegInv, Shaped, Local, Moves, Others, Decided
<1> QED
  BY <1>2, MoveKeeps DEF Fails, Places, MayBook

LEMMA RaisesKeeps ==
  ASSUME RegInv, NEW w \in Threads, Clear(w), Raises(w), UNCHANGED <<reserved, book, held>>
  PROVE  RegInv'
<1>1. Others(w) /\ Local(thread'[w]) /\ thread'[w].pc = "again"
  BY DEF RegInv, Shaped, Local, Raises, Others
<1>2. Busy(w) /\ ~Busy(w)' /\ Decided(thread'[w])
  BY <1>1 DEF Clear, Places, Busy, At, Way, Decided
<1> QED
  BY <1>1, <1>2, LeaveKeeps DEF Raises, MayBook

LEMMA GoKeeps ==
  ASSUME RegInv, NEW w \in Threads, Clear(w), NEW p, Go(w, p),
         UNCHANGED <<reserved, book, held, stranded>>,
         \/ p \in {"wait", "signup"}
         \/ p = "sso" /\ Way(w) # "protocol"
         \/ p = "mark" /\ At(w, "write")
  PROVE  RegInv'
<1>1. Moves(w, p)
  BY GoMoves DEF RegInv
<1>2. thread'[w].verdict = thread[w].verdict
  BY DEF Go, RegInv, Shaped, Local
<1>3. Decided(thread'[w])
  BY <1>1, <1>2 DEF Moves, RegInv, Decisions, Decided, At, Way
<1> QED
  BY <1>1, <1>3, MoveKeeps DEF Places, MayBook

LEMMA SignedUpKeeps ==
  ASSUME RegInv, NEW w \in Threads, Clear(w), NEW p, SignedUp(w, p),
         UNCHANGED <<reserved, book, held>>,
         p = "mark" \/ (p = "write" /\ Way(w) # "protocol")
  PROVE  RegInv'
<1>1. Moves(w, p) /\ Decided(thread'[w])
  BY DEF SignedUp, RegInv, Shaped, Local, Moves, Others, Decided
<1> QED
  BY <1>1, MoveKeeps DEF SignedUp, Places, MayBook

\* The address that is picked is neither reserved nor booked.
LEMMA PickKeeps == ASSUME RegInv, NEW w \in Threads, Pick(w) PROVE RegInv'
<1>1. CASE \E m \in Mailboxes, a \in Addresses :
             /\ Open(m) /\ a \in Candidates(m)
             /\ reserved' = reserved \cup {a}
             /\ thread' = [thread EXCEPT ![w].pc = "send", ![w].addr = a,
                                         ![w].no = attempts + 1, ![w].late = released]
  <2>1. PICK m, a : /\ a \in Candidates(m) /\ reserved' = reserved \cup {a}
                    /\ thread' = [thread EXCEPT ![w].pc = "send", ![w].addr = a,
                                         ![w].no = attempts + 1, ![w].late = released]
    BY <1>1
  <2>2. a \notin reserved /\ a \notin InBook
    BY <2>1 DEF Candidates, Available
  <2>3. Others(w) /\ Local(thread'[w]) /\ thread'[w].pc = "send" /\ thread'[w].addr = a
    BY <2>1 DEF RegInv, Shaped, Local, Others
  <2>4. UNCHANGED <<book, held, stranded>> /\ ~Busy(w)
    BY DEF Pick, Busy, At
  <2>5. \A v \in Threads \ {w} : (Busy(v)' <=> Busy(v)) /\ Addr(v)' = Addr(v)
                                 /\ thread'[v] = thread[v]
    BY <2>3 DEF Others, Busy, At, Way, Addr
  <2>6. a \notin held \cup stranded /\ \A v \in Threads : Busy(v) => Addr(v) # a
    BY <2>2 DEF RegInv, ReservationsAccounted
  <2>7. Busy(w)' /\ Decided(thread'[w]) /\ Addr(w)' = a
    BY <2>3 DEF Busy, At, Addr, Decided
  <2>8. Shaped' /\ Decisions'
    BY <2>3, <2>5, <2>7 DEF RegInv, Shaped, Decisions, Others
  <2>9. Divided'
    BY <2>4, <2>5, <2>6, <2>7 DEF RegInv, Divided
  <2>10. InBook' = InBook
    BY <2>4 DEF InBook
  <2>11. AddressOnce'
    BY <2>2, <2>5, <2>6, <2>7, <2>10 DEF RegInv, AddressOnce, At
  <2>12. ReservationsAccounted'
    <3> DEFINE Rest == {Addr(v) : v \in {u \in Threads \ {w} : Busy(u)}}
    <3>1. {Addr(v) : v \in {u \in Threads : Busy(u)}} = Rest
      BY <2>4
    <3>2. {Addr(v) : v \in {u \in Threads : Busy(u)}}' = Rest \cup {a}
      BY <2>5, <2>7
    <3> HIDE DEF Rest
    <3> QED
      BY <2>1, <2>4, <3>1, <3>2 DEF RegInv, ReservationsAccounted
  <2> QED
    BY <2>8, <2>9, <2>11, <2>12 DEF RegInv
<1>2. CASE thread' = [thread EXCEPT ![w].pc = "again", ![w].verdict = "over"]
           /\ UNCHANGED reserved
  <2>1. Others(w) /\ Local(thread'[w]) /\ thread'[w].pc = "again"
    BY <1>2 DEF RegInv, Shaped, Local, Others
  <2>2. ~Busy(w) /\ UNCHANGED <<book, held, stranded>>
    BY DEF Pick, Busy, At
  <2> QED
    BY <1>2, <2>1, <2>2, AwayKeeps DEF Away
<1> QED
  BY <1>1, <1>2 DEF Pick

LEMMA MarkedBooks ==
  ASSUME NEW w \in Threads, At(w, "mark"), book' \in {book, Marked(w)} PROVE MayBook(w)
<1>1. PICK l : Marked(w) = [book EXCEPT ![l] = @ \cup {Addr(w)}]
  BY DEF Marked
<1>2. CASE book' = book
  BY <1>2 DEF MayBook
<1>3. CASE book' = [book EXCEPT ![l] = @ \cup {Addr(w)}]
  <2>1. book'.used \subseteq book.used \cup {Addr(w)}
        /\ book'.failed \subseteq book.failed \cup {Addr(w)}
    BY <1>3
  <2> QED
    BY <2>1 DEF MayBook, InBook
<1> QED
  BY <1>1, <1>2, <1>3

LEMMA MarkKeeps == ASSUME RegInv, NEW w \in Threads, MarkLedger(w) PROVE RegInv'
<1>1. Moves(w, "free") /\ Clear(w) /\ UNCHANGED <<reserved, held, stranded>>
  BY GoMoves DEF MarkLedger, RegInv, Clear, Places, At
<1>2. Decided(thread'[w])
  BY <1>1 DEF Moves, Decided
<1>3. MayBook(w)
  BY MarkedBooks DEF MarkLedger
<1> QED
  BY <1>1, <1>2, <1>3, MoveKeeps

\* A ledger that cannot be written leaves the address with its attempt, or strands it.
LEMMA MarkFailsKeeps == ASSUME RegInv, NEW w \in Threads, MarkFails(w) PROVE RegInv'
<1>1. /\ Clear(w) /\ Busy(w) /\ MayBook(w) /\ UNCHANGED <<reserved, held>>
  BY MarkedBooks DEF MarkFails, Clear, Places, Busy, At
<1>2. ASSUME NEW p, NEW v,
             \/ p = "free" /\ v = "over"
             \/ p = "write" /\ v = "unmarked",
             thread' = [thread EXCEPT ![w].pc = p, ![w].verdict = v], UNCHANGED stranded
      PROVE  RegInv'
  <2>1. Moves(w, p) /\ Decided(thread'[w]) /\ thread'[w].verdict = v
    BY <1>2 DEF RegInv, Shaped, Local, Moves, Others, Decided
  <2> QED
    BY <1>1, <1>2, <2>1, MoveKeeps
<1>3. ASSUME Go(w, "again"), stranded' = stranded \cup {Addr(w)} PROVE RegInv'
  <2>1. Moves(w, "again")
    BY <1>3, GoMoves DEF RegInv
  <2>2. ~Busy(w)' /\ Decided(thread'[w])
    BY <2>1 DEF Moves, Busy, At, Decided
  <2> QED
    BY <1>1, <1>3, <2>1, <2>2, LeaveKeeps DEF Moves
<1> QED
  BY <1>2, <1>3 DEF MarkFails

LEMMA FreeKeeps == ASSUME RegInv, NEW w \in Threads, Free(w) PROVE RegInv'
<1>1. PICK p : Go(w, p) /\ (p = "again" \/ (p = "write" /\ Way(w) = "protocol"
                                               /\ thread[w].verdict = "used"))
  BY DEF Free
<1>2. Moves(w, p)
  BY <1>1, GoMoves DEF RegInv
<1>3. Busy(w) /\ thread'[w].verdict = thread[w].verdict
  BY <1>1 DEF Free, Busy, Go, RegInv, Shaped, Local, At
<1>4. ~Busy(w)' /\ Decided(thread'[w])
  BY <1>1, <1>2, <1>3 DEF Busy, At, Way, Moves, Decided
<1> QED
  BY <1>2, <1>3, <1>4, LeaveKeeps DEF Free, Moves, MayBook

LEMMA HoldKeeps == ASSUME RegInv, NEW w \in Threads, Hold(w) PROVE RegInv'
<1>1. Moves(w, "again")
  BY GoMoves DEF RegInv, Hold
<1>2. Busy(w) /\ ~Busy(w)' /\ Decided(thread'[w])
  BY <1>1 DEF Hold, Busy, At, Way, Moves, Decided
<1> QED
  BY <1>1, <1>2, LeaveKeeps DEF Hold, Moves, MayBook

\* What the job releases at its end was with no attempt.
LEMMA EndGptKeeps == ASSUME RegInv, EndGpt PROVE RegInv'
<1>1. /\ UNCHANGED <<thread, book, stranded>> /\ held' = {}
      /\ reserved' = reserved \ held
  BY DEF EndGpt, ReleasedHeld
<1>2. \A v \in Threads : (Busy(v)' <=> Busy(v)) /\ Addr(v)' = Addr(v)
  BY <1>1 DEF Busy, At, Way, Addr
<1>3. Shaped' /\ Decisions' /\ Divided'
  BY <1>1, <1>2 DEF RegInv, Shaped, Decisions, Divided
<1>4. AddressOnce'
  BY <1>1, <1>2 DEF RegInv, AddressOnce, InBook
<1>5. ReservationsAccounted'
  <2>1. {Addr(v) : v \in {u \in Threads : Busy(u)}}' = {Addr(v) : v \in {u \in Threads : Busy(u)}}
    BY <1>2
  <2> QED
    BY <1>1, <2>1 DEF RegInv, Divided, ReservationsAccounted
<1> QED
  BY <1>3, <1>4, <1>5 DEF RegInv

LEMMA StandKeeps ==
  ASSUME RegInv, UNCHANGED <<reserved, book, thread, held, stranded>> PROVE RegInv'
BY DEF RegInv, Shaped, Decisions, Divided, AddressOnce, ReservationsAccounted, Busy, At,
       Way, Addr, InBook

LEMMA RegInit == InitReg => RegInv
BY DEF InitReg, RegInv, Shaped, Local, Decisions, Decided, Divided, AddressOnce,
       ReservationsAccounted, Busy, At, Way, Addr, Resting

LEMMA RegStep == RegInv /\ [NextReg]_regVars => RegInv'
<1> SUFFICES ASSUME RegInv, [NextReg]_regVars PROVE RegInv'
  OBVIOUS
<1> DEFINE Step(w) ==
      \/ TakeNext(w) \/ Pick(w) \/ Read(w)
      \/ ProtocolSend(w) \/ ProtocolVerify(w) \/ ProtocolSignUp(w) \/ ProtocolWrite(w)
      \/ BrowserSend(w) \/ BrowserVerify(w) \/ BrowserSignUp(w) \/ SsoCookie(w)
      \/ GptSend(w) \/ GptVerify(w) \/ GptSignUp(w) \/ Write(w)
      \/ MarkLedger(w) \/ MarkFails(w) \/ Free(w) \/ Hold(w) \/ Again(w)
<1>1. CASE UNCHANGED regVars
  BY <1>1, StandKeeps DEF regVars
<1>2. ASSUME NEW j \in {"grok", "gpt"}, Halt(j) PROVE RegInv'
  BY <1>2, StandKeeps DEF Halt
<1>3. CASE EndGpt
  BY <1>3, EndGptKeeps
<1>4. ASSUME NEW w \in Threads, Step(w) PROVE RegInv'
  <2>1. CASE TakeNext(w)
    <3>1. Others(w) /\ Local(thread'[w]) /\ thread'[w].pc = "pick" /\ ~Busy(w)
      BY <2>1 DEF TakeNext, RegInv, Shaped, Local, Others, Busy, At
    <3> QED
      BY <2>1, <3>1, AwayKeeps DEF TakeNext, Away
  <2>2. CASE Pick(w)
    BY <2>2, PickKeeps
  <2>3. CASE Read(w)
    <3>1. Clear(w) /\ UNCHANGED <<reserved, book, held>>
      BY <2>3 DEF Read, Unchanged, Clear, Places, At
    <3>2. ASSUME NEW m, thread' = [thread EXCEPT ![w].pc = "verify", ![w].code = m.no],
                 UNCHANGED stranded
          PROVE  RegInv'
      <4>1. Moves(w, "verify") /\ Decided(thread'[w])
        BY <3>2 DEF RegInv, Shaped, Local, Moves, Others, Decided
      <4> QED
        BY <3>1, <3>2, <4>1, MoveKeeps DEF Places, MayBook
    <3> QED
      BY <2>3, <3>1, <3>2, FailsKeeps DEF Read
  <2>4. CASE ProtocolSend(w) \/ BrowserSend(w) \/ GptSend(w)
    <3>1. Clear(w) /\ UNCHANGED <<reserved, book, held>>
      BY <2>4 DEF ProtocolSend, BrowserSend, GptSend, Unchanged, Clear, Places, At
    <3>2. CASE Sent(w)
      BY <3>1, <3>2, GoKeeps DEF Sent
    <3> QED
      BY <2>4, <3>1, <3>2, FailsKeeps, RaisesKeeps
      DEF ProtocolSend, BrowserSend, GptSend, SoftFails, GptFails
  <2>5. CASE ProtocolVerify(w) \/ BrowserVerify(w) \/ GptVerify(w)
    <3>1. Clear(w) /\ UNCHANGED <<reserved, book, held>>
      BY <2>5 DEF ProtocolVerify, BrowserVerify, GptVerify, Unchanged, Clear, Places, At
    <3>2. CASE Accepted(w)
      BY <3>1, <3>2, GoKeeps DEF Accepted
    <3> QED
      BY <2>5, <3>1, <3>2, FailsKeeps, RaisesKeeps
      DEF ProtocolVerify, BrowserVerify, GptVerify, SoftFails, GptFails
  <2>6. CASE ProtocolSignUp(w) \/ BrowserSignUp(w) \/ GptSignUp(w) \/ SsoCookie(w)
    <3>1. Clear(w) /\ UNCHANGED <<reserved, book, held>>
      BY <2>6 DEF ProtocolSignUp, BrowserSignUp, GptSignUp, SsoCookie, Unchanged, Clear, Places, At
    <3>2. GptSignUp(w) \/ SsoCookie(w) => Way(w) # "protocol"
      BY DEF GptSignUp, SsoCookie, RegInv, Decisions, Decided, At, Way
    <3>3. CASE SignedUp(w, "mark")
      BY <3>1, <3>3, SignedUpKeeps
    <3>4. CASE (GptSignUp(w) \/ SsoCookie(w)) /\ SignedUp(w, "write")
      BY <3>1, <3>2, <3>4, SignedUpKeeps
    <3>5. CASE BrowserSignUp(w) /\ Go(w, "sso") /\ UNCHANGED stranded
      BY <3>1, <3>5, GoKeeps DEF BrowserSignUp
    <3> QED
      BY <2>6, <3>1, <3>3, <3>4, <3>5, FailsKeeps, RaisesKeeps
      DEF ProtocolSignUp, BrowserSignUp, GptSignUp, SsoCookie, SoftFails, GptFails
  <2>7. CASE ProtocolWrite(w)
    <3>1. UNCHANGED <<reserved, book, held>> /\ At(w, "write")
      BY <2>7 DEF ProtocolWrite, Unchanged
    <3>2. CASE ~Unmarked(w)
      <4>1. Go(w, "again") /\ ~Busy(w) /\ UNCHANGED stranded
        BY <2>7, <3>2 DEF ProtocolWrite, Recorded, Busy, At, Way, Unmarked
      <4>2. Moves(w, "again")
        BY <4>1, GoMoves DEF RegInv
      <4> QED
        BY <3>1, <4>1, <4>2, AwayKeeps DEF Moves, Away
    <3>3. CASE Unmarked(w)
      <4>1. Clear(w) /\ Busy(w)
        BY <3>1, <3>3 DEF Clear, Busy, Unmarked
      <4>2. CASE Recorded(w, "mark")
        BY <3>1, <4>1, <4>2, GoKeeps DEF Recorded
      <4>3. CASE Go(w, "again") /\ stranded' = stranded \cup {Addr(w)}
        <5>1. Moves(w, "again")
          BY <4>3, GoMoves DEF RegInv
        <5>2. ~Busy(w)' /\ Decided(thread'[w])
          BY <5>1 DEF Moves, Busy, At, Decided
        <5> QED
          BY <3>1, <4>1, <4>3, <5>1, <5>2, LeaveKeeps DEF Moves, MayBook
      <4> QED
        BY <2>7, <3>3, <4>2, <4>3 DEF ProtocolWrite
    <3> QED
      BY <3>2, <3>3
  <2>8. CASE Write(w)
    <3>1. Clear(w) /\ UNCHANGED <<reserved, book, held>>
      BY <2>8 DEF Write, Unchanged, Clear
    <3>2. CASE Recorded(w, "mark")
      BY <2>8, <3>1, <3>2, GoKeeps DEF Recorded, Write
    <3> QED
      BY <2>8, <3>1, <3>2, FailsKeeps DEF Write, SoftFails
  <2>9. CASE MarkLedger(w) \/ MarkFails(w)
    BY <2>9, MarkKeeps, MarkFailsKeeps
  <2>10. CASE Free(w)
    BY <2>10, FreeKeeps
  <2>11. CASE Hold(w)
    BY <2>11, HoldKeeps
  <2>12. CASE Again(w)
    <3>1. ASSUME NEW r, Local(r), r.pc \in Away, thread' = [thread EXCEPT ![w] = r]
          PROVE  RegInv'
      <4>1. Others(w) /\ thread'[w] = r
        BY <3>1 DEF RegInv, Shaped, Others
      <4> QED
        BY <2>12, <3>1, <4>1, AwayKeeps DEF Again, Busy, At
    <3>2. Local(Resting) /\ Resting.pc \in Away
      BY DEF Resting, Local, Away
    <3>3. \A y, n : LET r == [Resting EXCEPT !.pc = "pick", !.way = y, !.try = n]
                   IN Local(r) /\ r.pc \in Away
      BY DEF Resting, Local, Away
    <3> QED
      BY <2>12, <3>1, <3>2, <3>3 DEF Again
  <2> QED
    BY <1>4, <2>1, <2>2, <2>3, <2>4, <2>5, <2>6, <2>7, <2>8, <2>9, <2>10, <2>11, <2>12
<1> HIDE DEF Step
<1> QED
  BY <1>1, <1>2, <1>3, <1>4 DEF NextReg, Step

LEMMA RegAlways == RegSpec => []RegInv
BY RegInit, RegStep, PTL DEF RegSpec

\* However many threads of the two jobs draw on the mailboxes at once, and whatever way their
\* attempts end, no address is with two attempts, and none that is in a ledger is with an
\* attempt whose outcome is open (grok_register_ttk.py 2229-2289).
THEOREM AddressOnceAlways == RegSpec => []AddressOnce
<1>1. RegInv => AddressOnce
  BY DEF RegInv
<1> QED
  BY <1>1, RegAlways, PTL

\* No reservation is forgotten: each is of an attempt that will release it, held by the GPT
\* job, or its ledger could not be written or an exception carried it off (jobs.py 140-165,
\* protocol_register.py 971-1133, grok_register_ttk.py 129-142).
THEOREM ReservationsAccountedAlways == RegSpec => []ReservationsAccounted
<1>1. RegInv => ReservationsAccounted
  BY DEF RegInv
<1> QED
  BY <1>1, RegAlways, PTL

-----------------------------------------------------------------------------
(* The codes of the GPT job. *)

\* More of the shape of the threads' locals.
Full(r) == {"pc", "way", "addr", "no", "code", "late"} \subseteq DOMAIN r
Gpt(m)  == m.of # "grok"

\* The threads of the GPT job are on its way, and come to release an address by its ledger
\* entry only.
WayOfJob ==
  \A w \in Threads : /\ At(w, "idle") \/ (w \in Workers2 <=> Way(w) = "gpt")
                     /\ w \in Workers2 /\ At(w, "free") => Addr(w) \in InBook

\* Attempts have numbers of their own, and so have their mails.
Numbered ==
  /\ attempts \in Nat
  /\ \A w \in Threads : Busy(w) => thread[w].no \in Nat /\ thread[w].no <= attempts
  /\ \A w, v \in Threads : w # v /\ Busy(w) /\ Busy(v) => thread[w].no # thread[v].no
  /\ \A m \in mails : m.no \in Nat /\ m.no <= attempts
  /\ \A m, n \in mails : m.no = n.no => m.of = n.of
  /\ \A w \in Threads, m \in mails : Busy(w) /\ m.no = thread[w].no => m.of = JobOf(w)

\* Until its end the job keeps the addresses that it had mails sent to, booked or reserved ...
Kept ==
  ~released => \A m \in mails : Gpt(m) =>
    m.to \in InBook \cup held \cup stranded \cup {Addr(w) : w \in {v \in Workers2 : Busy(v)}}

\* ... so an attempt begun before it finds no mail at its address but its own.
OwnMails ==
  \A w \in Workers2, m \in mails :
    Busy(w) /\ ~thread[w].late /\ Gpt(m) /\ m.to = Addr(w) => m.no = thread[w].no

ReadHere ==
  \A w \in Workers2 : At(w, "verify") =>
    \E m \in mails : m.no = thread[w].code /\ m.to = Addr(w)

CodeInv == /\ (\A w \in Threads : Full(thread[w])) /\ {"used", "failed"} \subseteq DOMAIN book
           /\ WayOfJob /\ Numbered /\ Kept /\ OwnMails /\ ReadHere

-----------------------------------------------------------------------------

LEMMA CodeInit == InitReg => CodeInv
<1> SUFFICES ASSUME InitReg PROVE CodeInv
  OBVIOUS
<1>1. mails = {} /\ attempts = 0 /\ {"used", "failed"} \subseteq DOMAIN book
  BY DEF InitReg
<1>2. \A w \in Threads : Full(thread[w]) /\ At(w, "idle")
  BY DEF InitReg, Full, At, Resting
<1>3. \A w \in Threads : ~Busy(w) /\ ~At(w, "free") /\ ~At(w, "verify")
  BY <1>2 DEF Busy, At
<1> QED
  BY <1>1, <1>2, <1>3 DEF CodeInv, WayOfJob, Numbered, Kept, OwnMails, ReadHere, Threads

LEMMA CodesRead == CodeInv => HeldNoOldCode
<1> SUFFICES ASSUME CodeInv, NEW w \in Workers2, NEW m \in mails,
                    At(w, "verify"), ~thread[w].late, m.no = thread[w].code
             PROVE  m.of = "grok" \/ m.no = thread[w].no
  BY DEF HeldNoOldCode
<1>1. PICK n \in mails : n.no = thread[w].code /\ n.to = Addr(w)
  BY DEF CodeInv, ReadHere
<1>2. n.of = m.of
  BY <1>1 DEF CodeInv, Numbered
<1>3. Busy(w)
  BY DEF Busy, At
<1> QED
  BY <1>1, <1>2, <1>3 DEF CodeInv, OwnMails, Gpt

\* A step within an attempt; it may have a mail sent.
LEMMA OnKeeps ==
  ASSUME RegInv, CodeInv, NEW w \in Threads, Busy(w), Busy(w)', Others(w), Full(thread'[w]),
         thread'[w].addr = thread[w].addr, thread'[w].no = thread[w].no,
         thread'[w].way = thread[w].way, thread'[w].late = thread[w].late,
         mails' \in {mails, WithMail(w)}, UNCHANGED <<attempts, released, held>>,
         stranded \subseteq stranded', InBook \subseteq InBook', DOMAIN book' = DOMAIN book,
         w \in Workers2 /\ At(w, "verify")'
           => \E m \in mails : m.no = thread'[w].code /\ m.to = Addr(w),
         w \in Workers2 /\ At(w, "free")' => Addr(w) \in InBook'
  PROVE  CodeInv'
<1> DEFINE new == [to |-> Addr(w), no |-> thread[w].no, of |-> JobOf(w)]
<1>1. mails \subseteq mails' /\ \A m \in mails' : m \in mails \/ m = new
  BY DEF WithMail
<1>2. new.to = Addr(w) /\ new.no = thread[w].no /\ new.of = JobOf(w)
  OBVIOUS
<1> HIDE DEF new
<1>3. \A v \in Threads : /\ Busy(v)' <=> Busy(v)
                         /\ Addr(v)' = Addr(v) /\ thread'[v].no = thread[v].no
                         /\ thread'[v].late = thread[v].late /\ Way(v)' = Way(v)
  BY DEF Others, Busy, At, Way, Addr
<1>4. \A v \in Threads \ {w} : thread'[v] = thread[v]
  BY DEF Others
<1>5. ~At(w, "idle") /\ (\A v \in Threads : Full(thread[v])')
  BY <1>4 DEF CodeInv, Busy, At
<1>6. WayOfJob'
  BY <1>3, <1>4, <1>5 DEF CodeInv, WayOfJob, At, Addr
<1>7. Numbered'
  BY <1>1, <1>2, <1>3 DEF CodeInv, Numbered, JobOf
<1>8. Kept'
  BY <1>1, <1>2, <1>3 DEF CodeInv, Kept, Gpt, JobOf, Threads
<1>9. OwnMails'
  BY <1>1, <1>2, <1>3 DEF CodeInv, OwnMails, RegInv, AddressOnce, Gpt, Threads
<1>10. ReadHere'
  BY <1>1, <1>3, <1>4 DEF CodeInv, ReadHere, At, Threads
<1> QED
  BY <1>5, <1>6, <1>7, <1>8, <1>9, <1>10 DEF CodeInv

\* A step that takes the address from its attempt; in the GPT job it is booked, or stays
\* reserved.
LEMMA OffKeeps ==
  ASSUME RegInv, CodeInv, NEW w \in Threads, Busy(w), ~Busy(w)', Others(w), Full(thread'[w]),
         thread'[w].way = thread[w].way, ~At(w, "verify")', ~At(w, "free")',
         mails' \in {mails, WithMail(w)}, UNCHANGED <<attempts, released>>,
         InBook \subseteq InBook', DOMAIN book' = DOMAIN book, held \ {Addr(w)} \subseteq held',
         stranded \subseteq stranded',
         w \in Workers2 => Addr(w) \in InBook' \cup held' \cup stranded'
  PROVE  CodeInv'
<1> DEFINE new == [to |-> Addr(w), no |-> thread[w].no, of |-> JobOf(w)]
<1>1. mails \subseteq mails' /\ \A m \in mails' : m \in mails \/ m = new
  BY DEF WithMail
<1>2. new.to = Addr(w) /\ new.no = thread[w].no /\ new.of = JobOf(w)
  OBVIOUS
<1> HIDE DEF new
<1>3. \A v \in Threads \ {w} : /\ Busy(v)' <=> Busy(v)
                               /\ Addr(v)' = Addr(v) /\ thread'[v] = thread[v] /\ Way(v)' = Way(v)
  BY DEF Others, Busy, At, Way, Addr
<1>4. ~At(w, "idle") /\ (\A v \in Threads : Full(thread[v])') /\ Way(w)' = Way(w)
  BY <1>3 DEF CodeInv, Busy, At, Way
<1>5. w \notin Workers2 => JobOf(w) = "grok"
  BY DEF JobOf, Threads
<1>6. WayOfJob'
  BY <1>3, <1>4 DEF CodeInv, WayOfJob, At, Addr
<1>7. Numbered'
  BY <1>1, <1>2, <1>3 DEF CodeInv, Numbered, JobOf
<1>8. Kept'
  <2> SUFFICES ASSUME ~released, NEW m \in mails', Gpt(m)
               PROVE  m.to \in InBook' \cup held' \cup stranded'
                              \cup {Addr(v)' : v \in {u \in Workers2 : Busy(u)'}}
    BY DEF Kept
  <2>1. Addr(w) \notin held
    BY DEF RegInv, Divided
  <2>2. CASE m.to # Addr(w)
    BY <1>1, <1>2, <1>3, <2>2 DEF CodeInv, Kept, Threads
  <2>3. CASE m.to = Addr(w) /\ w \in Workers2
    BY <2>3
  <2>4. CASE m.to = Addr(w) /\ w \notin Workers2 /\ m \in mails
    BY <1>1, <1>3, <2>1, <2>4 DEF CodeInv, Kept, Threads
  <2>5. CASE w \notin Workers2 /\ m = new
    BY <1>2, <1>5, <2>5 DEF Gpt
  <2> QED
    BY <1>1, <2>2, <2>3, <2>4, <2>5
<1>9. OwnMails'
  BY <1>1, <1>2, <1>3 DEF CodeInv, OwnMails, RegInv, AddressOnce, Gpt, Threads
<1>10. ReadHere'
  BY <1>1, <1>3 DEF CodeInv, ReadHere, At, Threads
<1> QED
  BY <1>4, <1>6, <1>7, <1>8, <1>9, <1>10 DEF CodeInv

\* A step between attempts.
LEMMA IdleKeeps ==
  ASSUME CodeInv, NEW w \in Threads, ~Busy(w), ~Busy(w)', Others(w), Full(thread'[w]),
         At(w, "idle")' \/ (w \in Workers2 <=> Way(w)' = "gpt"),
         UNCHANGED <<mails, attempts, released, held, book, stranded>>
  PROVE  CodeInv'
<1>1. \A v \in Threads \ {w} : thread'[v] = thread[v]
  BY DEF Others
<1>2. \A v \in Threads : (Busy(v)' <=> Busy(v)) /\ (Busy(v) => Addr(v)' = Addr(v))
  BY <1>1 DEF Busy, At, Way, Addr
<1>3. InBook' = InBook /\ ~At(w, "verify")' /\ ~At(w, "free")'
  BY DEF InBook, Busy, At
<1>4. \A v \in Threads : Full(thread'[v])
  BY <1>1 DEF CodeInv
<1>5. WayOfJob'
  BY <1>1, <1>3 DEF CodeInv, WayOfJob, At, Way, Addr
<1>6. Numbered'
  BY <1>1, <1>2 DEF CodeInv, Numbered, JobOf
<1>7. Kept'
  BY <1>2, <1>3 DEF CodeInv, Kept, Gpt, Threads
<1>8. OwnMails' /\ ReadHere'
  BY <1>1, <1>2, <1>3 DEF CodeInv, OwnMails, ReadHere, Gpt, At, Threads, Addr
<1> QED
  BY <1>4, <1>5, <1>6, <1>7, <1>8 DEF CodeInv

\* The address that is picked is not one to which the GPT job has had a mail sent.
LEMMA PickCodes == ASSUME RegInv, CodeInv, NEW w \in Threads, Pick(w) PROVE CodeInv'
<1>0. ~Busy(w) /\ ~At(w, "idle") /\ UNCHANGED <<book, held, mails, released, stranded>>
  BY DEF Pick, Busy, At
<1>1. ASSUME NEW m, NEW a \in Candidates(m), attempts' = attempts + 1,
             thread' = [thread EXCEPT ![w].pc = "send", ![w].addr = a,
                                      ![w].no = attempts + 1, ![w].late = released]
      PROVE  CodeInv'
  <2>1. a \notin reserved /\ a \notin InBook
    BY <1>1 DEF Candidates, Available
  <2>2. /\ Others(w) /\ Full(thread'[w]) /\ thread'[w].pc = "send" /\ thread'[w].addr = a
        /\ thread'[w].no = attempts + 1 /\ thread'[w].late = released
        /\ thread'[w].way = thread[w].way
    BY <1>1 DEF RegInv, Shaped, CodeInv, Full, Others
  <2>3. \A v \in Threads \ {w} :
          (Busy(v)' <=> Busy(v)) /\ thread'[v] = thread[v] /\ Addr(v)' = Addr(v)
    BY <2>2 DEF Others, Busy, At, Way, Addr
  <2>4. a \notin held \cup stranded /\ \A v \in Threads : Busy(v) => Addr(v) # a
    BY <2>1 DEF RegInv, ReservationsAccounted
  <2>5. InBook' = InBook /\ attempts \in Nat
    BY <1>0 DEF InBook, CodeInv, Numbered
  <2>6. Addr(w)' = a /\ Busy(w)' /\ ~At(w, "verify")' /\ ~At(w, "free")' /\ Way(w)' = Way(w)
    BY <2>2 DEF Addr, Busy, At, Way
  <2>7. \A v \in Threads : Full(thread'[v])
    BY <2>2, <2>3 DEF CodeInv
  <2>8. WayOfJob'
    BY <1>0, <2>3, <2>5, <2>6 DEF CodeInv, WayOfJob, At, Way
  <2>9. Numbered'
    <3>1. attempts' \in Nat /\ attempts < attempts' /\ \A i \in Nat : i <= attempts => i < attempts'
      BY <1>1, <2>5
    <3>2. thread'[w].no = attempts' /\ mails' = mails
      BY <1>0, <1>1, <2>2
    <3>3. \A v \in Threads \ {w} : Busy(v)' =>
            /\ thread'[v].no \in Nat /\ thread'[v].no < attempts'
            /\ \A u \in Threads \ {w} : u # v /\ Busy(u)' => thread'[u].no # thread'[v].no
            /\ \A m2 \in mails : m2.no = thread'[v].no => m2.of = JobOf(v)
      BY <2>3, <3>1 DEF CodeInv, Numbered
    <3>4. \A m2 \in mails : m2.no \in Nat /\ m2.no < attempts'
      BY <3>1 DEF CodeInv, Numbered
    <3>5. \A m2, n2 \in mails : m2.no = n2.no => m2.of = n2.of
      BY DEF CodeInv, Numbered
    <3> QED
      BY <3>1, <3>2, <3>3, <3>4, <3>5 DEF Numbered, JobOf
  <2>10. Kept'
    BY <1>0, <2>3, <2>5 DEF CodeInv, Kept, Gpt, Threads
  <2>11. OwnMails'
    <3>1. ~released => \A n \in mails : Gpt(n) => n.to # a
      BY <2>1, <2>4 DEF CodeInv, Kept, Threads
    <3> QED
      BY <1>0, <2>2, <2>3, <2>6, <3>1 DEF CodeInv, OwnMails, Gpt, Threads
  <2>12. ReadHere'
    BY <1>0, <2>3, <2>6 DEF CodeInv, ReadHere, At, Threads
  <2> QED
    BY <1>0, <2>7, <2>8, <2>9, <2>10, <2>11, <2>12 DEF CodeInv
<1>2. CASE thread' = [thread EXCEPT ![w].pc = "again", ![w].verdict = "over"]
           /\ UNCHANGED attempts
  <2>1. /\ Others(w) /\ Full(thread'[w]) /\ thread'[w].pc = "again"
        /\ thread'[w].way = thread[w].way
    BY <1>2 DEF RegInv, Shaped, CodeInv, Full, Others
  <2>2. ~Busy(w)' /\ Way(w)' = Way(w)
    BY <2>1 DEF Busy, At, Way
  <2> QED
    BY <1>0, <1>2, <2>1, <2>2, IdleKeeps DEF CodeInv, WayOfJob
<1> QED
  BY <1>1, <1>2 DEF Pick

\* The ways that the locals of a busy thread go on, beside those that the steps have of
\* their own.
LEMMA FailsCodes ==
  ASSUME RegInv, CodeInv, NEW w \in Threads, Clear(w), NEW reason, Fails(w, reason),
         mails' \in {mails, WithMail(w)}, UNCHANGED <<attempts, released, held, book>>
  PROVE  CodeInv'
<1>1. ~At(w, "idle") /\ Busy(w)
  BY DEF Clear, Places, At, Busy
<1>2. PICK p \in {"mark", "hold", "free"} : \E verdict :
        /\ thread' = [thread EXCEPT ![w].pc = p, ![w].verdict = verdict]
        /\ p = "free" => Way(w) # "gpt"
  BY DEF Fails, AfterSoft
<1>3. w \in Workers2 => p # "free"
  BY <1>1, <1>2 DEF CodeInv, WayOfJob
<1>4. /\ Others(w) /\ Full(thread'[w]) /\ thread'[w].pc = p
      /\ thread'[w].addr = thread[w].addr /\ thread'[w].no = thread[w].no
      /\ thread'[w].way = thread[w].way /\ thread'[w].late = thread[w].late
  BY <1>2 DEF RegInv, Shaped, CodeInv, Full, Others
<1>5. Busy(w)' /\ ~At(w, "verify")' /\ (At(w, "free")' => p = "free") /\ InBook' = InBook
  BY <1>4 DEF Busy, At, InBook
<1>6. UNCHANGED stranded
  BY DEF Fails
<1> QED
  BY <1>1, <1>3, <1>4, <1>5, <1>6, OnKeeps

LEMMA RaisesCodes ==
  ASSUME RegInv, CodeInv, NEW w \in Threads, Clear(w), Way(w) # "gpt", Raises(w),
         mails' \in {mails, WithMail(w)}, UNCHANGED <<attempts, released, held, book>>
  PROVE  CodeInv'
<1>1. ~At(w, "idle") /\ Busy(w)
  BY DEF Clear, Places, At, Busy
<1>2. w \notin Workers2
  BY <1>1 DEF CodeInv, WayOfJob
<1>3. /\ Others(w) /\ Full(thread'[w]) /\ thread'[w].pc = "again"
      /\ thread'[w].way = thread[w].way
  BY DEF RegInv, Shaped, CodeInv, Full, Others, Raises
<1>4. /\ ~Busy(w)' /\ ~At(w, "verify")' /\ ~At(w, "free")'
      /\ InBook' = InBook /\ stranded \subseteq stranded'
  BY <1>3 DEF Busy, At, InBook, Raises
<1> QED
  BY <1>1, <1>2, <1>3, <1>4, OffKeeps

LEMMA GoesCodes ==
  ASSUME RegInv, CodeInv, NEW w \in Threads, Clear(w), NEW p, NEW verdict,
         Go(w, p) \/ thread' = [thread EXCEPT ![w].pc = p, ![w].verdict = verdict],
         p \in {"wait", "signup", "sso", "mark"} \/ (p = "write" /\ Way(w) # "protocol"),
         mails' \in {mails, WithMail(w)}, UNCHANGED <<attempts, released, held, book, stranded>>
  PROVE  CodeInv'
<1>1. Busy(w)
  BY DEF Clear, Places, At, Busy
<1>2. /\ Others(w) /\ Full(thread'[w]) /\ thread'[w].pc = p
      /\ thread'[w].addr = thread[w].addr /\ thread'[w].no = thread[w].no
      /\ thread'[w].way = thread[w].way /\ thread'[w].late = thread[w].late
  BY DEF RegInv, Shaped, CodeInv, Full, Others, Go
<1>3. Busy(w)' /\ ~At(w, "verify")' /\ ~At(w, "free")' /\ InBook' = InBook
  BY <1>2 DEF Busy, At, Way, InBook
<1> QED
  BY <1>1, <1>2, <1>3, OnKeeps

LEMMA ReadCodes == ASSUME RegInv, CodeInv, NEW w \in Threads, Read(w) PROVE CodeInv'
<1>1. Clear(w) /\ UNCHANGED <<mails, attempts, released, held, book>>
  BY DEF Read, Unchanged, Clear, Places, At
<1>2. ASSUME NEW m \in Arrived(w), thread' = [thread EXCEPT ![w].pc = "verify", ![w].code = m.no],
             UNCHANGED stranded
      PROVE  CodeInv'
  <2>1. /\ Others(w) /\ Full(thread'[w]) /\ thread'[w].pc = "verify" /\ thread'[w].code = m.no
        /\ thread'[w].addr = thread[w].addr /\ thread'[w].no = thread[w].no
        /\ thread'[w].way = thread[w].way /\ thread'[w].late = thread[w].late
    BY <1>2 DEF RegInv, Shaped, CodeInv, Full, Others
  <2>2. Busy(w) /\ Busy(w)' /\ ~At(w, "free")' /\ InBook' = InBook
    BY <1>1, <2>1 DEF Clear, Places, Busy, At, InBook
  <2>3. m \in mails /\ m.to = Addr(w)
    BY DEF Arrived
  <2> QED
    BY <1>1, <1>2, <2>1, <2>2, <2>3, OnKeeps
<1> QED
  BY <1>1, <1>2, FailsCodes DEF Read

\* A GPT attempt comes to the release of its address by its entry in a ledger, ...
LEMMA MarkCodes == ASSUME RegInv, CodeInv, NEW w \in Threads, MarkLedger(w) PROVE CodeInv'
<1>1. /\ Others(w) /\ Full(thread'[w]) /\ thread'[w].pc = "free"
      /\ thread'[w].addr = thread[w].addr /\ thread'[w].no = thread[w].no
      /\ thread'[w].way = thread[w].way /\ thread'[w].late = thread[w].late
  BY DEF MarkLedger, Go, RegInv, Shaped, CodeInv, Full, Others
<1>2. Busy(w) /\ Busy(w)' /\ ~At(w, "verify")'
  BY <1>1 DEF MarkLedger, Busy, At
<1>3. UNCHANGED <<mails, attempts, released, held, stranded>>
  BY DEF MarkLedger
<1>4. PICK l \in {"used", "failed"} : book' = [book EXCEPT ![l] = book[l] \cup {Addr(w)}]
  BY DEF MarkLedger, Marked
<1>5. InBook \subseteq InBook' /\ DOMAIN book' = DOMAIN book /\ Addr(w) \in InBook'
  BY <1>4 DEF InBook, CodeInv
<1> QED
  BY <1>1, <1>2, <1>3, <1>5, OnKeeps

\* ... its address stays reserved if it cannot be written, ...
LEMMA MarkFailsCodes == ASSUME RegInv, CodeInv, NEW w \in Threads, MarkFails(w) PROVE CodeInv'
<1>1. /\ UNCHANGED <<mails, attempts, released, held>> /\ stranded \subseteq stranded'
      /\ Busy(w) /\ At(w, "mark") /\ ~At(w, "idle")
  BY DEF MarkFails, Busy, At
<1>2. InBook \subseteq InBook' /\ DOMAIN book' = DOMAIN book
  <2>1. PICK l \in {"used", "failed"} : Marked(w) = [book EXCEPT ![l] = book[l] \cup {Addr(w)}]
    BY DEF Marked
  <2>2. book' = book \/ book' = Marked(w)
    BY DEF MarkFails
  <2> QED
    BY <2>1, <2>2 DEF InBook, CodeInv
<1>3. ASSUME NEW p, NEW v, thread' = [thread EXCEPT ![w].pc = p, ![w].verdict = v],
             \/ p = "free" /\ Way(w) = "browser"
             \/ p = "write" /\ v = "unmarked"
      PROVE  CodeInv'
  <2>1. /\ Others(w) /\ Full(thread'[w]) /\ thread'[w].pc = p /\ thread'[w].verdict = v
        /\ thread'[w].addr = thread[w].addr /\ thread'[w].no = thread[w].no
        /\ thread'[w].way = thread[w].way /\ thread'[w].late = thread[w].late
    BY <1>3 DEF RegInv, Shaped, Local, CodeInv, Full, Others
  <2>2. Busy(w)' /\ ~At(w, "verify")' /\ (At(w, "free")' => p = "free")
    BY <1>3, <2>1 DEF Busy, At
  <2>3. w \in Workers2 => p # "free"
    BY <1>1, <1>3 DEF CodeInv, WayOfJob
  <2> QED
    BY <1>1, <1>2, <2>1, <2>2, <2>3, OnKeeps
<1>4. ASSUME Go(w, "again"), stranded' = stranded \cup {Addr(w)} PROVE CodeInv'
  <2>1. /\ Others(w) /\ Full(thread'[w]) /\ thread'[w].pc = "again"
        /\ thread'[w].way = thread[w].way
    BY <1>4 DEF Go, RegInv, Shaped, CodeInv, Full, Others
  <2>2. ~Busy(w)' /\ ~At(w, "verify")' /\ ~At(w, "free")'
    BY <2>1 DEF Busy, At
  <2> QED
    BY <1>1, <1>2, <1>4, <2>1, <2>2, OffKeeps
<1> QED
  BY <1>3, <1>4 DEF MarkFails

\* ... and otherwise holds it.
LEMMA FreeCodes == ASSUME RegInv, CodeInv, NEW w \in Threads, Free(w) PROVE CodeInv'
<1>1. PICK p : Go(w, p) /\ (p = "again" \/ (p = "write" /\ Way(w) = "protocol"
                                               /\ thread[w].verdict = "used"))
  BY DEF Free
<1>2. /\ Others(w) /\ Full(thread'[w]) /\ thread'[w].pc = p
      /\ thread'[w].way = thread[w].way /\ thread'[w].verdict = thread[w].verdict
  BY <1>1 DEF Go, RegInv, Shaped, Local, CodeInv, Full, Others
<1>3. Busy(w) /\ ~Busy(w)' /\ ~At(w, "verify")' /\ ~At(w, "free")'
  BY <1>1, <1>2 DEF Free, Busy, At, Way
<1>4. /\ UNCHANGED <<mails, attempts, released, book, stranded>>
      /\ held' = held \ {Addr(w)} /\ InBook' = InBook
  BY DEF Free, InBook
<1>5. w \in Workers2 => Addr(w) \in InBook
  BY DEF Free, CodeInv, WayOfJob
<1> QED
  BY <1>2, <1>3, <1>4, <1>5, OffKeeps

LEMMA HoldCodes == ASSUME RegInv, CodeInv, NEW w \in Threads, Hold(w) PROVE CodeInv'
<1>1. /\ Others(w) /\ Full(thread'[w]) /\ thread'[w].pc = "again"
      /\ thread'[w].way = thread[w].way
  BY DEF Hold, Go, RegInv, Shaped, CodeInv, Full, Others
<1>2. Busy(w) /\ ~Busy(w)' /\ ~At(w, "verify")' /\ ~At(w, "free")'
  BY <1>1 DEF Hold, Busy, At, Way
<1>3. /\ UNCHANGED <<mails, attempts, released, book, stranded>>
      /\ held' = held \cup {Addr(w)} /\ InBook' = InBook
  BY DEF Hold, InBook
<1> QED
  BY <1>1, <1>2, <1>3, OffKeeps

LEMMA CodeStep == RegInv /\ CodeInv /\ [NextReg]_regVars => CodeInv'
<1> SUFFICES ASSUME RegInv, CodeInv, [NextReg]_regVars PROVE CodeInv'
  OBVIOUS
<1> DEFINE Step(w) ==
      \/ TakeNext(w) \/ Pick(w) \/ Read(w)
      \/ ProtocolSend(w) \/ ProtocolVerify(w) \/ ProtocolSignUp(w) \/ ProtocolWrite(w)
      \/ BrowserSend(w) \/ BrowserVerify(w) \/ BrowserSignUp(w) \/ SsoCookie(w)
      \/ GptSend(w) \/ GptVerify(w) \/ GptSignUp(w) \/ Write(w)
      \/ MarkLedger(w) \/ MarkFails(w) \/ Free(w) \/ Hold(w) \/ Again(w)
<1>1. CASE UNCHANGED regVars \/ (\E j \in {"grok", "gpt"} : Halt(j)) \/ EndGpt
  <2>1. UNCHANGED <<thread, mails, attempts, book>>
        /\ (released' \/ (released' = released /\ held' = held /\ stranded' = stranded))
    BY <1>1 DEF regVars, Halt, EndGpt
  <2> QED
    BY <2>1 DEF CodeInv, WayOfJob, Numbered, Kept, OwnMails, ReadHere, Busy, At, Way, Addr,
                InBook, Gpt
<1>2. ASSUME NEW w \in Threads, Step(w) PROVE CodeInv'
  <2>1. CASE TakeNext(w)
    <3>1. /\ Others(w) /\ Full(thread'[w]) /\ thread'[w].pc = "pick"
          /\ thread'[w].way = FirstWay(w)
      BY <2>1 DEF TakeNext, RegInv, Shaped, CodeInv, Full, Others
    <3>2. ~Busy(w) /\ ~Busy(w)' /\ UNCHANGED <<mails, attempts, released, held, book, stranded>>
      BY <2>1, <3>1 DEF TakeNext, Busy, At
    <3>3. w \in Workers2 <=> Way(w)' = "gpt"
      BY <3>1, RegistrationsAssumption DEF FirstWay, Way, Threads
    <3> QED
      BY <3>1, <3>2, <3>3, IdleKeeps
  <2>2. CASE Pick(w)
    BY <2>2, PickCodes
  <2>3. CASE Read(w)
    BY <2>3, ReadCodes
  <2>4. CASE ProtocolSend(w) \/ BrowserSend(w) \/ GptSend(w)
    <3>1. Clear(w) /\ UNCHANGED <<attempts, released, held, book>>
      BY <2>4 DEF ProtocolSend, BrowserSend, GptSend, Unchanged, Clear, Places, At
    <3>2. mails' \in {mails, WithMail(w)}
      BY <2>4 DEF ProtocolSend, BrowserSend, GptSend, Sent, PerhapsSent
    <3>3. CASE Sent(w)
      BY <3>1, <3>2, <3>3, GoesCodes DEF Sent
    <3>4. CASE Way(w) # "gpt" /\ Raises(w)
      BY <3>1, <3>2, <3>4, RaisesCodes
    <3> QED
      BY <2>4, <3>1, <3>2, <3>3, <3>4, FailsCodes
      DEF ProtocolSend, BrowserSend, GptSend, SoftFails, GptFails
  <2>5. CASE \/ ProtocolVerify(w) \/ BrowserVerify(w) \/ GptVerify(w)
             \/ ProtocolSignUp(w) \/ BrowserSignUp(w) \/ GptSignUp(w) \/ SsoCookie(w)
    <3>1. Clear(w) /\ UNCHANGED <<attempts, released, held, book>> /\ mails' = mails
      BY <2>5 DEF ProtocolVerify, BrowserVerify, GptVerify, ProtocolSignUp, BrowserSignUp,
                  GptSignUp, SsoCookie, Unchanged, Clear, Places, At
    <3>2. CASE \E p \in {"signup", "sso"} : Go(w, p) /\ UNCHANGED stranded
      BY <3>1, <3>2, GoesCodes
    <3>3. CASE SignedUp(w, "mark")
      BY <3>1, <3>3, GoesCodes DEF SignedUp
    <3>4. CASE (GptSignUp(w) \/ SsoCookie(w)) /\ SignedUp(w, "write")
      <4>1. Way(w) # "protocol"
        BY <3>4 DEF GptSignUp, SsoCookie, RegInv, Decisions, Decided, At, Way
      <4> QED
        BY <3>1, <3>4, <4>1, GoesCodes DEF SignedUp
    <3>5. CASE Way(w) # "gpt" /\ Raises(w)
      BY <3>1, <3>5, RaisesCodes
    <3> QED
      BY <2>5, <3>1, <3>2, <3>3, <3>4, <3>5, FailsCodes
      DEF ProtocolVerify, BrowserVerify, GptVerify, ProtocolSignUp, BrowserSignUp, GptSignUp,
          SsoCookie, Accepted, SoftFails, GptFails
  <2>6. CASE ProtocolWrite(w)
    <3>1. At(w, "write") /\ ~At(w, "idle") /\ InBook' = InBook
          /\ UNCHANGED <<mails, attempts, released, held, book>>
      BY <2>6 DEF ProtocolWrite, Unchanged, At, InBook
    <3>2. CASE Unmarked(w) /\ Recorded(w, "mark")
      <4>1. Clear(w)
        BY <3>1, <3>2 DEF Clear, Unmarked
      <4> QED
        BY <3>1, <3>2, <4>1, GoesCodes DEF Recorded
    <3>3. ASSUME Go(w, "again") PROVE CodeInv'
      <4>1. /\ Others(w) /\ Full(thread'[w]) /\ thread'[w].pc = "again"
            /\ thread'[w].way = thread[w].way
        BY <3>3 DEF Go, RegInv, Shaped, CodeInv, Full, Others
      <4>2. ~Busy(w)' /\ ~At(w, "verify")' /\ ~At(w, "free")' /\ Way(w)' = Way(w)
        BY <4>1 DEF Busy, At, Way
      <4>3. CASE Unmarked(w)
        <5>1. Busy(w) /\ stranded' = stranded \cup {Addr(w)}
          BY <2>6, <3>1, <3>3, <4>1, <4>3
             DEF ProtocolWrite, Recorded, Busy, Unmarked, Go, RegInv, Shaped, Local
        <5> QED
          BY <3>1, <4>1, <4>2, <5>1, OffKeeps
      <4>4. CASE ~Unmarked(w)
        <5>1. ~Busy(w) /\ UNCHANGED stranded
          BY <2>6, <4>4 DEF ProtocolWrite, Recorded, Busy, At, Way, Unmarked
        <5> QED
          BY <3>1, <4>1, <4>2, <5>1, IdleKeeps DEF CodeInv, WayOfJob
      <4> QED
        BY <4>3, <4>4
    <3> QED
      BY <2>6, <3>2, <3>3 DEF ProtocolWrite, Recorded
  <2>7. CASE Write(w)
    <3>1. Clear(w) /\ UNCHANGED <<mails, attempts, released, held, book>>
      BY <2>7 DEF Write, Unchanged, Clear
    <3> QED
      BY <2>7, <3>1, GoesCodes, FailsCodes DEF Write, Recorded, SoftFails
  <2>8. CASE MarkLedger(w) \/ MarkFails(w) \/ Free(w) \/ Hold(w)
    BY <2>8, MarkCodes, MarkFailsCodes, FreeCodes, HoldCodes
  <2>9. CASE Again(w)
    <3>1. /\ ~Busy(w) /\ ~At(w, "idle")
          /\ UNCHANGED <<mails, attempts, released, held, book, stranded>>
      BY <2>9 DEF Again, Busy, At
    <3>2. w \in Workers2 <=> Way(w) = "gpt"
      BY <3>1 DEF CodeInv, WayOfJob
    <3>3. PICK r : /\ thread' = [thread EXCEPT ![w] = r] /\ Full(r)
                   /\ \/ r.pc = "idle"
                      \/ r.pc = "pick" /\ (w \in Workers2 <=> r.way = "gpt")
      <4>1. \A y, n : LET r == [Resting EXCEPT !.pc = "pick", !.way = y, !.try = n]
                      IN Full(r) /\ r.pc = "pick" /\ r.way = y
        BY DEF Resting, Full
      <4>2. Full(Resting) /\ Resting.pc = "idle"
        BY DEF Resting, Full
      <4> DEFINE next(y, n) == [Resting EXCEPT !.pc = "pick", !.way = y, !.try = n]
      <4>3. \/ thread' = [thread EXCEPT ![w] = Resting]
            \/ thread' = [thread EXCEPT ![w] = next(Way(w), thread[w].try + 1)]
            \/ Way(w) = "protocol" /\ thread' = [thread EXCEPT ![w] = next("browser", 1)]
        BY <2>9 DEF Again
      <4>4. \A y, n : Full(next(y, n)) /\ next(y, n).pc = "pick" /\ next(y, n).way = y
        BY <4>1
      <4> HIDE DEF next
      <4> QED
        BY <3>2, <4>2, <4>3, <4>4
    <3>4. Others(w) /\ thread'[w] = r
      BY <3>3 DEF RegInv, Shaped, Others
    <3>5. ~Busy(w)'
      BY <3>3, <3>4 DEF Busy, At
    <3> QED
      BY <3>1, <3>3, <3>4, <3>5, IdleKeeps DEF At, Way
  <2> QED
    BY <1>2, <2>1, <2>2, <2>3, <2>4, <2>5, <2>6, <2>7, <2>8, <2>9
<1> HIDE DEF Step
<1> QED
  BY <1>1, <1>2 DEF NextReg, Step

\* While the GPT job lasts, none of its attempts reads the code that an earlier attempt of
\* it had sent, however late the mail comes: the address is in a ledger, or held (jobs.py
\* 140-143).
THEOREM HeldNoOldCodeAlways == RegSpec => []HeldNoOldCode
<1>1. RegInv /\ CodeInv /\ [NextReg]_regVars => (RegInv /\ CodeInv)'
  BY RegStep, CodeStep
<1>2. RegInv /\ CodeInv => HeldNoOldCode
  BY CodesRead
<1> QED
  BY RegInit, CodeInit, <1>1, <1>2, PTL DEF RegSpec
-----------------------------------------------------------------------------
(* The types: an attempt beyond its pick has an address and a number. *)

Stages == {"idle", "pick", "send", "wait", "verify", "signup", "sso", "write", "mark", "free",
           "hold", "again"}
Verdicts == {"none", "used", "unmarked", "failed", "over"}
Attempting ==
  [pc : Stages, way : {"none", "gpt", "protocol", "browser"}, addr : Addresses \cup {Nowhere},
   no : 0 .. MaxAttempts, try : 0 .. MailTries, code : 0 .. MaxAttempts,
   verdict : Verdicts, late : BOOLEAN]

Placed(r) == r.pc \notin Away => r.addr \in Addresses /\ r.no \in 1 .. MaxAttempts

ThreadsTyped == thread \in [Threads -> Attempting] /\ \A w \in Threads : Placed(thread[w])

BooksTyped ==
  /\ reserved \subseteq Addresses /\ held \subseteq Addresses /\ stranded \subseteq Addresses
  /\ book \in [used : SUBSET Addresses, failed : SUBSET Addresses]
  /\ attempts \in 0 .. MaxAttempts
  /\ mails \subseteq [to : Addresses, no : 1 .. MaxAttempts, of : {"grok", "gpt"}]
  /\ records \subseteq [addr : Addresses, no : 1 .. MaxAttempts]
  /\ halted \subseteq {"grok", "gpt"} /\ released \in BOOLEAN

LEMMA RegNumbers ==
  /\ MaxAttempts \in Nat /\ MailTries \in Nat \ {0}
  /\ 0 \in 0 .. MaxAttempts /\ 0 \in 0 .. MailTries /\ 1 \in 0 .. MailTries
  /\ Resting \in Attempting
<1>1. /\ MaxAttempts \in Nat /\ MailTries \in Nat \ {0}
      /\ 0 \in 0 .. MaxAttempts /\ 0 \in 0 .. MailTries /\ 1 \in 0 .. MailTries
  BY RegistrationsAssumption
<1>2. QED
  BY <1>1 DEF Resting, Attempting, Stages, Verdicts

LEMMA RegTypes == RegTypeOK <=> thread \in [Threads -> Attempting] /\ BooksTyped
BY DEF RegTypeOK, Attempting, Stages, Verdicts, BooksTyped

LEMMA ThreadStep ==
  ASSUME ThreadsTyped, NEW w \in Threads, NEW r \in Attempting, Placed(r),
         thread' = [thread EXCEPT ![w] = r]
  PROVE  ThreadsTyped'
<1>1. thread' \in [Threads -> Attempting]
  BY DEF ThreadsTyped
<1>2. \A v \in Threads : thread'[v] = IF v = w THEN r ELSE thread[v]
  BY DEF ThreadsTyped
<1>3. ASSUME NEW v \in Threads PROVE Placed(thread'[v])
  BY <1>2 DEF ThreadsTyped
<1>4. QED
  BY <1>1, <1>3 DEF ThreadsTyped, Placed

\* An attempt under way ...
LEMMA UnderWay ==
  ASSUME ThreadsTyped, NEW w \in Threads, thread[w].pc \notin Away
  PROVE  /\ thread[w] \in Attempting /\ Addr(w) \in Addresses /\ thread[w].no \in 1 .. MaxAttempts
         /\ WithMail(w) \ mails \subseteq
              [to : Addresses, no : 1 .. MaxAttempts, of : {"grok", "gpt"}]
         /\ [addr |-> Addr(w), no |-> thread[w].no] \in [addr : Addresses, no : 1 .. MaxAttempts]
<1>1. thread[w] \in Attempting /\ Addr(w) \in Addresses /\ thread[w].no \in 1 .. MaxAttempts
  BY DEF ThreadsTyped, Placed, Addr
<1>2. JobOf(w) \in {"grok", "gpt"}
  BY DEF JobOf
<1>3. QED
  BY <1>1, <1>2 DEF WithMail

\* ... goes on, ...
LEMMA GoTyped ==
  ASSUME ThreadsTyped, NEW w \in Threads, thread[w].pc \notin Away, NEW p, p \in Stages, Go(w, p)
  PROVE  ThreadsTyped'
<1> DEFINE r == [thread[w] EXCEPT !.pc = p]
<1>1. r \in Attempting /\ Placed(r)
  BY UnderWay DEF Attempting, Placed, Addr
<1>2. thread' = [thread EXCEPT ![w] = r]
  BY DEF Go
<1> HIDE DEF r
<1>3. QED
  BY <1>1, <1>2, ThreadStep

\* ... with a verdict, ...
LEMMA VerdictTyped ==
  ASSUME ThreadsTyped, NEW w \in Threads, thread[w].pc \notin Away, NEW p, p \in Stages,
         NEW v, v \in Verdicts,
         thread' = [thread EXCEPT ![w].pc = p, ![w].verdict = v]
  PROVE  ThreadsTyped'
<1> DEFINE r == [thread[w] EXCEPT !.pc = p, !.verdict = v]
<1>1. r \in Attempting /\ Placed(r)
  BY UnderWay DEF Attempting, Placed, Addr
<1>2. thread' = [thread EXCEPT ![w] = r]
  OBVIOUS
<1> HIDE DEF r
<1>3. QED
  BY <1>1, <1>2, ThreadStep

\* ... fails or raises.
LEMMA FailsTyped ==
  ASSUME ThreadsTyped, BooksTyped, NEW w \in Threads, thread[w].pc \notin Away,
         NEW reason, Fails(w, reason)
  PROVE  ThreadsTyped' /\ stranded' \subseteq Addresses
<1>1. PICK p \in {"mark", "hold", "free"}, v \in {"over", "failed"} :
        thread' = [thread EXCEPT ![w].pc = p, ![w].verdict = v]
  <2>1. AfterSoft(w) \in {"mark", "hold", "free"}
    BY DEF AfterSoft
  <2>2. QED
    BY <2>1 DEF Fails
<1>2. p \in Stages /\ v \in Verdicts
  BY DEF Stages, Verdicts
<1>3. stranded' \subseteq Addresses
  BY DEF Fails, BooksTyped
<1>4. QED
  BY <1>1, <1>2, <1>3, VerdictTyped

LEMMA RaisesTyped ==
  ASSUME ThreadsTyped, BooksTyped, NEW w \in Threads, thread[w].pc \notin Away, Raises(w)
  PROVE  ThreadsTyped' /\ stranded' \subseteq Addresses
<1> DEFINE r == [thread[w] EXCEPT !.pc = "again", !.verdict = "failed", !.addr = Nowhere]
<1>1. r \in Attempting /\ Placed(r)
  BY UnderWay DEF Attempting, Placed, Away, Stages, Verdicts
<1>2. thread' = [thread EXCEPT ![w] = r]
  BY DEF Raises
<1>3. stranded' \subseteq Addresses
  BY UnderWay DEF Raises, BooksTyped
<1> HIDE DEF r
<1>4. QED
  BY <1>1, <1>2, <1>3, ThreadStep
-----------------------------------------------------------------------------
\* The codes, the mails and the sign-up.
LEMMA AskedTyped ==
  ASSUME ThreadsTyped, BooksTyped, NEW w \in Threads,
         ProtocolSend(w) \/ BrowserSend(w) \/ GptSend(w)
  PROVE  ThreadsTyped' /\ BooksTyped'
<1>1. thread[w].pc \notin Away /\ Unchanged /\ UNCHANGED records
  BY DEF ProtocolSend, BrowserSend, GptSend, At, Away
<1>2. WithMail(w) \subseteq [to : Addresses, no : 1 .. MaxAttempts, of : {"grok", "gpt"}]
  BY <1>1, UnderWay DEF BooksTyped
<1>3. mails' \subseteq [to : Addresses, no : 1 .. MaxAttempts, of : {"grok", "gpt"}]
  <2>1. mails' \in {mails, WithMail(w)}
    BY DEF ProtocolSend, BrowserSend, GptSend, Sent, PerhapsSent
  <2>2. QED
    BY <1>2, <2>1 DEF BooksTyped
<1>4. ThreadsTyped' /\ stranded' \subseteq Addresses
  <2>1. CASE Sent(w)
    <3>1. "wait" \in Stages /\ stranded' \subseteq Addresses
      BY <2>1 DEF Stages, Sent, BooksTyped
    <3>2. QED
      BY <1>1, <2>1, <3>1, GoTyped DEF Sent
  <2>2. CASE Raises(w)
    BY <1>1, <2>2, RaisesTyped
  <2>3. CASE SoftFails(w) \/ GptFails(w)
    BY <1>1, <2>3, FailsTyped DEF SoftFails, GptFails
  <2>4. QED
    BY <2>1, <2>2, <2>3 DEF ProtocolSend, BrowserSend, GptSend
<1>5. QED
  BY <1>1, <1>3, <1>4 DEF BooksTyped, Unchanged

LEMMA ReadTyped ==
  ASSUME ThreadsTyped, BooksTyped, NEW w \in Threads, Read(w)
  PROVE  ThreadsTyped' /\ BooksTyped'
<1>1. thread[w].pc \notin Away /\ Unchanged /\ UNCHANGED <<mails, records>>
  BY DEF Read, At, Away
<1>2. ThreadsTyped' /\ stranded' \subseteq Addresses
  <2>1. ASSUME NEW m \in Arrived(w), UNCHANGED stranded,
               thread' = [thread EXCEPT ![w].pc = "verify", ![w].code = m.no]
        PROVE  ThreadsTyped' /\ stranded' \subseteq Addresses
    <3> DEFINE r == [thread[w] EXCEPT !.pc = "verify", !.code = m.no]
    <3>1. m.no \in 0 .. MaxAttempts
      BY <2>1 DEF Arrived, BooksTyped
    <3>2. r \in Attempting /\ Placed(r)
      BY <1>1, <3>1, UnderWay DEF Attempting, Placed, Addr, Stages
    <3>3. thread' = [thread EXCEPT ![w] = r]
      BY <2>1
    <3> HIDE DEF r
    <3>4. QED
      BY <2>1, <3>2, <3>3, ThreadStep DEF BooksTyped
  <2>2. CASE \E reason \in {"hard", "soft"} : Fails(w, reason)
    BY <1>1, <2>2, FailsTyped
  <2>3. QED
    BY <2>1, <2>2 DEF Read
<1>3. QED
  BY <1>1, <1>2 DEF BooksTyped, Unchanged

LEMMA SignTyped ==
  ASSUME ThreadsTyped, BooksTyped, NEW w \in Threads,
         \/ ProtocolVerify(w) \/ BrowserVerify(w) \/ GptVerify(w)
         \/ ProtocolSignUp(w) \/ BrowserSignUp(w) \/ SsoCookie(w) \/ GptSignUp(w)
  PROVE  ThreadsTyped' /\ BooksTyped'
<1>1. thread[w].pc \notin Away /\ Unchanged /\ UNCHANGED <<mails, records>>
  BY DEF ProtocolVerify, BrowserVerify, GptVerify, ProtocolSignUp, BrowserSignUp, SsoCookie,
         GptSignUp, At, Away
<1>2. ASSUME NEW p \in {"signup", "sso"}, Go(w, p), UNCHANGED stranded
      PROVE  ThreadsTyped' /\ stranded' \subseteq Addresses
  <2>1. p \in Stages
    BY DEF Stages
  <2>2. QED
    BY <1>1, <1>2, <2>1, GoTyped DEF BooksTyped
<1>3. ASSUME NEW p \in {"mark", "write"}, SignedUp(w, p)
      PROVE  ThreadsTyped' /\ stranded' \subseteq Addresses
  <2>1. p \in Stages /\ "used" \in Verdicts
    BY DEF Stages, Verdicts
  <2>2. QED
    BY <1>1, <1>3, <2>1, VerdictTyped DEF SignedUp, BooksTyped
<1>4. CASE Raises(w)
  <2>1. ThreadsTyped' /\ stranded' \subseteq Addresses
    BY <1>1, <1>4, RaisesTyped
  <2>2. QED
    BY <1>1, <2>1 DEF BooksTyped, Unchanged
<1>5. CASE SoftFails(w) \/ GptFails(w)
  <2>1. ThreadsTyped' /\ stranded' \subseteq Addresses
    BY <1>1, <1>5, FailsTyped DEF SoftFails, GptFails
  <2>2. QED
    BY <1>1, <2>1 DEF BooksTyped, Unchanged
<1>6. CASE \/ Accepted(w) \/ SignedUp(w, "mark") \/ SignedUp(w, "write")
           \/ Go(w, "sso") /\ UNCHANGED stranded
  <2>1. ThreadsTyped' /\ stranded' \subseteq Addresses
    BY <1>2, <1>3, <1>6 DEF Accepted
  <2>2. QED
    BY <1>1, <2>1 DEF BooksTyped, Unchanged
<1>7. QED
  BY <1>4, <1>5, <1>6
     DEF ProtocolVerify, BrowserVerify, GptVerify, ProtocolSignUp, BrowserSignUp, SsoCookie,
         GptSignUp

\* What is written down, and given back.
LEMMA WrittenTyped ==
  ASSUME ThreadsTyped, BooksTyped, NEW w \in Threads, ProtocolWrite(w) \/ Write(w)
  PROVE  ThreadsTyped' /\ BooksTyped'
<1>1. thread[w].pc \notin Away /\ Unchanged /\ UNCHANGED mails
  BY DEF ProtocolWrite, Write, At, Away
<1>2. ASSUME NEW p \in {"again", "mark"}, Go(w, p), stranded' \subseteq stranded \cup {Addr(w)}
      PROVE  ThreadsTyped' /\ stranded' \subseteq Addresses
  <2>1. p \in Stages /\ Addr(w) \in Addresses
    BY <1>1, UnderWay DEF Stages
  <2>2. QED
    BY <1>1, <1>2, <2>1, GoTyped DEF BooksTyped
<1>3. ThreadsTyped' /\ stranded' \subseteq Addresses
  <2>1. CASE SoftFails(w)
    BY <1>1, <2>1, FailsTyped DEF SoftFails
  <2>2. QED
    BY <1>2, <2>1 DEF ProtocolWrite, Write, Recorded
<1>4. records' \subseteq [addr : Addresses, no : 1 .. MaxAttempts]
  <2>1. [addr |-> Addr(w), no |-> thread[w].no] \in [addr : Addresses, no : 1 .. MaxAttempts]
    BY <1>1, UnderWay
  <2>2. QED
    BY <2>1 DEF ProtocolWrite, Write, Recorded, BooksTyped
<1>5. QED
  BY <1>1, <1>3, <1>4 DEF BooksTyped, Unchanged

LEMMA GivenTyped ==
  ASSUME ThreadsTyped, BooksTyped, NEW w \in Threads,
         MarkLedger(w) \/ MarkFails(w) \/ Free(w) \/ Hold(w)
  PROVE  ThreadsTyped' /\ BooksTyped'
<1>1. thread[w].pc \notin Away /\ UNCHANGED <<attempts, mails, wanted, halted, released, records>>
  BY DEF MarkLedger, MarkFails, Free, Hold, At, Away
<1>2. \/ \E p \in {"free", "write", "again"} : Go(w, p)
      \/ \E p \in {"free", "write"}, v \in {"over", "unmarked"} :
           thread' = [thread EXCEPT ![w].pc = p, ![w].verdict = v]
  BY DEF MarkLedger, MarkFails, Free, Hold
<1>3. {"free", "write", "again"} \subseteq Stages /\ {"over", "unmarked"} \subseteq Verdicts
  BY DEF Stages, Verdicts
<1>4. ThreadsTyped'
  BY <1>1, <1>2, <1>3, GoTyped, VerdictTyped
<1>5. Addr(w) \in Addresses
  BY <1>1, UnderWay
<1>6. reserved' \subseteq Addresses /\ held' \subseteq Addresses /\ stranded' \subseteq Addresses
  BY <1>5 DEF MarkLedger, MarkFails, Free, Hold, BooksTyped
<1>7. book' \in [used : SUBSET Addresses, failed : SUBSET Addresses]
  <2>1. Marked(w) \in [used : SUBSET Addresses, failed : SUBSET Addresses]
    BY <1>5 DEF Marked, BooksTyped
  <2>2. book' \in {book, Marked(w)}
    BY DEF MarkLedger, MarkFails, Free, Hold
  <2>3. QED
    BY <2>1, <2>2 DEF BooksTyped
<1>8. QED
  BY <1>1, <1>4, <1>6, <1>7 DEF BooksTyped

\* A worker that has no address, or is given one.
LEMMA BeginsTyped ==
  ASSUME ThreadsTyped, BooksTyped, NEW w \in Threads, TakeNext(w) \/ Pick(w) \/ Again(w)
  PROVE  ThreadsTyped' /\ BooksTyped'
<1>1. thread[w] \in Attempting /\ attempts \in 0 .. MaxAttempts /\ released \in BOOLEAN
      /\ thread[w].pc \in {"idle", "pick", "again"}
  BY DEF ThreadsTyped, BooksTyped, TakeNext, Pick, Again, At
<1>2. ASSUME NEW r \in Attempting, r.pc \in Away, thread' = [thread EXCEPT ![w] = r],
             UNCHANGED <<reserved, book, attempts, mails, held, halted, released, records,
                         stranded>>
      PROVE  ThreadsTyped' /\ BooksTyped'
  <2>1. Placed(r)
    BY <1>2 DEF Placed
  <2>2. QED
    BY <1>2, <2>1, ThreadStep DEF BooksTyped
<1>3. CASE TakeNext(w)
  <2> DEFINE r == [thread[w] EXCEPT !.pc = "pick", !.way = FirstWay(w), !.try = 1]
  <2>1. FirstWay(w) \in {"none", "gpt", "protocol", "browser"}
    BY RegistrationsAssumption DEF FirstWay, Threads
  <2>2. r \in Attempting /\ r.pc \in Away
    BY <1>1, <2>1, RegNumbers DEF Attempting, Stages, Away
  <2>3. thread' = [thread EXCEPT ![w] = r]
    BY <1>3 DEF TakeNext
  <2> HIDE DEF r
  <2>4. QED
    BY <1>2, <1>3, <2>2, <2>3 DEF TakeNext
<1>4. CASE Again(w)
  <2> DEFINE on(n, way) == [Resting EXCEPT !.pc = "pick", !.way = way, !.try = n]
  <2>1. \A n \in 0 .. MailTries, way \in {"none", "gpt", "protocol", "browser"} :
          on(n, way) \in Attempting /\ on(n, way).pc \in Away
    BY RegNumbers DEF Resting, Attempting, Stages, Away
  <2>2. Resting \in Attempting /\ Resting.pc \in Away
    BY RegNumbers DEF Resting, Away
  <2>3. thread[w].try < MailTries => thread[w].try + 1 \in 0 .. MailTries
    BY <1>1, RegNumbers DEF Attempting
  <2>4. Way(w) \in {"none", "gpt", "protocol", "browser"} /\ 1 \in 0 .. MailTries
        /\ "browser" \in {"none", "gpt", "protocol", "browser"}
    BY <1>1, RegNumbers DEF Attempting, Way
  <2>5. \/ thread[w].try < MailTries
           /\ thread' = [thread EXCEPT ![w] = on(thread[w].try + 1, Way(w))]
        \/ thread' = [thread EXCEPT ![w] = on(1, "browser")]
        \/ thread' = [thread EXCEPT ![w] = Resting]
    BY <1>4 DEF Again
  <2>6. UNCHANGED <<reserved, book, attempts, mails, held, halted, released, records, stranded>>
    BY <1>4 DEF Again
  <2> HIDE DEF on
  <2>7. \E r \in Attempting : r.pc \in Away /\ thread' = [thread EXCEPT ![w] = r]
    BY <2>1, <2>2, <2>3, <2>4, <2>5
  <2>8. QED
    BY <1>2, <2>6, <2>7
<1>5. CASE Pick(w)
  <2>1. CASE thread' = [thread EXCEPT ![w].pc = "again", ![w].verdict = "over"]
             /\ UNCHANGED <<reserved, attempts>>
    <3> DEFINE r == [thread[w] EXCEPT !.pc = "again", !.verdict = "over"]
    <3>1. r \in Attempting /\ r.pc \in Away
      BY <1>1 DEF Attempting, Stages, Verdicts, Away
    <3>2. thread' = [thread EXCEPT ![w] = r]
      BY <2>1
    <3> HIDE DEF r
    <3>3. QED
      BY <1>2, <1>5, <2>1, <3>1, <3>2 DEF Pick
  <2>2. ASSUME NEW a \in Addresses, attempts < MaxAttempts, attempts' = attempts + 1,
               reserved' = reserved \cup {a},
               thread' = [thread EXCEPT ![w].pc = "send", ![w].addr = a,
                                        ![w].no = attempts + 1, ![w].late = released]
        PROVE  ThreadsTyped' /\ BooksTyped'
    <3> DEFINE n == attempts + 1
               r == [thread[w] EXCEPT !.pc = "send", !.addr = a, !.no = n, !.late = released]
    <3>1. n \in 1 .. MaxAttempts /\ n \in 0 .. MaxAttempts
      BY <1>1, <2>2, RegNumbers
    <3>2. thread' = [thread EXCEPT ![w] = r] /\ attempts' = n
      BY <2>2
    <3> HIDE DEF n
    <3>3. r \in Attempting /\ Placed(r)
      BY <1>1, <3>1 DEF Attempting, Stages, Placed
    <3>4. UNCHANGED <<book, mails, held, halted, released, records, stranded>>
      BY <1>5 DEF Pick
    <3>5. reserved' \subseteq Addresses
      BY <2>2 DEF BooksTyped
    <3> HIDE DEF r
    <3>6. ThreadsTyped'
      BY <3>2, <3>3, ThreadStep
    <3>7. QED
      BY <3>1, <3>2, <3>4, <3>5, <3>6 DEF BooksTyped
  <2>3. QED
    BY <1>5, <2>1, <2>2 DEF Pick
<1>6. QED
  BY <1>3, <1>4, <1>5

\* The addresses, mails, records and ledgers keep to their types, and every attempt beyond its
\* pick has an address and a number, for any number of threads, mailboxes and accounts.
THEOREM RegTypesAlways == RegSpec => []RegTypeOK
<1>1. InitReg => ThreadsTyped /\ BooksTyped
  <2> SUFFICES ASSUME InitReg PROVE ThreadsTyped /\ BooksTyped
    OBVIOUS
  <2>1. Placed(Resting)
    BY DEF Placed, Resting, Away
  <2>2. ThreadsTyped
    BY <2>1, RegNumbers DEF InitReg, ThreadsTyped, Placed
  <2>3. released = FALSE /\ FALSE \in BOOLEAN
    BY DEF InitReg
  <2>4. released \in BOOLEAN
    BY <2>3, Zenon
  <2>5. BooksTyped
    BY <2>4, RegNumbers DEF InitReg, BooksTyped
  <2>6. QED
    BY <2>2, <2>5
<1>2. ThreadsTyped /\ BooksTyped /\ [NextReg]_regVars => ThreadsTyped' /\ BooksTyped'
  <2> SUFFICES ASSUME ThreadsTyped, BooksTyped, [NextReg]_regVars
               PROVE  ThreadsTyped' /\ BooksTyped'
    OBVIOUS
  <2>1. ASSUME UNCHANGED <<thread, book, attempts, mails, records, stranded>>,
               reserved' \subseteq reserved, held' \subseteq held,
               halted' \subseteq {"grok", "gpt"}, released' \in BOOLEAN
        PROVE  ThreadsTyped' /\ BooksTyped'
    BY <2>1 DEF ThreadsTyped, BooksTyped, Placed
  <2>2. CASE UNCHANGED regVars
    BY <2>1, <2>2 DEF regVars, BooksTyped
  <2>3. ASSUME NEW j \in {"grok", "gpt"}, Halt(j) PROVE ThreadsTyped' /\ BooksTyped'
    BY <2>1, <2>3 DEF Halt, BooksTyped
  <2>4. CASE EndGpt
    BY <2>1, <2>4 DEF EndGpt, ReleasedHeld, BooksTyped
  <2>5. QED
    BY <2>2, <2>3, <2>4, AskedTyped, ReadTyped, SignTyped, WrittenTyped, GivenTyped, BeginsTyped
       DEF NextReg
<1>3. ThreadsTyped /\ BooksTyped => RegTypeOK
  BY RegTypes DEF ThreadsTyped
<1>4. QED
  BY <1>1, <1>2, <1>3, PTL DEF RegSpec
=============================================================================
