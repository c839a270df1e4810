---------------------------- MODULE MailDomains ----------------------------
(***************************************************************************)
(* The domains of self-hosted mail addresses (grok_register_ttk.py): the    *)
(* registering threads draw one for each attempt (_pick_cf_domain), and     *)
(* those that get refused, or get no code several times in a row, are left  *)
(* alone for a while.  The lock is taken anew for each change; the looks at *)
(* the domains, one after the other, are one step here.                     *)
(***************************************************************************)
EXTENDS Naturals, FiniteSets

CONSTANTS
  Pickers,      \* registering threads
  Domains,      \* defaultDomains
  Modes,        \* subset of {"any", "shuffle"}: cloudflare_domain_select
  Strikes,      \* cloudflare_domain_otp_strikes
  RestTime,     \* cloudflare_domain_cooldown_sec
  MaxTime       \* bound

ASSUME MailDomainsAssumption ==
  /\ Modes \subseteq {"any", "shuffle"} /\ Modes # {} /\ Domains # {}
  /\ {Strikes, RestTime} \subseteq Nat \ {0} /\ MaxTime \in Nat

VARIABLES
  now,
  mode,     \* "any": random, or by turns with an index the threads do not lock
  rest,     \* _cf_domain_cooldowns: domain -> until when
  strikes,  \* _cf_otp_strikes
  deck,     \* _cf_domain_deck, in an order left to chance
  picker    \* thread -> its locals; "looked" (when it last saw who rests) and "whom"
            \* (whom it offers) are history, read by the property only

mailDomainsVars == <<now, mode, rest, strikes, deck, picker>>

NotPicking == [pc |-> "idle", offer |-> {}, until |-> 0, domain |-> "none", looked |-> 0,
               whom |-> "rested"]

InitMailDomains ==
  /\ now = 0 /\ mode \in Modes
  /\ rest = [d \in Domains |-> 0] /\ strikes = [d \in Domains |-> 0]
  /\ deck = {}
  /\ picker = [w \in Pickers |-> NotPicking]

Rested == {d \in Domains : rest[d] <= now}

-----------------------------------------------------------------------------
(* _pick_cf_domain *)

Offered(domains, whom) ==
  [pc |-> "offer", offer |-> domains, until |-> 0, domain |-> "none", looked |-> now,
   whom |-> whom]

PickBegins(w) ==
  /\ picker[w].pc = "idle" /\ Rested # {}
  /\ picker' = [picker EXCEPT ![w] = Offered(Rested, "rested")]
  /\ UNCHANGED <<now, mode, rest, strikes, deck>>

\* All rest: wait for the first that will not, for as long as it had to go and a second.
PickWaits(w) ==
  /\ picker[w].pc = "idle" /\ Rested = {}
  /\ \E d \in Domains :
       /\ \A e \in Domains : rest[d] <= rest[e]
       /\ picker' = [picker EXCEPT ![w] =
            [pc |-> "waiting", offer |-> {}, until |-> rest[d] + 1, domain |-> d,
             looked |-> now, whom |-> "rested"]]
  /\ UNCHANGED <<now, mode, rest, strikes, deck>>

\* A domain that rests may be offered only if all do: the first was tired out again.
OfferAll       == Domains                          \* mutant: not looked at again
OfferAfterWait == IF Rested = {} THEN Domains ELSE Rested

WaitEnds(w) ==
  /\ picker[w].pc = "waiting"
  /\ rest[picker[w].domain] <= now \/ picker[w].until <= now
  /\ picker' = [picker EXCEPT ![w] =
                   Offered(OfferAfterWait, IF Rested = {} THEN "all" ELSE "rested")]
  /\ UNCHANGED <<now, mode, rest, strikes, deck>>

Handed(w, d) == picker' = [picker EXCEPT ![w] = [NotPicking EXCEPT !.pc = "has", !.domain = d]]

\* random, round_robin
PickAny(w, d) ==
  /\ picker[w].pc = "offer" /\ mode = "any" /\ d \in picker[w].offer
  /\ Handed(w, d)
  /\ UNCHANGED <<now, mode, rest, strikes, deck>>

\* shuffle: a deck of what is offered ...
PickDealt(w, d) ==
  /\ picker[w].pc = "offer" /\ mode = "shuffle" /\ deck = {} /\ d \in picker[w].offer
  /\ deck' = picker[w].offer \ {d}
  /\ Handed(w, d)
  /\ UNCHANGED <<now, mode, rest, strikes>>

\* ... is used up, whatever has become of its domains since.
PickDrawn(w, d) ==
  /\ picker[w].pc = "offer" /\ mode = "shuffle" /\ d \in deck
  /\ deck' = deck \ {d}
  /\ Handed(w, d)
  /\ UNCHANGED <<now, mode, rest, strikes>>

-----------------------------------------------------------------------------
(* What becomes of the address. *)

\* mark_cf_domain_cooldown
Tires(d) == rest' = [rest EXCEPT ![d] = now + RestTime]

Refused(w) ==
  /\ picker[w].pc = "has"
  /\ Tires(picker[w].domain)
  /\ picker' = [picker EXCEPT ![w] = NotPicking]
  /\ UNCHANGED <<now, mode, strikes, deck>>

\* cf_note_otp_success
CodeCame(w) ==
  /\ picker[w].pc = "has"
  /\ strikes' = [strikes EXCEPT ![picker[w].domain] = 0]
  /\ picker' = [picker EXCEPT ![w] = NotPicking]
  /\ UNCHANGED <<now, mode, rest, deck>>

\* cf_note_otp_failure: the strike is counted under the lock, ...
NoCode(w) ==
  /\ picker[w].pc = "has"
  /\ LET d == picker[w].domain IN
     /\ strikes' = [strikes EXCEPT ![d] = @ + 1]
     /\ picker' = [picker EXCEPT ![w] = IF strikes[d] + 1 >= Strikes
                                        THEN [@ EXCEPT !.pc = "out"] ELSE NotPicking]
  /\ UNCHANGED <<now, mode, rest, deck>>

\* ... the count taken back under it again, ...
StrikesBack(w) ==
  /\ picker[w].pc = "out"
  /\ strikes' = [strikes EXCEPT ![picker[w].domain] = 0]
  /\ picker' = [picker EXCEPT ![w].pc = "tiring"]
  /\ UNCHANGED <<now, mode, rest, deck>>

\* ... and the domain marked.
StruckOut(w) ==
  /\ picker[w].pc = "tiring"
  /\ Tires(picker[w].domain)
  /\ picker' = [picker EXCEPT ![w] = NotPicking]
  /\ UNCHANGED <<now, mode, strikes, deck>>

\* The attempt failed or succeeded for other reasons, or does not count strikes.
NothingNoted(w) ==
  /\ picker[w].pc = "has"
  /\ picker' = [picker EXCEPT ![w] = NotPicking]
  /\ UNCHANGED <<now, mode, rest, strikes, deck>>

TimePasses ==
  /\ now < MaxTime
  /\ now' = now + 1
  /\ UNCHANGED <<mode, rest, strikes, deck, picker>>

NextMailDomains ==
  \/ \E w \in Pickers :
       \/ PickBegins(w) \/ PickWaits(w) \/ WaitEnds(w)
       \/ \E d \in Domains : PickAny(w, d) \/ PickDealt(w, d) \/ PickDrawn(w, d)
       \/ Refused(w) \/ CodeCame(w) \/ NoCode(w) \/ StrikesBack(w) \/ StruckOut(w)
       \/ NothingNoted(w)
  \/ TimePasses

MailDomainsSpec == InitMailDomains /\ [][NextMailDomains]_mailDomainsVars

-----------------------------------------------------------------------------
(* Properties *)

MailDomainsTypeOK ==
  /\ now \in 0 .. MaxTime /\ mode \in Modes
  /\ rest \in [Domains -> Nat] /\ strikes \in [Domains -> Nat] /\ deck \subseteq Domains
  /\ picker \in [Pickers -> [pc : {"idle", "offer", "waiting", "has", "out", "tiring"},
                             offer : SUBSET Domains, until : Nat,
                             domain : Domains \cup {"none"}, looked : 0 .. MaxTime,
                             whom : {"rested", "all"}]]

\* "冷却中的域名跳过" (grok_register_ttk.py 1478, domains that rest are passed over): a
\* domain that rests is handed out only if it has tired since the pick last looked, or if
\* all of them rested when the wait for one was over.  Not so from a deck that was dealt
\* before (1501-1508).
RestingSkipped ==
  [][\A w \in Pickers, d \in Domains :
       PickAny(w, d) \/ PickDealt(w, d)
         => \/ rest[d] <= now
            \/ rest[d] >= picker[w].looked + RestTime
            \/ picker[w].whom = "all"]_mailDomainsVars
=============================================================================
