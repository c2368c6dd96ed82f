---------------------------- MODULE PairingLedger ----------------------------
(***************************************************************************)
(* What the relay promises about pairing, without sockets, links or        *)
(* messages: a desktop has at most one code on offer, a code is on offer   *)
(* for one desktop, and a code in time is traded for exactly one token of  *)
(* that desktop.  A restart forgets everything.                            *)
(***************************************************************************)
EXTENDS Naturals

CONSTANTS DesktopIds, Codes, Tokens, TTL

VARIABLES
    clock,
    offer,    \* per desktop, the codes on offer with their deadlines
    granted   \* the tokens traded for codes, with their desktops

ledgerVars == <<clock, offer, granted>>

Offer == [code : Codes, deadline : Nat]

LedgerInit ==
    /\ clock = 0
    /\ offer = [d \in DesktopIds |-> {}]
    /\ granted = {}

\* A new code replaces what the desktop had on offer and is nobody else's.
Publish(d, c) ==
    /\ \A e \in DesktopIds \ {d} : \A o \in offer[e] : o.code # c
    /\ offer' = [offer EXCEPT ![d] = {[code |-> c, deadline |-> clock + TTL]}]
    /\ UNCHANGED <<clock, granted>>

\* A code within its deadline is used up by one token never granted before.
Redeem(d, o, t) ==
    /\ o \in offer[d]
    /\ clock <= o.deadline
    /\ \A g \in granted : g.token # t
    /\ offer' = [offer EXCEPT ![d] = @ \ {o}]
    /\ granted' = granted \cup {[token |-> t, desktop |-> d]}
    /\ UNCHANGED clock

\* A code past its deadline is only ever withdrawn.
Withdraw(d, o) ==
    /\ o \in offer[d]
    /\ clock > o.deadline
    /\ offer' = [offer EXCEPT ![d] = @ \ {o}]
    /\ UNCHANGED <<clock, granted>>

Advance == clock' = clock + 1 /\ UNCHANGED <<offer, granted>>

Forget ==
    /\ offer' = [d \in DesktopIds |-> {}]
    /\ granted' = {}
    /\ UNCHANGED clock

LedgerNext ==
    \/ \E d \in DesktopIds, c \in Codes : Publish(d, c)
    \/ \E d \in DesktopIds : \E o \in offer[d] :
          Withdraw(d, o) \/ \E t \in Tokens : Redeem(d, o, t)
    \/ Advance
    \/ Forget

LedgerSpec == LedgerInit /\ [][LedgerNext]_ledgerVars
=============================================================================
