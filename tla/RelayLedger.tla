----------------------------- MODULE RelayLedger -----------------------------
(***************************************************************************)
(* The relay implements the pairing ledger: the codes of a desktop are its *)
(* entries of the pairings map, the tokens granted are those issued since  *)
(* the relay process started.                                              *)
(***************************************************************************)
EXTENDS Relay

OffersOf(d) ==
    {[code |-> c, deadline |-> pairings[c].expiresAt] :
        c \in {k \in Codes : pairings[k] # None /\ pairings[k].desktop = d}}

GrantsNow ==
    {[token |-> g.token, desktop |-> g.desktop] :
        g \in {h \in grants : h.epoch = epoch}}

Ledger == INSTANCE PairingLedger WITH
    TTL <- PairingTTL,
    clock <- now,
    offer <- [d \in DesktopIds |-> OffersOf(d)],
    granted <- GrantsNow

\* Codes are single-use, scoped to one desktop, replaced by a newer one and
\* dead after their deadline, and each token comes from one code
\* (docs/protocol-contracts.md:985, state.ts, createPairing, consumePairing).
RefinesLedger == Ledger!LedgerSpec
=============================================================================
