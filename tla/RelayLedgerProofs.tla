-------------------------- MODULE RelayLedgerProofs --------------------------
(***************************************************************************)
(* Every behaviour of the relay is a behaviour of the pairing ledger, for  *)
(* all desktops, codes, tokens, lifetimes and restarts.                    *)
(***************************************************************************)
EXTENDS RelayLedger, RelayProofs

\* The methods of RelayState that change its maps are expanded everywhere.
USE DEF RegisterDesktop, RemoveDesktopBySocket, RemovePendingForDesktop,
        LinkMobile, UnlinkMobileBySocket

\* Grants of an earlier run of the relay never count as grants of this one.
GrantsPast == \A g \in grants : g.epoch <= epoch

LEMMA GrantsPastInvariant == Spec => []GrantsPast
<1>1. Init => GrantsPast
  BY DEF Init, GrantsPast
<1>2. TypeOK /\ GrantsPast /\ [Next]_vars => GrantsPast'
  <2> SUFFICES ASSUME TypeOK, GrantsPast, [Next]_vars PROVE GrantsPast'
    OBVIOUS
  <2>1. CASE UNCHANGED <<grants, epoch>>
    BY <2>1 DEF GrantsPast
  <2>2. ASSUME NEW m \in MobileSockets, NEW d \in DesktopIds, NEW c \in Codes,
               NEW dev \in Devices, PairAccepted(m, d, c, dev)
        PROVE  GrantsPast'
    BY <2>2 DEF PairAccepted, GrantsPast, TypeOK
  <2>3. CASE RelayRestart
    <3>1. epoch' = epoch + 1 /\ grants' = grants /\ grants \subseteq Grant
      BY <2>3 DEF RelayRestart, TypeOK
    <3>2. QED
      BY <3>1 DEF GrantsPast, TypeOK, Grant
  <2>4. ASSUME NEW s \in DesktopSockets, DesktopNext(s)
        PROVE  UNCHANGED <<grants, epoch>>
    BY <2>4 DEF DesktopNext, DesktopRegister, PairingCreate, DesktopResponse,
       DesktopEvent, DesktopClose
  <2>5. ASSUME NEW m \in MobileSockets, MobileNext(m)
        PROVE  \/ UNCHANGED <<grants, epoch>>
               \/ \E d \in DesktopIds, c \in Codes, dev \in Devices :
                     PairAccepted(m, d, c, dev)
    BY <2>5 DEF MobileNext, PairRefused, ResumeRefused, ResumeAccepted,
       ForwardRefused, Forward, MobileClose
  <2>6. CASE \/ \E d \in DesktopIds, r \in RequestIds : RequestTimeout(d, r)
             \/ \E s \in Sockets : Connect(s) \/ Drop(s)
             \/ Tick
             \/ UNCHANGED vars
    BY <2>1, <2>6 DEF RequestTimeout, Connect, Drop, Tick, vars
  <2>7. QED
    BY <2>1, <2>2, <2>3, <2>4, <2>5, <2>6 DEF Next
<1>3. QED
  BY <1>1, <1>2, TypeCorrect, PTL DEF Spec

\* What a step leaves alone in the maps it leaves alone in the ledger.
LEMMA LedgerStutters ==
    UNCHANGED <<now, pairings, grants, epoch>> => UNCHANGED Ledger!ledgerVars
BY DEF Ledger!ledgerVars, OffersOf, GrantsNow

\* Removing a code that a desktop offers removes that offer and no other.
LEMMA OfferRemoved ==
    ASSUME TypeOK, NEW d \in DesktopIds, NEW c \in Codes, Offered(d, c),
           pairings' = [pairings EXCEPT ![c] = None]
    PROVE  LET o == [code |-> c, deadline |-> pairings[c].expiresAt]
           IN  /\ o \in OffersOf(d)
               /\ [e \in DesktopIds |-> OffersOf(e)']
                     = [[e \in DesktopIds |-> OffersOf(e)] EXCEPT ![d] = @ \ {o}]
<1> DEFINE o == [code |-> c, deadline |-> pairings[c].expiresAt]
<1>1. o \in OffersOf(d)
  BY DEF OffersOf, Offered
<1>2. \A k \in Codes : pairings'[k] = IF k = c THEN None ELSE pairings[k]
  BY DEF TypeOK
<1>3. ASSUME NEW e \in DesktopIds
      PROVE  OffersOf(e)' = IF e = d THEN OffersOf(e) \ {o} ELSE OffersOf(e)
  <2>1. OffersOf(e)' =
          {[code |-> k, deadline |-> pairings'[k].expiresAt] :
             k \in {j \in Codes : pairings'[j] # None /\ pairings'[j].desktop = e}}
    BY DEF OffersOf
  <2>2. OffersOf(e)' =
          {[code |-> k, deadline |-> pairings[k].expiresAt] :
             k \in {j \in Codes : /\ j # c
                                  /\ pairings[j] # None
                                  /\ pairings[j].desktop = e}}
    BY <1>2, <2>1
  <2>3. CASE e = d
    BY <2>2, <2>3 DEF OffersOf
  <2>4. CASE e # d
    BY <2>2, <2>4 DEF OffersOf, Offered
  <2>5. QED
    BY <2>3, <2>4
<1>4. QED
  BY <1>1, <1>3

\* The relay's pairing handlers do what the ledger allows and nothing else:
\* a code is replaced by a newer one of its desktop, traded in time for one
\* token never issued before, withdrawn when late, or lost in a restart.
THEOREM RelayImplementsLedger == Spec => RefinesLedger
<1> DEFINE offers == [d \in DesktopIds |-> OffersOf(d)]
<1>1. Init => Ledger!LedgerInit
  BY DEF Init, Ledger!LedgerInit, OffersOf, GrantsNow
<1>2. TypeOK /\ GrantsPast /\ [Next]_vars => [Ledger!LedgerNext]_(Ledger!ledgerVars)
  <2> SUFFICES ASSUME TypeOK, GrantsPast, [Next]_vars
               PROVE  Ledger!LedgerNext \/ UNCHANGED Ledger!ledgerVars
    OBVIOUS
  <2>1. CASE UNCHANGED <<now, pairings, grants, epoch>>
    BY <2>1, LedgerStutters
  <2>2. ASSUME NEW s \in DesktopSockets, NEW c \in Codes, PairingCreate(s, c),
               pairings' # pairings
        PROVE  Ledger!LedgerNext
    <3>1. PICK d \in DesktopIds :
             /\ CodesWithout(d)[c] = None
             /\ pairings' = [CodesWithout(d) EXCEPT ![c] =
                   [desktop |-> d, expiresAt |-> now + PairingTTL]]
      BY <2>2 DEF PairingCreate
    <3>2. UNCHANGED <<now, grants, epoch>>
      BY <2>2 DEF PairingCreate
    <3>3. \A e \in DesktopIds \ {d} : \A o \in OffersOf(e) : o.code # c
      BY <3>1 DEF CodesWithout, OffersOf
    <3>4. \A k \in Codes :
             pairings'[k] = IF k = c
                            THEN [desktop |-> d, expiresAt |-> now + PairingTTL]
                            ELSE IF pairings[k] # None /\ pairings[k].desktop = d
                                 THEN None ELSE pairings[k]
      BY <3>1 DEF CodesWithout
    <3>5. [desktop |-> d, expiresAt |-> now + PairingTTL] # None
      BY NoneAssumption, TimeAssumption DEF TypeOK
    <3>6. OffersOf(d)' = {[code |-> c, deadline |-> now + PairingTTL]}
      BY <3>4, <3>5 DEF OffersOf
    <3>7. ASSUME NEW e \in DesktopIds \ {d}
          PROVE  OffersOf(e)' = OffersOf(e)
      <4>1. \A k \in Codes :
               /\ (pairings'[k] # None /\ pairings'[k].desktop = e)
                     <=> (pairings[k] # None /\ pairings[k].desktop = e)
               /\ pairings'[k] # None /\ pairings'[k].desktop = e
                     => pairings'[k] = pairings[k]
        BY <3>1, <3>4, <3>5 DEF CodesWithout
      <4>2. QED
        BY <4>1 DEF OffersOf
    <3>8. Ledger!Publish(d, c)
      BY <3>2, <3>3, <3>6, <3>7 DEF Ledger!Publish, GrantsNow
    <3>9. QED
      BY <3>8 DEF Ledger!LedgerNext
  <2>3. ASSUME NEW m \in MobileSockets, NEW d \in DesktopIds, NEW c \in Codes,
               PairRefused(m, d, c), pairings' # pairings
        PROVE  Ledger!LedgerNext
    <3> DEFINE o == [code |-> c, deadline |-> pairings[c].expiresAt]
    <3>1. /\ Offered(d, c)
          /\ now > pairings[c].expiresAt
          /\ pairings' = [pairings EXCEPT ![c] = None]
          /\ UNCHANGED <<now, grants, epoch>>
      BY <2>3 DEF PairRefused
    <3>2. /\ o \in OffersOf(d)
          /\ [e \in DesktopIds |-> OffersOf(e)']
                = [[e \in DesktopIds |-> OffersOf(e)] EXCEPT ![d] = @ \ {o}]
      BY <3>1, OfferRemoved
    <3>3. Ledger!Withdraw(d, o)
      BY <3>1, <3>2 DEF Ledger!Withdraw, GrantsNow
    <3>4. QED
      BY <3>2, <3>3 DEF Ledger!LedgerNext
  <2>4. ASSUME NEW m \in MobileSockets, NEW d \in DesktopIds, NEW c \in Codes,
               NEW dev \in Devices, PairAccepted(m, d, c, dev)
        PROVE  Ledger!LedgerNext
    <3> DEFINE o == [code |-> c, deadline |-> pairings[c].expiresAt]
    <3>1. /\ Offered(d, c)
          /\ now <= pairings[c].expiresAt
          /\ pairings' = [pairings EXCEPT ![c] = None]
          /\ UNCHANGED <<now, epoch>>
      BY <2>4 DEF PairAccepted
    <3>2. /\ o \in OffersOf(d)
          /\ [e \in DesktopIds |-> OffersOf(e)']
                = [[e \in DesktopIds |-> OffersOf(e)] EXCEPT ![d] = @ \ {o}]
      BY <3>1, OfferRemoved
    <3>3. PICK t \in FreshTokens :
             grants' = grants \cup {[token |-> t, desktop |-> d,
                                     device |-> dev, epoch |-> epoch]}
      BY <2>4 DEF PairAccepted
    <3>4. t \in Tokens /\ \A g \in GrantsNow : g.token # t
      BY DEF FreshTokens, GrantsNow
    <3>5. GrantsNow' = GrantsNow \cup {[token |-> t, desktop |-> d]}
      <4> DEFINE g == [token |-> t, desktop |-> d, device |-> dev,
                       epoch |-> epoch]
      <4>1. {h \in grants' : h.epoch = epoch} =
               {h \in grants : h.epoch = epoch} \cup {g}
        BY <3>3
      <4>2. g.token = t /\ g.desktop = d
        OBVIOUS
      <4> HIDE DEF g
      <4>3. QED
        BY <3>1, <4>1, <4>2 DEF GrantsNow
    <3>6. Ledger!Redeem(d, o, t)
      BY <3>1, <3>2, <3>4, <3>5 DEF Ledger!Redeem
    <3>7. QED
      BY <3>2, <3>4, <3>6 DEF Ledger!LedgerNext
  <2>5. CASE Tick
    BY <2>5 DEF Tick, relayVars, Ledger!LedgerNext, Ledger!Advance, OffersOf,
       GrantsNow
  <2>6. CASE RelayRestart
    <3>1. /\ pairings' = [c \in Codes |-> None]
          /\ epoch' = epoch + 1
          /\ UNCHANGED <<now, grants>>
      BY <2>6 DEF RelayRestart
    <3>2. \A d \in DesktopIds : OffersOf(d)' = {}
      BY <3>1 DEF OffersOf
    <3>3. \A g \in grants : g.epoch # epoch + 1
      BY DEF GrantsPast, TypeOK, Grant
    <3>4. GrantsNow' = {}
      BY <3>1, <3>3 DEF GrantsNow
    <3>5. QED
      BY <3>1, <3>2, <3>4 DEF Ledger!LedgerNext, Ledger!Forget
  <2>7. ASSUME NEW s \in DesktopSockets, DesktopNext(s)
        PROVE  \/ UNCHANGED <<now, pairings, grants, epoch>>
               \/ \E c \in Codes : PairingCreate(s, c) /\ pairings' # pairings
    BY <2>7 DEF DesktopNext, DesktopRegister, PairingCreate, DesktopResponse,
       DesktopEvent, DesktopClose, relayVars
  <2>8. ASSUME NEW m \in MobileSockets, MobileNext(m)
        PROVE  \/ UNCHANGED <<now, pairings, grants, epoch>>
               \/ \E d \in DesktopIds, c \in Codes :
                     \/ PairRefused(m, d, c) /\ pairings' # pairings
                     \/ \E dev \in Devices : PairAccepted(m, d, c, dev)
    BY <2>8 DEF MobileNext, PairRefused, ResumeRefused, ResumeAccepted,
       ForwardRefused, Forward, MobileClose, relayVars
  <2>9. CASE \/ \E d \in DesktopIds, r \in RequestIds : RequestTimeout(d, r)
             \/ \E s \in Sockets : Connect(s) \/ Drop(s)
             \/ UNCHANGED vars
    BY <2>1, <2>9 DEF RequestTimeout, Connect, Drop, vars, relayVars
  <2>10. QED
    BY <2>1, <2>2, <2>3, <2>4, <2>5, <2>6, <2>7, <2>8, <2>9 DEF Next
<1>3. QED
  BY <1>1, <1>2, TypeCorrect, GrantsPastInvariant, PTL
  DEF Spec, RefinesLedger, Ledger!LedgerSpec
=============================================================================
