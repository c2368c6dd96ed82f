----------------------------- MODULE RelayProofs -----------------------------
(***************************************************************************)
(* Theorems about Relay for every number of desktops, phones, codes,       *)
(* tokens, requests, ticks and restarts.                                   *)
(***************************************************************************)
EXTENDS Relay, TLAPS

\* The methods of RelayState that change its maps are expanded everywhere.
USE DEF RegisterDesktop, RemoveDesktopBySocket, RemovePendingForDesktop,
        LinkMobile, UnlinkMobileBySocket

\* Every handler hands out messages only.
LEMMA OutTyped == TypeOK /\ [Next]_vars => out' \subseteq Message
<1> SUFFICES ASSUME TypeOK, [Next]_vars PROVE out' \subseteq Message
  OBVIOUS
<1> USE DEF TypeOK, Sockets, Settled, EventTypes, ErrorTypes, MessageTypes,
        Message, Msg, Send
<1>1. ASSUME NEW s \in DesktopSockets, NEW d \in DesktopIds,
             DesktopRegister(s, d)
      PROVE  out' \subseteq Message
  BY <1>1 DEF DesktopRegister
<1>2. ASSUME NEW s \in DesktopSockets, NEW c \in Codes, PairingCreate(s, c)
      PROVE  out' \subseteq Message
  BY <1>2 DEF PairingCreate
<1>3. ASSUME NEW s \in DesktopSockets, NEW q \in inbox[s], DesktopResponse(s, q)
      PROVE  out' \subseteq Message
  <2>1. q.id \in RequestIds /\ q.origin \in MobileSockets
    BY DEF Request
  <2>2. \A d \in DesktopIds : pending[d][q.id] # None =>
            pending[d][q.id] \in MobileSockets
    BY <2>1
  <2>3. QED
    BY <1>3, <2>1, <2>2 DEF DesktopResponse
<1>4. ASSUME NEW s \in DesktopSockets, NEW kind \in EventTypes,
             DesktopEvent(s, kind)
      PROVE  out' \subseteq Message
  <2>1. \A d \in DesktopIds : LinkedTo(d) \subseteq MobileSockets
    BY DEF LinkedTo, Link
  <2>2. QED
    BY <1>4, <2>1 DEF DesktopEvent
<1>5. ASSUME NEW s \in DesktopSockets, DesktopClose(s)
      PROVE  out' \subseteq Message
  BY <1>5 DEF DesktopClose
<1>6. ASSUME NEW m \in MobileSockets, NEW d \in DesktopIds, NEW c \in Codes,
             PairRefused(m, d, c)
      PROVE  out' \subseteq Message
  BY <1>6 DEF PairRefused
<1>7. ASSUME NEW m \in MobileSockets, NEW d \in DesktopIds, NEW c \in Codes,
             NEW dev \in Devices, PairAccepted(m, d, c, dev)
      PROVE  out' \subseteq Message
  BY <1>7 DEF PairAccepted
<1>8. ASSUME NEW m \in MobileSockets, NEW d \in DesktopIds,
             NEW dev \in Devices, NEW t \in Tokens,
             ResumeRefused(m, d, dev, t) \/ ResumeAccepted(m, d, dev, t)
      PROVE  out' \subseteq Message
  BY <1>8 DEF ResumeRefused, ResumeAccepted
<1>9. ASSUME NEW m \in MobileSockets, NEW r \in RequestIds,
             ForwardRefused(m, r) \/ Forward(m, r)
      PROVE  out' \subseteq Message
  <2>1. CASE ForwardRefused(m, r)
    BY <2>1 DEF ForwardRefused
  <2>2. CASE Forward(m, r)
    <3>1. PICK l \in links : /\ desktops[l.desktop] # None
                             /\ Send({Msg(desktops[l.desktop], "request", m)})
      BY <2>2 DEF Forward
    <3>2. l.desktop \in DesktopIds
      BY DEF Link
    <3>3. QED
      BY <3>1, <3>2
  <2>3. QED
    BY <1>9, <2>1, <2>2
<1>10. ASSUME NEW d \in DesktopIds, NEW r \in RequestIds, RequestTimeout(d, r)
       PROVE  out' \subseteq Message
  BY <1>10 DEF RequestTimeout
<1>11. ASSUME NEW m \in MobileSockets, MobileClose(m)
       PROVE  out' \subseteq Message
  BY <1>11 DEF MobileClose, Link
<1>12. CASE (\E s \in Sockets : Connect(s) \/ Drop(s)) \/ Tick \/ RelayRestart
            \/ UNCHANGED vars
  BY <1>12 DEF Connect, Drop, Tick, RelayRestart, vars
<1>13. QED
  BY <1>1, <1>2, <1>3, <1>4, <1>5, <1>6, <1>7, <1>8, <1>9, <1>10, <1>11, <1>12
  DEF Next, DesktopNext, MobileNext

\* The relay's maps and the clients' books keep their types: no handler
\* stores a phone among desktops, a foreign verdict or an unknown token.
THEOREM TypeCorrect == Spec => []TypeOK
<1>1. Init => TypeOK
  BY DEF Init, TypeOK, Outcomes
<1>2. TypeOK /\ [Next]_vars => TypeOK'
  <2> SUFFICES ASSUME TypeOK, [Next]_vars PROVE TypeOK'
    OBVIOUS
  <2>0. out' \subseteq Message
    BY OutTyped
  <2>v. {"result", "timeout", "offline", "duplicate", "notPaired", "lost",
         "waiting"} \subseteq Outcomes
    BY DEF Outcomes, Settled
  <2> USE <2>0, <2>v, TimeAssumption DEF TypeOK, Reply
  <2>1. ASSUME NEW s \in DesktopSockets, NEW d \in DesktopIds,
               DesktopRegister(s, d)
        PROVE  TypeOK'
    BY <2>1 DEF DesktopRegister
  <2>2. ASSUME NEW s \in DesktopSockets, NEW c \in Codes, PairingCreate(s, c)
        PROVE  TypeOK'
    <3>1. \A d \in DesktopIds :
             /\ CodesWithout(d) \in [Codes -> Pairing \cup {None}]
             /\ [desktop |-> d, expiresAt |-> now + PairingTTL] \in Pairing
      BY DEF CodesWithout, Pairing
    <3>2. pairings' \in [Codes -> Pairing \cup {None}]
      BY <2>2, <3>1 DEF PairingCreate
    <3>3. QED
      BY <2>2, <3>2 DEF PairingCreate, clientVars
  <2>3. ASSUME NEW s \in DesktopSockets, NEW q \in inbox[s],
               DesktopResponse(s, q)
        PROVE  TypeOK'
    <3>1. q.id \in RequestIds
      BY DEF Request
    <3>2. inbox' \in [DesktopSockets -> SUBSET Request]
      BY <2>3 DEF DesktopResponse
    <3>3. CASE UNCHANGED <<pending, outcome>>
      BY <2>3, <3>2, <3>3 DEF DesktopResponse
    <3>4. ASSUME NEW d \in DesktopIds,
                 pending[d][q.id] # None,
                 pending' = [pending EXCEPT ![d][q.id] = None],
                 Reply(pending[d][q.id], q.id, "result")
          PROVE  TypeOK'
      <4>1. pending' \in [DesktopIds -> [RequestIds -> MobileSockets \cup {None}]]
        BY <3>1, <3>4
      <4>2. outcome' \in [MobileSockets -> [RequestIds -> Outcomes]]
        BY <3>1, <3>4
      <4>3. QED
        BY <2>3, <3>2, <4>1, <4>2 DEF DesktopResponse
    <3>5. QED
      BY <2>3, <3>3, <3>4 DEF DesktopResponse, Taken
  <2>4. ASSUME NEW s \in DesktopSockets, NEW kind \in EventTypes,
               DesktopEvent(s, kind)
        PROVE  TypeOK'
    BY <2>4 DEF DesktopEvent, relayVars, clientVars
  <2>5. ASSUME NEW s \in DesktopSockets, DesktopClose(s)
        PROVE  TypeOK'
    <3>1. socket' \in [Sockets -> {"new", "open", "closing", "closed"}]
      BY <2>5 DEF DesktopClose
    <3>2. CASE UNCHANGED <<desktops, pending, outcome>>
      BY <2>5, <3>1, <3>2 DEF DesktopClose
    <3>3. ASSUME NEW d \in DesktopIds,
                 desktops' = [desktops EXCEPT ![d] = None],
                 pending' = [pending EXCEPT ![d] = [r \in RequestIds |-> None]],
                 outcome' = [m \in MobileSockets |-> [r \in RequestIds |->
                   IF pending[d][r] = m /\ socket[m] = "open"
                   THEN "offline" ELSE outcome[m][r]]]
          PROVE  TypeOK'
      <4>1. /\ desktops' \in [DesktopIds -> DesktopSockets \cup {None}]
            /\ pending' \in [DesktopIds -> [RequestIds -> MobileSockets \cup {None}]]
        BY <3>3
      <4>2. outcome' \in [MobileSockets -> [RequestIds -> Outcomes]]
        BY <3>3
      <4>3. QED
        BY <2>5, <3>1, <4>1, <4>2 DEF DesktopClose
    <3>4. QED
      BY <2>5, <3>2, <3>3 DEF DesktopClose
  <2>6. ASSUME NEW m \in MobileSockets, NEW d \in DesktopIds, NEW c \in Codes,
               PairRefused(m, d, c)
        PROVE  TypeOK'
    BY <2>6 DEF PairRefused, clientVars
  <2>7. ASSUME NEW m \in MobileSockets, NEW d \in DesktopIds, NEW c \in Codes,
               NEW dev \in Devices, PairAccepted(m, d, c, dev)
        PROVE  TypeOK'
    BY <2>7 DEF PairAccepted, clientVars, FreshTokens, MobileSession, Link, Grant
  <2>8. ASSUME NEW m \in MobileSockets, NEW d \in DesktopIds,
               NEW dev \in Devices, NEW t \in Tokens,
               ResumeRefused(m, d, dev, t)
        PROVE  TypeOK'
    BY <2>8 DEF ResumeRefused, clientVars
  <2>9. ASSUME NEW m \in MobileSockets, NEW d \in DesktopIds,
               NEW dev \in Devices, NEW t \in Tokens,
               ResumeAccepted(m, d, dev, t)
        PROVE  TypeOK'
    BY <2>9 DEF ResumeAccepted, clientVars, Link
  <2>10. ASSUME NEW m \in MobileSockets, NEW r \in RequestIds,
                ForwardRefused(m, r)
         PROVE  TypeOK'
    BY <2>10 DEF ForwardRefused, relayVars
  <2>11. ASSUME NEW m \in MobileSockets, NEW r \in RequestIds, Forward(m, r)
         PROVE  TypeOK'
    BY <2>11 DEF Forward, Link, Request
  <2>12. ASSUME NEW d \in DesktopIds, NEW r \in RequestIds,
                RequestTimeout(d, r)
         PROVE  TypeOK'
    BY <2>12 DEF RequestTimeout, Taken
  <2>13. ASSUME NEW m \in MobileSockets, MobileClose(m)
         PROVE  TypeOK'
    BY <2>13 DEF MobileClose, Sockets
  <2>14. ASSUME NEW s \in Sockets, Connect(s) \/ Drop(s)
         PROVE  TypeOK'
    BY <2>14 DEF Connect, Drop, relayVars, clientVars
  <2>15. CASE Tick
    BY <2>15 DEF Tick, relayVars, clientVars
  <2>16. CASE RelayRestart
    BY <2>16 DEF RelayRestart
  <2>17. CASE UNCHANGED vars
    BY <2>17 DEF vars, relayVars, clientVars
  <2>18. QED
    BY <2>1, <2>2, <2>3, <2>4, <2>5, <2>6, <2>7, <2>8, <2>9, <2>10, <2>11,
       <2>12, <2>13, <2>14, <2>15, <2>16, <2>17
    DEF Next, DesktopNext, MobileNext
<1>3. QED
  BY <1>1, <1>2, PTL DEF Spec
-----------------------------------------------------------------------------
\* What RegisteredIsReachable needs to be inductive: a daemon hears that it is
\* registered only on a socket that has been connected.
NewIsUnacked ==
    \A s \in DesktopSockets : socket[s] = "new" => ackedAs[s] = None

\* A registered daemon on an open socket is never silently replaced: whoever
\* takes its desktopId closes its socket in the same handler.
THEOREM NoSilentSupersession == Spec => []RegisteredIsReachable
<1> DEFINE Inv == RegisteredIsReachable /\ NewIsUnacked
<1>1. Init => Inv
  BY NoneAssumption DEF Init, RegisteredIsReachable, NewIsUnacked, Sockets
<1>2. TypeOK /\ Inv /\ [Next]_vars => Inv'
  <2> SUFFICES ASSUME TypeOK, Inv, [Next]_vars PROVE Inv'
    OBVIOUS
  <2> USE NoneAssumption
      DEF TypeOK, RegisteredIsReachable, NewIsUnacked, Sockets
  <2>1. ASSUME NEW s \in DesktopSockets, NEW d \in DesktopIds,
               DesktopRegister(s, d)
        PROVE  Inv'
    BY <2>1 DEF DesktopRegister, Superseded
  <2>2. ASSUME NEW s \in DesktopSockets, DesktopClose(s)
        PROVE  Inv'
    BY <2>2 DEF DesktopClose
  <2>3. ASSUME NEW s \in Sockets, Connect(s) \/ Drop(s)
        PROVE  Inv'
    <3>1. CASE Drop(s)
      BY <3>1 DEF Drop, relayVars, clientVars
    <3>2. CASE Connect(s)
      BY <3>2 DEF Connect, relayVars, clientVars
    <3>3. QED
      BY <2>3, <3>1, <3>2
  <2>4. CASE RelayRestart
    BY <2>4 DEF RelayRestart
  <2>5. ASSUME NEW m \in MobileSockets, MobileClose(m)
        PROVE  Inv'
    BY <2>5, SocketsAssumption DEF MobileClose
  <2>6. CASE UNCHANGED <<socket, desktops, ackedAs>>
    BY <2>6
  <2>7. ASSUME NEW s \in DesktopSockets, DesktopNext(s)
        PROVE  Inv'
    <3>1. ASSUME NEW c \in Codes, PairingCreate(s, c)
          PROVE  UNCHANGED <<socket, desktops, ackedAs>>
      BY <3>1 DEF PairingCreate, clientVars
    <3>2. ASSUME NEW q \in inbox[s], DesktopResponse(s, q)
          PROVE  UNCHANGED <<socket, desktops, ackedAs>>
      BY <3>2 DEF DesktopResponse
    <3>3. ASSUME NEW kind \in EventTypes, DesktopEvent(s, kind)
          PROVE  UNCHANGED <<socket, desktops, ackedAs>>
      BY <3>3 DEF DesktopEvent, relayVars, clientVars
    <3>4. QED
      BY <2>1, <2>2, <2>6, <2>7, <3>1, <3>2, <3>3 DEF DesktopNext
  <2>8. ASSUME NEW m \in MobileSockets, MobileNext(m), ~MobileClose(m)
        PROVE  UNCHANGED <<socket, desktops, ackedAs>>
    BY <2>8 DEF MobileNext, PairRefused, PairAccepted, ResumeRefused,
       ResumeAccepted, ForwardRefused, Forward, relayVars, clientVars
  <2>9. ASSUME NEW d \in DesktopIds, NEW r \in RequestIds, RequestTimeout(d, r)
        PROVE  UNCHANGED <<socket, desktops, ackedAs>>
    BY <2>9 DEF RequestTimeout
  <2>10. CASE Tick \/ UNCHANGED vars
    BY <2>6, <2>10 DEF Tick, vars, relayVars, clientVars
  <2>11. QED
    BY <2>3, <2>4, <2>5, <2>6, <2>7, <2>8, <2>9, <2>10 DEF Next
<1>3. QED
  BY <1>1, <1>2, TypeCorrect, PTL DEF Spec

-----------------------------------------------------------------------------
\* What LinksAuthorized needs to be inductive: a stored session was granted in
\* this run of the relay.
SessionsGranted ==
    \A t \in Tokens : sessions[t] # None =>
        [token |-> t, desktop |-> sessions[t].desktop,
         device |-> sessions[t].device, epoch |-> epoch] \in grants

\* No phone is linked without a token granted to its device for that desktop
\* since the relay started, and no closed socket is linked.
THEOREM LinksAreAuthorized == Spec => []LinksAuthorized
<1> DEFINE Inv == LinksAuthorized /\ SessionsGranted
<1>1. Init => Inv
  BY DEF Init, LinksAuthorized, SessionsGranted
<1>2. TypeOK /\ Inv /\ [Next]_vars => Inv'
  <2> SUFFICES ASSUME TypeOK, Inv, [Next]_vars PROVE Inv'
    OBVIOUS
  <2> USE DEF TypeOK, LinksAuthorized, LinkAuthorized, SessionsGranted, Sockets
  <2>1. ASSUME UNCHANGED <<links, grants, sessions, epoch>>,
               \A x \in MobileSockets : socket'[x] = socket[x]
        PROVE  Inv'
    BY <2>1 DEF Link
  <2>2. ASSUME NEW s \in DesktopSockets, DesktopNext(s)
        PROVE  Inv'
    <3>1. UNCHANGED <<links, grants, sessions, epoch>>
      BY <2>2 DEF DesktopNext, DesktopRegister, PairingCreate, DesktopResponse,
         DesktopEvent, DesktopClose, relayVars, clientVars
    <3>2. \A x \in MobileSockets : socket'[x] = socket[x]
      <4>1. ASSUME NEW d \in DesktopIds, DesktopRegister(s, d)
            PROVE  \A x \in MobileSockets : socket'[x] = socket[x]
        BY <4>1, SocketsAssumption, NoneAssumption DEF DesktopRegister, Superseded
      <4>2. CASE DesktopClose(s)
        BY <4>2, SocketsAssumption DEF DesktopClose
      <4>3. CASE UNCHANGED socket
        BY <4>3
      <4>4. QED
        BY <2>2, <4>1, <4>2, <4>3 DEF DesktopNext, PairingCreate,
           DesktopResponse, DesktopEvent
    <3>3. QED
      BY <2>1, <3>1, <3>2
  <2>3. ASSUME NEW m \in MobileSockets, NEW d \in DesktopIds, NEW c \in Codes,
               PairRefused(m, d, c)
        PROVE  Inv'
    BY <2>1, <2>3 DEF PairRefused
  <2>4. ASSUME NEW m \in MobileSockets, NEW d \in DesktopIds, NEW c \in Codes,
               NEW dev \in Devices, PairAccepted(m, d, c, dev)
        PROVE  Inv'
    <3>1. PICK t \in FreshTokens :
            /\ sessions' = [sessions EXCEPT ![t] =
                [desktop |-> d, device |-> dev, expiresAt |-> now + SessionTTL]]
            /\ grants' = grants \cup {[token |-> t, desktop |-> d,
                                       device |-> dev, epoch |-> epoch]}
            /\ links' = links \cup {[socket |-> m, desktop |-> d,
                                     device |-> dev, token |-> t]}
      BY <2>4 DEF PairAccepted
    <3>2. UNCHANGED <<socket, epoch>> /\ Heard(m) /\ ~Linked(m)
      BY <2>4 DEF PairAccepted
    <3>3. LinksAuthorized'
      BY <3>1, <3>2 DEF Heard, Linked
    <3>4. SessionsGranted'
      BY <3>1, <3>2 DEF FreshTokens
    <3>5. QED
      BY <3>3, <3>4
  <2>5. ASSUME NEW m \in MobileSockets, NEW d \in DesktopIds,
               NEW dev \in Devices, NEW t \in Tokens, ResumeRefused(m, d, dev, t)
        PROVE  Inv'
    BY <2>5 DEF ResumeRefused
  <2>6. ASSUME NEW m \in MobileSockets, NEW d \in DesktopIds,
               NEW dev \in Devices, NEW t \in Tokens, ResumeAccepted(m, d, dev, t)
        PROVE  Inv'
    BY <2>6 DEF ResumeAccepted, TokenFits, Heard, Linked
  <2>7. ASSUME NEW m \in MobileSockets, NEW r \in RequestIds,
               ForwardRefused(m, r) \/ Forward(m, r)
        PROVE  Inv'
    BY <2>1, <2>7 DEF ForwardRefused, Forward, relayVars
  <2>8. ASSUME NEW m \in MobileSockets, MobileClose(m)
        PROVE  Inv'
    <3>1. CASE ~Linked(m)
      BY <2>8, <3>1 DEF MobileClose, Linked
    <3>2. CASE Linked(m)
      <4>1. PICK l \in links : l.socket = m /\ links' = links \ {l}
        BY <2>8, <3>2 DEF MobileClose
      <4>2. \A k \in links' : k \in links /\ k.socket # m
        BY <4>1
      <4>3. UNCHANGED <<grants, sessions, epoch>>
        BY <2>8 DEF MobileClose
      <4>4. \A x \in MobileSockets : x # m => socket'[x] = socket[x]
        BY <2>8 DEF MobileClose
      <4>5. QED
        BY <4>2, <4>3, <4>4 DEF Link
    <3>3. QED
      BY <3>1, <3>2
  <2>9. ASSUME NEW d \in DesktopIds, NEW r \in RequestIds, RequestTimeout(d, r)
        PROVE  Inv'
    BY <2>1, <2>9 DEF RequestTimeout
  <2>10. ASSUME NEW s \in Sockets, Connect(s) \/ Drop(s)
         PROVE  Inv'
    <3>1. UNCHANGED <<links, grants, sessions, epoch>>
      BY <2>10 DEF Connect, Drop, relayVars
    <3>2. \A x \in MobileSockets : socket[x] # "closed" => socket'[x] # "closed"
      BY <2>10 DEF Connect, Drop
    <3>3. QED
      BY <3>1, <3>2 DEF Link
  <2>11. CASE Tick \/ UNCHANGED vars
    BY <2>1, <2>11 DEF Tick, vars, relayVars
  <2>12. CASE RelayRestart
    BY <2>12 DEF RelayRestart
  <2>13. QED
    BY <2>2, <2>3, <2>4, <2>5, <2>6, <2>7, <2>8, <2>9, <2>10, <2>11, <2>12
    DEF Next, MobileNext
<1>3. QED
  BY <1>1, <1>2, TypeCorrect, PTL DEF Spec
-----------------------------------------------------------------------------
\* What RequestAccounting needs to be inductive: a phone sends nothing before
\* its websocket is connected.
NewIsIdle ==
    \A m \in MobileSockets, r \in RequestIds :
        socket[m] = "new" => outcome[m][r] = "unsent"

Accounts == RequestAccounting /\ NewIsIdle

\* Removing one entry of the pending table and telling its phone keeps the
\* books: takePending and the timer of addPending both do just that.
LEMMA TakingKeepsAccounts ==
    ASSUME TypeOK, LinksAuthorized, Accounts,
           NEW d \in DesktopIds, NEW r \in RequestIds, NEW verdict \in Settled,
           pending[d][r] # None,
           pending' = Taken(d, r),
           Reply(pending[d][r], r, verdict),
           UNCHANGED <<socket, links>>
    PROVE  Accounts'
<1> DEFINE m == pending[d][r]
<1>1. m \in MobileSockets /\ m # None
  BY DEF TypeOK
<1>2. \A e \in DesktopIds, q \in RequestIds :
         pending'[e][q] = IF e = d /\ q = r THEN None ELSE pending[e][q]
  BY DEF TypeOK, Taken
<1>3. \A n \in MobileSockets, q \in RequestIds :
         outcome'[n][q] = IF n = m /\ q = r
                          THEN IF socket[m] = "open" THEN verdict ELSE "waiting"
                          ELSE outcome[n][q]
  BY <1>1 DEF TypeOK, Reply
<1>4. outcome[m][r] = "waiting" /\ socket[m] # "new"
  BY <1>1 DEF Accounts, RequestAccounting, PendingBelongsToWaiting, NewIsIdle
<1>5. \A e \in DesktopIds : pending[e][r] = m => e = d
  BY <1>1 DEF Accounts, RequestAccounting, PendingBelongsToWaiting,
     LinksAuthorized, Link, TypeOK
<1>6. verdict # "waiting"
  BY DEF Settled
<1> HIDE DEF m
<1>7. PendingBelongsToWaiting'
  <2> SUFFICES ASSUME NEW e \in DesktopIds, NEW q \in RequestIds,
                      pending'[e][q] # None
               PROVE  /\ outcome'[pending'[e][q]][q] = "waiting"
                      /\ \E l \in links' : /\ l.socket = pending'[e][q]
                                           /\ l.desktop = e
    BY DEF PendingBelongsToWaiting
  <2>1. ~(e = d /\ q = r) /\ pending'[e][q] = pending[e][q]
    BY <1>2
  <2>2. pending[e][q] \in MobileSockets
    BY <2>1 DEF TypeOK
  <2>3. ~(pending[e][q] = m /\ q = r)
    BY <1>5, <2>1
  <2>4. QED
    BY <1>3, <2>1, <2>2, <2>3
    DEF Accounts, RequestAccounting, PendingBelongsToWaiting
<1>8. WaitingIsPending'
  BY <1>2, <1>3, <1>6
  DEF Accounts, RequestAccounting, WaitingIsPending, m
<1>9. NewIsIdle'
  BY <1>3, <1>4 DEF Accounts, NewIsIdle
<1>10. QED
  BY <1>7, <1>8, <1>9 DEF Accounts, RequestAccounting

\* The pending table and what the phones wait for agree in every state.
LEMMA AccountsStep ==
    TypeOK /\ LinksAuthorized /\ Accounts /\ [Next]_vars => Accounts'
<1> SUFFICES ASSUME TypeOK, LinksAuthorized, Accounts, [Next]_vars
             PROVE  Accounts'
  OBVIOUS
<1> USE DEF Accounts
<1>1. ASSUME UNCHANGED <<pending, outcome>>, links \subseteq links',
             \A m \in MobileSockets :
                \/ socket'[m] = socket[m]
                \/ socket[m] = "new" /\ socket'[m] = "open"
                \/ socket[m] = "open" /\ socket'[m] = "closing"
      PROVE  Accounts'
  <2>1. PendingBelongsToWaiting'
    BY <1>1 DEF RequestAccounting, PendingBelongsToWaiting
  <2>2. WaitingIsPending' /\ NewIsIdle'
    BY <1>1 DEF RequestAccounting, WaitingIsPending, NewIsIdle
  <2>3. QED
    BY <2>1, <2>2 DEF RequestAccounting
<1>2. ASSUME NEW s \in DesktopSockets, NEW d \in DesktopIds,
             DesktopRegister(s, d)
      PROVE  Accounts'
  <2>1. \A m \in MobileSockets : socket'[m] = socket[m]
    BY <1>2, SocketsAssumption, NoneAssumption DEF DesktopRegister, Superseded, TypeOK, Sockets
  <2>2. QED
    BY <1>1, <1>2, <2>1 DEF DesktopRegister
<1>3. ASSUME NEW s \in DesktopSockets, NEW c \in Codes, PairingCreate(s, c)
      PROVE  Accounts'
  BY <1>1, <1>3 DEF PairingCreate, clientVars
<1>4. ASSUME NEW s \in DesktopSockets, NEW q \in inbox[s], DesktopResponse(s, q)
      PROVE  Accounts'
  <2>1. UNCHANGED <<socket, links>> /\ q.id \in RequestIds
    BY <1>4 DEF DesktopResponse, TypeOK, Request
  <2>2. "result" \in Settled
    BY DEF Settled
  <2>3. ASSUME NEW d \in DesktopIds,
               pending[d][q.id] # None,
               pending' = Taken(d, q.id),
               Reply(pending[d][q.id], q.id, "result")
        PROVE  Accounts'
    <3> HIDE DEF Accounts
    <3>1. QED
      BY <2>1, <2>2, <2>3, TakingKeepsAccounts
  <2>4. CASE UNCHANGED <<pending, outcome>>
    BY <1>1, <2>1, <2>4
  <2>5. QED
    BY <1>4, <2>3, <2>4 DEF DesktopResponse
<1>5. ASSUME NEW s \in DesktopSockets, NEW kind \in EventTypes,
             DesktopEvent(s, kind)
      PROVE  Accounts'
  BY <1>1, <1>5 DEF DesktopEvent, relayVars, clientVars
<1>6. ASSUME NEW s \in DesktopSockets, DesktopClose(s)
      PROVE  Accounts'
  <2>1. links' = links /\ \A m \in MobileSockets : socket'[m] = socket[m]
    BY <1>6, SocketsAssumption DEF DesktopClose, TypeOK, Sockets
  <2>2. ASSUME NEW d \in DesktopIds,
               pending' = [pending EXCEPT ![d] = [r \in RequestIds |-> None]],
               outcome' = [m \in MobileSockets |-> [r \in RequestIds |->
                   IF pending[d][r] = m /\ socket[m] = "open"
                   THEN "offline" ELSE outcome[m][r]]]
        PROVE  Accounts'
    <3>1. \A e \in DesktopIds, r \in RequestIds :
             pending'[e][r] = IF e = d THEN None ELSE pending[e][r]
      BY <2>2 DEF TypeOK
    <3>2. \A m \in MobileSockets, r \in RequestIds :
             outcome'[m][r] = IF pending[d][r] = m /\ socket[m] = "open"
                              THEN "offline" ELSE outcome[m][r]
      BY <2>2
    <3>3. \A e \in DesktopIds, r \in RequestIds :
             pending[e][r] # None /\ pending[d][r] = pending[e][r] => e = d
      BY DEF RequestAccounting, PendingBelongsToWaiting, LinksAuthorized,
         Link, TypeOK
    <3>4. PendingBelongsToWaiting'
      <4> SUFFICES ASSUME NEW e \in DesktopIds, NEW r \in RequestIds,
                          pending'[e][r] # None
                   PROVE  /\ outcome'[pending'[e][r]][r] = "waiting"
                          /\ \E l \in links' : /\ l.socket = pending'[e][r]
                                               /\ l.desktop = e
        BY DEF PendingBelongsToWaiting
      <4>1. e # d /\ pending'[e][r] = pending[e][r]
        BY <3>1
      <4>2. pending[e][r] \in MobileSockets
        BY <4>1 DEF TypeOK
      <4>3. QED
        BY <2>1, <3>2, <3>3, <4>1, <4>2
        DEF RequestAccounting, PendingBelongsToWaiting
    <3>5. WaitingIsPending' /\ NewIsIdle'
      <4>1. WaitingIsPending'
        BY <2>1, <3>1, <3>2 DEF RequestAccounting, WaitingIsPending
      <4>2. NewIsIdle'
        BY <2>1, <3>2 DEF NewIsIdle
      <4>3. QED
        BY <4>1, <4>2
    <3>6. QED
      BY <3>4, <3>5 DEF RequestAccounting
  <2>3. CASE UNCHANGED <<pending, outcome>>
    BY <1>1, <2>1, <2>3
  <2>4. QED
    BY <1>6, <2>2, <2>3 DEF DesktopClose
<1>7. ASSUME NEW m \in MobileSockets, NEW d \in DesktopIds, NEW c \in Codes,
             PairRefused(m, d, c)
      PROVE  Accounts'
  BY <1>1, <1>7 DEF PairRefused, clientVars
<1>8. ASSUME NEW m \in MobileSockets, NEW d \in DesktopIds, NEW c \in Codes,
             NEW dev \in Devices, PairAccepted(m, d, c, dev)
      PROVE  Accounts'
  BY <1>1, <1>8 DEF PairAccepted, clientVars
<1>9. ASSUME NEW m \in MobileSockets, NEW d \in DesktopIds,
             NEW dev \in Devices, NEW t \in Tokens,
             ResumeRefused(m, d, dev, t) \/ ResumeAccepted(m, d, dev, t)
      PROVE  Accounts'
  BY <1>1, <1>9 DEF ResumeRefused, ResumeAccepted, clientVars
<1>10. ASSUME NEW m \in MobileSockets, NEW r \in RequestIds, ForwardRefused(m, r)
       PROVE  Accounts'
  <2>1. PICK verdict \in Settled : Reply(m, r, verdict)
    BY <1>10 DEF ForwardRefused, Settled
  <2>2. UNCHANGED <<socket, links, pending>> /\ Heard(m)
        /\ outcome[m][r] = "unsent"
    BY <1>10 DEF ForwardRefused, relayVars
  <2>3. \A n \in MobileSockets, q \in RequestIds :
           outcome'[n][q] = IF n = m /\ q = r
                            THEN IF socket[m] = "open" THEN verdict ELSE "waiting"
                            ELSE outcome[n][q]
    BY <2>1 DEF TypeOK, Reply
  <2>4. verdict # "waiting"
    BY DEF Settled
  <2>5. PendingBelongsToWaiting'
    BY <2>2, <2>3 DEF RequestAccounting, PendingBelongsToWaiting, TypeOK
  <2>6. WaitingIsPending'
    BY <2>2, <2>3, <2>4 DEF RequestAccounting, WaitingIsPending
  <2>7. NewIsIdle'
    BY <2>2, <2>3 DEF NewIsIdle, Heard
  <2>8. QED
    BY <2>5, <2>6, <2>7 DEF RequestAccounting
<1>11. ASSUME NEW m \in MobileSockets, NEW r \in RequestIds, Forward(m, r)
       PROVE  Accounts'
  <2>1. PICK l \in links : /\ l.socket = m
                           /\ pending[l.desktop][r] = None
                           /\ pending' = [pending EXCEPT ![l.desktop][r] = m]
    BY <1>11 DEF Forward
  <2>2. UNCHANGED <<socket, links>> /\ Heard(m)
    BY <1>11 DEF Forward
  <2>3. l.desktop \in DesktopIds
    BY DEF TypeOK, Link
  <2>4. \A e \in DesktopIds, q \in RequestIds :
           pending'[e][q] = IF e = l.desktop /\ q = r THEN m ELSE pending[e][q]
    BY <2>1, <2>3 DEF TypeOK
  <2>5. \A n \in MobileSockets, q \in RequestIds :
           outcome'[n][q] = IF n = m /\ q = r THEN "waiting" ELSE outcome[n][q]
    BY <1>11 DEF Forward, TypeOK
  <2>6. PendingBelongsToWaiting'
    <3> SUFFICES ASSUME NEW e \in DesktopIds, NEW q \in RequestIds,
                        pending'[e][q] # None
                 PROVE  /\ outcome'[pending'[e][q]][q] = "waiting"
                        /\ \E k \in links' : /\ k.socket = pending'[e][q]
                                             /\ k.desktop = e
      BY DEF PendingBelongsToWaiting
    <3>1. CASE e = l.desktop /\ q = r
      BY <2>1, <2>2, <2>4, <2>5, <3>1
    <3>2. CASE ~(e = l.desktop /\ q = r)
      <4>1. pending'[e][q] = pending[e][q] /\ pending[e][q] \in MobileSockets
        BY <2>4, <3>2 DEF TypeOK
      <4>2. QED
        BY <2>2, <2>5, <4>1 DEF RequestAccounting, PendingBelongsToWaiting
    <3>3. QED
      BY <3>1, <3>2
  <2>7. WaitingIsPending'
    <3> SUFFICES ASSUME NEW n \in MobileSockets, NEW q \in RequestIds,
                        outcome'[n][q] = "waiting", socket'[n] = "open"
                 PROVE  \E e \in DesktopIds : pending'[e][q] = n
      BY DEF WaitingIsPending
    <3>1. CASE n = m /\ q = r
      BY <2>3, <2>4, <3>1
    <3>2. CASE ~(n = m /\ q = r)
      <4>1. PICK e \in DesktopIds : pending[e][q] = n
        BY <2>2, <2>5, <3>2 DEF RequestAccounting, WaitingIsPending
      <4>2. n # None
        BY NoneAssumption DEF Sockets
      <4>3. QED
        BY <2>1, <2>4, <4>1, <4>2
    <3>3. QED
      BY <3>1, <3>2
  <2>8. NewIsIdle'
    BY <2>2, <2>5 DEF NewIsIdle, Heard
  <2>9. QED
    BY <2>6, <2>7, <2>8 DEF RequestAccounting
<1>12. ASSUME NEW d \in DesktopIds, NEW r \in RequestIds, RequestTimeout(d, r)
       PROVE  Accounts'
  <2> HIDE DEF Accounts
  <2>1. "timeout" \in Settled
    BY DEF Settled
  <2>2. QED
    BY <1>12, <2>1, TakingKeepsAccounts DEF RequestTimeout
<1>13. ASSUME NEW m \in MobileSockets, MobileClose(m)
       PROVE  Accounts'
  <2>1. \A n \in MobileSockets, q \in RequestIds :
           outcome'[n][q] = IF n = m /\ outcome[n][q] = "waiting" THEN "lost"
                            ELSE outcome[n][q]
    BY <1>13 DEF MobileClose, TypeOK
  <2>2. \A n \in MobileSockets :
           socket'[n] = IF n = m THEN "closed" ELSE socket[n]
    BY <1>13 DEF MobileClose, TypeOK, Sockets
  <2>3. \A d \in DesktopIds, q \in RequestIds :
           pending'[d][q] = IF pending[d][q] = m THEN None ELSE pending[d][q]
    <3>1. CASE ~Linked(m)
      <4>1. \A d \in DesktopIds, q \in RequestIds : pending[d][q] # m
        BY <3>1, NoneAssumption
        DEF Linked, RequestAccounting, PendingBelongsToWaiting, Sockets
      <4>2. pending' = pending
        BY <1>13, <3>1 DEF MobileClose, Linked
      <4>3. QED
        BY <4>1, <4>2
    <3>2. CASE Linked(m)
      BY <1>13, <3>2 DEF MobileClose
    <3>3. QED
      BY <3>1, <3>2
  <2>4. \A k \in links : k.socket # m => k \in links'
    <3>1. CASE ~Linked(m)
      BY <1>13, <3>1 DEF MobileClose, Linked
    <3>2. CASE Linked(m)
      BY <1>13, <3>2 DEF MobileClose
    <3>3. QED
      BY <3>1, <3>2
  <2>5. PendingBelongsToWaiting'
    <3> SUFFICES ASSUME NEW d \in DesktopIds, NEW q \in RequestIds,
                        pending'[d][q] # None
                 PROVE  /\ outcome'[pending'[d][q]][q] = "waiting"
                        /\ \E k \in links' : /\ k.socket = pending'[d][q]
                                             /\ k.desktop = d
      BY DEF PendingBelongsToWaiting
    <3>1. /\ pending'[d][q] = pending[d][q] /\ pending[d][q] # m
          /\ pending[d][q] \in MobileSockets
      BY <2>3 DEF TypeOK
    <3>2. QED
      BY <2>1, <2>4, <3>1 DEF RequestAccounting, PendingBelongsToWaiting
  <2>6. WaitingIsPending' /\ NewIsIdle'
    <3>1. WaitingIsPending'
      BY <2>1, <2>2, <2>3 DEF RequestAccounting, WaitingIsPending
    <3>2. NewIsIdle'
      BY <2>1, <2>2 DEF NewIsIdle
    <3>3. QED
      BY <3>1, <3>2
  <2>7. QED
    BY <2>5, <2>6 DEF RequestAccounting
<1>14. ASSUME NEW s \in Sockets, Connect(s) \/ Drop(s)
       PROVE  Accounts'
  <2>1. UNCHANGED <<pending, outcome, links>>
    BY <1>14 DEF Connect, Drop, relayVars, clientVars
  <2>2. \A m \in MobileSockets :
           \/ socket'[m] = socket[m]
           \/ socket[m] = "new" /\ socket'[m] = "open"
           \/ socket[m] = "open" /\ socket'[m] = "closing"
    BY <1>14 DEF Connect, Drop, TypeOK, Sockets
  <2>3. QED
    BY <1>1, <2>1, <2>2
<1>15. CASE Tick \/ UNCHANGED vars
  BY <1>1, <1>15 DEF Tick, vars, relayVars, clientVars
<1>16. CASE RelayRestart
  <2>1. \A m \in MobileSockets, r \in RequestIds :
           outcome'[m][r] = IF outcome[m][r] = "waiting" THEN "lost"
                            ELSE outcome[m][r]
    BY <1>16 DEF RelayRestart
  <2>2. \A m \in MobileSockets :
           socket'[m] = IF socket[m] = "new" THEN "new" ELSE "closed"
    BY <1>16 DEF RelayRestart, Sockets
  <2>3. PendingBelongsToWaiting'
    BY <1>16 DEF RelayRestart, PendingBelongsToWaiting
  <2>4. WaitingIsPending'
    BY <2>2 DEF WaitingIsPending
  <2>5. NewIsIdle'
    BY <2>1, <2>2 DEF NewIsIdle
  <2>6. QED
    BY <2>3, <2>4, <2>5 DEF RequestAccounting
<1>17. QED
  BY <1>2, <1>3, <1>4, <1>5, <1>6, <1>7, <1>8, <1>9, <1>10, <1>11, <1>12,
     <1>13, <1>14, <1>15, <1>16
  DEF Next, DesktopNext, MobileNext

LEMMA AccountsInvariant == Spec => []Accounts
<1>1. Init => Accounts
  BY DEF Init, Accounts, RequestAccounting, PendingBelongsToWaiting,
     WaitingIsPending, NewIsIdle
<1>2. QED
  BY <1>1, AccountsStep, TypeCorrect, LinksAreAuthorized, PTL DEF Spec

\* No request is forgotten by the relay while its phone waits on an open
\* socket, and none is kept for a phone that does not wait.
THEOREM RequestsAccountedFor == Spec => []RequestAccounting
BY AccountsInvariant, PTL DEF Accounts
-----------------------------------------------------------------------------
\* No request is answered twice, and none is answered after it was given up:
\* whatever settles a request finds it waiting.
THEOREM RequestsSettleOnce == Spec => SettledOnce
<1> DEFINE Once == \A m \in MobileSockets, r \in RequestIds :
                      outcome[m][r] \in Settled => outcome'[m][r] = outcome[m][r]
<1>1. TypeOK /\ LinksAuthorized /\ Accounts /\ [Next]_vars => [Once]_vars
  <2> SUFFICES ASSUME TypeOK, Accounts, Next,
                      NEW m \in MobileSockets, NEW r \in RequestIds,
                      outcome[m][r] \in Settled
               PROVE  outcome'[m][r] = outcome[m][r]
    OBVIOUS
  <2>0. outcome[m][r] \notin {"unsent", "waiting"}
    BY DEF Settled
  <2>1. \A d \in DesktopIds : pending[d][r] # m
    BY <2>0, NoneAssumption
    DEF Accounts, RequestAccounting, PendingBelongsToWaiting, Sockets
  <2>2. CASE UNCHANGED outcome
    BY <2>2
  <2>3. ASSUME NEW d \in DesktopIds, NEW q \in RequestIds, NEW verdict,
               Reply(pending[d][q], q, verdict)
        PROVE  outcome'[m][r] = outcome[m][r]
    BY <2>1, <2>3 DEF Reply, TypeOK
  <2>4. ASSUME NEW s \in DesktopSockets, NEW q \in inbox[s],
               DesktopResponse(s, q)
        PROVE  outcome'[m][r] = outcome[m][r]
    <3>1. q.id \in RequestIds
      BY DEF TypeOK, Request
    <3>2. QED
      BY <2>2, <2>3, <2>4, <3>1 DEF DesktopResponse
  <2>5. ASSUME NEW s \in DesktopSockets, DesktopClose(s)
        PROVE  outcome'[m][r] = outcome[m][r]
    <3>1. \/ outcome' = outcome
          \/ \E d \in DesktopIds :
                outcome' = [n \in MobileSockets |-> [q \in RequestIds |->
                   IF pending[d][q] = n /\ socket[n] = "open"
                   THEN "offline" ELSE outcome[n][q]]]
      BY <2>5 DEF DesktopClose
    <3>2. QED
      BY <2>1, <3>1
  <2>6. ASSUME NEW n \in MobileSockets, NEW q \in RequestIds,
               ForwardRefused(n, q) \/ Forward(n, q)
        PROVE  outcome'[m][r] = outcome[m][r]
    <3>1. outcome[n][q] = "unsent"
      BY <2>6 DEF ForwardRefused, Forward
    <3>2. n # m \/ q # r
      BY <2>0, <3>1
    <3>3. \E verdict : outcome' = [outcome EXCEPT ![n][q] = verdict]
      BY <2>6 DEF ForwardRefused, Forward, Reply
    <3>4. QED
      BY <3>2, <3>3 DEF TypeOK
  <2>7. ASSUME NEW d \in DesktopIds, NEW q \in RequestIds, RequestTimeout(d, q)
        PROVE  outcome'[m][r] = outcome[m][r]
    BY <2>3, <2>7 DEF RequestTimeout
  <2>8. ASSUME NEW n \in MobileSockets, MobileClose(n)
        PROVE  outcome'[m][r] = outcome[m][r]
    BY <2>0, <2>8 DEF MobileClose, TypeOK
  <2>9. CASE RelayRestart
    BY <2>0, <2>9 DEF RelayRestart
  <2>10. ASSUME NEW s \in DesktopSockets, DesktopNext(s)
         PROVE  outcome'[m][r] = outcome[m][r]
    BY <2>4, <2>5, <2>10
    DEF DesktopNext, DesktopRegister, PairingCreate, DesktopEvent, clientVars
  <2>11. ASSUME NEW n \in MobileSockets, MobileNext(n)
         PROVE  outcome'[m][r] = outcome[m][r]
    BY <2>6, <2>8, <2>11
    DEF MobileNext, PairRefused, PairAccepted, ResumeRefused, ResumeAccepted,
        clientVars
  <2>12. CASE (\E s \in Sockets : Connect(s) \/ Drop(s)) \/ Tick
    BY <2>12 DEF Connect, Drop, Tick, clientVars
  <2>13. QED
    BY <2>7, <2>9, <2>10, <2>11, <2>12 DEF Next
<1>2. QED
  BY <1>1, AccountsInvariant, TypeCorrect, LinksAreAuthorized, PTL
  DEF Spec, SettledOnce
-----------------------------------------------------------------------------
\* The hypothesis of docs/protocol-contracts.md:979 that the relay cannot
\* check: no two phones use the same request id.
IdsAreGlobal ==
    \A m, n \in MobileSockets : m # n => IdsOf[m] \cap IdsOf[n] = {}

\* What routing rests on: a request keeps the id its phone drew, in a daemon's
\* inbox and in the pending table.
OriginsKept ==
    /\ \A s \in DesktopSockets : \A q \in inbox[s] : q.id \in IdsOf[q.origin]
    /\ \A d \in DesktopIds, r \in RequestIds :
          pending[d][r] # None => r \in IdsOf[pending[d][r]]

\* A step answers a request only by taking it from an inbox, and then hands
\* the answer to the phone found under its id.
AnswersTaken ==
    \A x \in out' : x.type = "result" =>
        \E s \in DesktopSockets, d \in DesktopIds : \E q \in inbox[s] :
            /\ pending[d][q.id] # None
            /\ x.to = pending[d][q.id] /\ x.origin = q.origin

\* As long as phones do not share ids, a response reaches the phone that sent
\* the request, across timeouts, closes and re-registrations.
THEOREM AnswersReturnToSender == IdsAreGlobal => (Spec => []RoutedToOriginator)
<1> SUFFICES ASSUME IdsAreGlobal PROVE Spec => []RoutedToOriginator
  OBVIOUS
<1> DEFINE Inv == OriginsKept /\ RoutedToOriginator
<1>1. Init => Inv
  BY DEF Init, OriginsKept, RoutedToOriginator
<1>2. TypeOK /\ OriginsKept /\ [Next]_vars => OriginsKept'
  <2> SUFFICES ASSUME TypeOK, OriginsKept, [Next]_vars PROVE OriginsKept'
    OBVIOUS
  <2>1. ASSUME \A s \in DesktopSockets : inbox'[s] \subseteq inbox[s],
               \A d \in DesktopIds, r \in RequestIds :
                  pending'[d][r] \in {None, pending[d][r]}
        PROVE  OriginsKept'
    BY <2>1 DEF OriginsKept
  <2>2. ASSUME NEW m \in MobileSockets, NEW r \in RequestIds, Forward(m, r)
        PROVE  OriginsKept'
    <3>1. PICK l \in links :
             /\ pending' = [pending EXCEPT ![l.desktop][r] = m]
             /\ desktops[l.desktop] # None
             /\ inbox' = IF socket[desktops[l.desktop]] = "open"
                         THEN [inbox EXCEPT ![desktops[l.desktop]] =
                                  @ \cup {[id |-> r, origin |-> m]}]
                         ELSE inbox
      BY <2>2 DEF Forward
    <3>2. r \in IdsOf[m] /\ l.desktop \in DesktopIds
      BY <2>2 DEF Forward, TypeOK, Link
    <3>3. \A s \in DesktopSockets : \A q \in inbox'[s] : q.id \in IdsOf[q.origin]
      BY <3>1, <3>2 DEF OriginsKept, TypeOK
    <3>4. \A d \in DesktopIds, q \in RequestIds :
             pending'[d][q] = IF d = l.desktop /\ q = r THEN m ELSE pending[d][q]
      BY <3>1, <3>2 DEF TypeOK
    <3>5. QED
      BY <3>2, <3>3, <3>4 DEF OriginsKept
  <2>3. ASSUME NEW s \in DesktopSockets, DesktopNext(s)
        PROVE  OriginsKept'
    <3>1. ASSUME NEW q \in inbox[s], DesktopResponse(s, q)
          PROVE  OriginsKept'
      <4>1. \A d \in DesktopIds, r \in RequestIds :
               pending'[d][r] \in {None, pending[d][r]}
        <5>1. CASE pending' = pending
          BY <5>1
        <5>2. CASE \E d \in DesktopIds :
                      pending' = [pending EXCEPT ![d][q.id] = None]
          BY <5>2 DEF TypeOK
        <5>3. QED
          BY <3>1, <5>1, <5>2 DEF DesktopResponse, Taken
      <4>2. \A e \in DesktopSockets : inbox'[e] \subseteq inbox[e]
        BY <3>1 DEF DesktopResponse, TypeOK
      <4>3. QED
        BY <2>1, <4>1, <4>2
    <3>2. CASE DesktopClose(s)
      <4>1. \/ pending' = pending
            \/ \E d \in DesktopIds :
                  pending' = [pending EXCEPT ![d] = [r \in RequestIds |-> None]]
        BY <3>2 DEF DesktopClose
      <4>2. \A d \in DesktopIds, r \in RequestIds :
               pending'[d][r] \in {None, pending[d][r]}
        BY <4>1 DEF TypeOK
      <4>3. QED
        BY <2>1, <3>2, <4>2 DEF DesktopClose
    <3>3. CASE UNCHANGED <<inbox, pending>>
      BY <2>1, <3>3
    <3>4. QED
      BY <2>3, <3>1, <3>2, <3>3
      DEF DesktopNext, DesktopRegister, PairingCreate, DesktopEvent, relayVars,
          clientVars
  <2>4. ASSUME NEW m \in MobileSockets, MobileNext(m)
        PROVE  OriginsKept'
    <3>1. CASE MobileClose(m)
      BY <2>1, <3>1 DEF MobileClose
    <3>2. CASE UNCHANGED <<inbox, pending>>
      BY <2>1, <3>2
    <3>3. QED
      BY <2>2, <2>4, <3>1, <3>2
      DEF MobileNext, PairRefused, PairAccepted, ResumeRefused,
          ResumeAccepted, ForwardRefused, relayVars, clientVars
  <2>5. ASSUME NEW d \in DesktopIds, NEW r \in RequestIds, RequestTimeout(d, r)
        PROVE  OriginsKept'
    BY <2>1, <2>5 DEF RequestTimeout, Taken, TypeOK
  <2>6. CASE RelayRestart
    BY <2>1, <2>6 DEF RelayRestart
  <2>7. CASE UNCHANGED <<inbox, pending>>
    BY <2>1, <2>7
  <2>8. QED
    BY <2>3, <2>4, <2>5, <2>6, <2>7
    DEF Next, Connect, Drop, Tick, relayVars, clientVars, vars
<1>3. [Next]_vars => AnswersTaken \/ UNCHANGED out
  <2> SUFFICES ASSUME Next PROVE AnswersTaken
    BY DEF vars
  <2> USE DEF AnswersTaken, Send, Msg
  <2>1. ASSUME NEW s \in DesktopSockets, NEW q \in inbox[s],
               DesktopResponse(s, q)
        PROVE  AnswersTaken
    BY <2>1 DEF DesktopResponse
  <2>2. ASSUME NEW s \in DesktopSockets, NEW kind \in EventTypes,
               DesktopEvent(s, kind)
        PROVE  AnswersTaken
    BY <2>2 DEF DesktopEvent, EventTypes
  <2>3. ASSUME NEW s \in DesktopSockets, DesktopClose(s)
        PROVE  AnswersTaken
    BY <2>3 DEF DesktopClose
  <2>4. ASSUME NEW s \in DesktopSockets, NEW d \in DesktopIds,
               DesktopRegister(s, d)
        PROVE  AnswersTaken
    BY <2>4 DEF DesktopRegister
  <2>5. ASSUME NEW s \in DesktopSockets, NEW c \in Codes, PairingCreate(s, c)
        PROVE  AnswersTaken
    BY <2>5 DEF PairingCreate
  <2>6. ASSUME NEW m \in MobileSockets, MobileNext(m)
        PROVE  AnswersTaken
    <3>1. ASSUME NEW d \in DesktopIds, NEW c \in Codes,
                 \/ PairRefused(m, d, c)
                 \/ \E dev \in Devices : PairAccepted(m, d, c, dev)
          PROVE  AnswersTaken
      BY <3>1 DEF PairRefused, PairAccepted
    <3>2. ASSUME NEW d \in DesktopIds, NEW dev \in Devices, NEW t \in Tokens,
                 ResumeRefused(m, d, dev, t) \/ ResumeAccepted(m, d, dev, t)
          PROVE  AnswersTaken
      BY <3>2 DEF ResumeRefused, ResumeAccepted
    <3>3. ASSUME NEW r \in RequestIds, ForwardRefused(m, r) \/ Forward(m, r)
          PROVE  AnswersTaken
      <4> HIDE DEF AnswersTaken, Send, Msg
      <4>1. \E verdict \in {"notPaired", "offline", "duplicate", "request"} :
               \E to : Send({Msg(to, verdict, m)})
        BY <3>3 DEF ForwardRefused, Forward
      <4>2. QED
        BY <4>1 DEF AnswersTaken, Send, Msg
    <3>4. CASE MobileClose(m)
      BY <3>4 DEF MobileClose
    <3>5. QED
      BY <2>6, <3>1, <3>2, <3>3, <3>4 DEF MobileNext
  <2>7. CASE \/ \E d \in DesktopIds, r \in RequestIds : RequestTimeout(d, r)
             \/ \E s \in Sockets : Connect(s) \/ Drop(s)
             \/ Tick
             \/ RelayRestart
    BY <2>7 DEF RequestTimeout, Connect, Drop, Tick, RelayRestart
  <2>8. QED
    BY <2>1, <2>2, <2>3, <2>4, <2>5, <2>6, <2>7 DEF Next, DesktopNext
<1>4. TypeOK /\ Inv /\ [Next]_vars => Inv'
  <2> SUFFICES ASSUME TypeOK, OriginsKept, RoutedToOriginator, [Next]_vars
               PROVE  RoutedToOriginator'
    BY <1>2
  <2>1. CASE UNCHANGED out
    BY <2>1 DEF RoutedToOriginator
  <2>2. CASE AnswersTaken
    <3> SUFFICES ASSUME NEW x \in out', x.type = "result"
                 PROVE  x.to = x.origin
      BY DEF RoutedToOriginator
    <3>0. PICK s \in DesktopSockets, d \in DesktopIds : \E q \in inbox[s] :
             /\ pending[d][q.id] # None
             /\ x.to = pending[d][q.id] /\ x.origin = q.origin
      BY <2>2 DEF AnswersTaken
    <3>1. PICK q \in inbox[s] :
             /\ pending[d][q.id] # None
             /\ x.to = pending[d][q.id] /\ x.origin = q.origin
      BY <3>0
    <3>2. q.id \in RequestIds /\ q.origin \in MobileSockets
      BY DEF TypeOK, Request
    <3>3. x.to \in MobileSockets
      BY <3>1, <3>2 DEF TypeOK
    <3>4. q.id \in IdsOf[x.to] \cap IdsOf[x.origin]
      BY <3>1, <3>2 DEF OriginsKept
    <3>5. QED
      BY <3>1, <3>2, <3>3, <3>4 DEF IdsAreGlobal
  <2>3. QED
    BY <1>3, <2>1, <2>2
<1>5. QED
  BY <1>1, <1>4, TypeCorrect, PTL DEF Spec
-----------------------------------------------------------------------------
\* What a daemon emits is seen only by phones that hold a grant for the desktop
\* id this daemon owns at that moment: no other handler emits an event, and the
\* fan-out reads links that are all authorized.
THEOREM EventsStayPrivate == Spec => []EventsOnlyToGranted
<1>1. Init => EventsOnlyToGranted
  BY DEF Init, EventsOnlyToGranted
<1>2. TypeOK /\ LinksAuthorized /\ EventsOnlyToGranted /\ [Next]_vars
         => EventsOnlyToGranted'
  <2> SUFFICES ASSUME TypeOK, LinksAuthorized, EventsOnlyToGranted, [Next]_vars
               PROVE  EventsOnlyToGranted'
    OBVIOUS
  <2>1. CASE \A x \in out' : x.type \notin EventTypes
    BY <2>1 DEF EventsOnlyToGranted
  <2>2. ASSUME NEW s \in DesktopSockets, NEW kind \in EventTypes,
               DesktopEvent(s, kind)
        PROVE  EventsOnlyToGranted'
    <3>1. PICK d \in DesktopIds : /\ desktops[d] = s
                                  /\ Send({Msg(m, kind, s) : m \in LinkedTo(d)})
      BY <2>2 DEF DesktopEvent
    <3>2. UNCHANGED <<desktops, links, grants, epoch>>
      BY <2>2 DEF DesktopEvent, relayVars
    <3>3. SUFFICES ASSUME NEW x \in out'
                   PROVE  \E g \in grants :
                             /\ desktops[g.desktop] = x.origin
                             /\ g.epoch = epoch
                             /\ [socket |-> x.to, desktop |-> g.desktop,
                                 device |-> g.device, token |-> g.token] \in links
      BY <3>2 DEF EventsOnlyToGranted
    <3>4. x.origin = s /\ x.to \in LinkedTo(d)
      BY <3>1 DEF Send, Msg
    <3>5. PICK l \in links : l.socket = x.to /\ l.desktop = d
      BY <3>4 DEF LinkedTo
    <3>6. l = [socket |-> x.to, desktop |-> d, device |-> l.device,
               token |-> l.token]
      BY <3>5 DEF TypeOK, Link
    <3>7. [token |-> l.token, desktop |-> d, device |-> l.device,
           epoch |-> epoch] \in grants
      BY <3>5 DEF LinksAuthorized, LinkAuthorized
    <3>8. QED
      BY <3>1, <3>4, <3>6, <3>7
  <2>3. ASSUME NEW to, NEW type, NEW from, type \notin EventTypes,
               Send({Msg(to, type, from)})
        PROVE  \A x \in out' : x.type \notin EventTypes
    BY <2>3 DEF Send, Msg
  <2>4. ASSUME NEW s \in DesktopSockets, DesktopNext(s)
        PROVE  EventsOnlyToGranted'
    <3>1. ASSUME NEW d \in DesktopIds, DesktopRegister(s, d)
          PROVE  EventsOnlyToGranted'
      <4>1. Send({Msg(s, "registered", s)}) /\ "registered" \notin EventTypes
        BY <3>1 DEF DesktopRegister, EventTypes
      <4>2. QED
        BY <2>1, <2>3, <4>1
    <3>2. ASSUME NEW c \in Codes, PairingCreate(s, c)
          PROVE  EventsOnlyToGranted'
      <4>1. \E type : type \notin EventTypes /\ Send({Msg(s, type, s)})
        BY <3>2 DEF PairingCreate, EventTypes
      <4>2. QED
        BY <2>1, <2>3, <4>1
    <3>3. ASSUME NEW q \in inbox[s], DesktopResponse(s, q)
          PROVE  EventsOnlyToGranted'
      BY <2>1, <3>3 DEF DesktopResponse, EventTypes, Send, Msg
    <3>4. CASE DesktopClose(s)
      BY <2>1, <3>4 DEF DesktopClose, EventTypes, Send, Msg
    <3>5. QED
      BY <2>2, <2>4, <3>1, <3>2, <3>3, <3>4 DEF DesktopNext
  <2>5. ASSUME NEW m \in MobileSockets, MobileNext(m)
        PROVE  EventsOnlyToGranted'
    <3>1. ASSUME NEW d \in DesktopIds, NEW c \in Codes,
                 \/ PairRefused(m, d, c)
                 \/ \E dev \in Devices : PairAccepted(m, d, c, dev)
          PROVE  EventsOnlyToGranted'
      BY <2>1, <3>1 DEF PairRefused, PairAccepted, EventTypes, Send, Msg
    <3>2. ASSUME NEW d \in DesktopIds, NEW dev \in Devices, NEW t \in Tokens,
                 ResumeRefused(m, d, dev, t) \/ ResumeAccepted(m, d, dev, t)
          PROVE  EventsOnlyToGranted'
      <4>1. \E type : type \notin EventTypes /\ Send({Msg(m, type, m)})
        BY <3>2 DEF ResumeRefused, ResumeAccepted, EventTypes
      <4>2. QED
        BY <2>1, <2>3, <4>1
    <3>3. ASSUME NEW r \in RequestIds, ForwardRefused(m, r) \/ Forward(m, r)
          PROVE  EventsOnlyToGranted'
      <4>1. \E verdict \in {"notPaired", "offline", "duplicate", "request"} :
               \E to : Send({Msg(to, verdict, m)})
        BY <3>3 DEF ForwardRefused, Forward
      <4>2. QED
        BY <2>1, <2>3, <4>1 DEF EventTypes
    <3>4. CASE MobileClose(m)
      BY <2>1, <3>4 DEF MobileClose, EventTypes, Msg
    <3>5. QED
      BY <2>5, <3>1, <3>2, <3>3, <3>4 DEF MobileNext
  <2>6. CASE \/ \E d \in DesktopIds, r \in RequestIds : RequestTimeout(d, r)
             \/ \E s \in Sockets : Connect(s) \/ Drop(s)
             \/ Tick
             \/ RelayRestart
    BY <2>1, <2>6
    DEF RequestTimeout, Connect, Drop, Tick, RelayRestart, Send, Msg, EventTypes
  <2>7. CASE UNCHANGED vars
    BY <2>7 DEF EventsOnlyToGranted, vars, relayVars
  <2>8. QED
    BY <2>4, <2>5, <2>6, <2>7 DEF Next
<1>3. QED
  BY <1>1, <1>2, TypeCorrect, LinksAreAuthorized, PTL DEF Spec
=============================================================================
