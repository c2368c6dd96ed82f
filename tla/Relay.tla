-------------------------------- MODULE Relay --------------------------------
(***************************************************************************)
(* The relay of src/apps/relay/src: an in-memory broker between desktop    *)
(* daemons and phones.  state.ts keeps five maps, handlers.ts dispatches   *)
(* one websocket frame or close event at a time, app.ts wires the two      *)
(* websocket routes.  Node runs a handler to its end before the next       *)
(* event, so every handler is one action.                                  *)
(*                                                                         *)
(* A websocket is a constant that is connected once and closed once; a     *)
(* reconnecting client takes another one.  Frames of a socket that is      *)
(* already closing are still dispatched, while what is sent to it is       *)
(* dropped (handlers.ts, send).                                            *)
(*                                                                         *)
(* Client behaviour assumed, from mobileClient.ts and relay_client.py: a   *)
(* phone pairs or resumes once per socket and never reuses one of its own  *)
(* request ids; a daemon answers a request it received at most once, in    *)
(* any order, or never.  A daemon may register again on the same socket.   *)
(***************************************************************************)
EXTENDS Naturals, FiniteSets

CONSTANTS
    DesktopSockets, MobileSockets,  \* websockets of the two routes
    DesktopIds, Devices,            \* desktopId and mobileDevice.id values
    Codes, Tokens,                  \* six-digit codes and mobileSessionTokens
    RequestIds,                     \* envelope ids of forwarded requests
    IdsOf,                          \* the ids a phone draws from, per socket
    PairingTTL, SessionTTL,         \* lifetimes, in ticks of the clock
    MaxTime, MaxEpoch,              \* bounds: clock ticks, relay restarts
    None

Sockets == DesktopSockets \cup MobileSockets

ASSUME SocketsAssumption ==
    /\ DesktopSockets \cap MobileSockets = {}
    /\ IdsOf \in [MobileSockets -> SUBSET RequestIds]

ASSUME TimeAssumption ==
    /\ PairingTTL \in Nat /\ SessionTTL \in Nat
    /\ MaxTime \in Nat /\ MaxEpoch \in Nat

ASSUME NoneAssumption ==
    /\ None \notin Sockets \cup DesktopIds
    /\ None \notin [desktop : DesktopIds, expiresAt : Nat]
    /\ None \notin [desktop : DesktopIds, device : Devices, expiresAt : Nat]

VARIABLES
    socket,    \* readyState of each websocket
    desktops,  \* RelayState.desktops: id -> socket of its connection
    pairings,  \* RelayState.pairings: code -> owner and deadline
    sessions,  \* RelayState.mobileSessions: token -> owner and deadline
    links,     \* RelayState.links: the MobileConn objects of all desktops
    pending,   \* RelayState.pending: (desktop, request id) -> phone's socket
    now,       \* Date.now()
    epoch,     \* number of restarts of the relay process
    inbox,     \* requests a daemon has received and not answered, by socket
    ackedAs,   \* the id a daemon was last told it is registered under
    outcome,   \* what a phone knows of each of its requests
    grants,    \* history: the tokens issued, to whom and in which epoch
    out        \* the messages handed to open sockets by the last handler

relayVars  == <<desktops, pairings, sessions, links, pending>>
clientVars == <<inbox, ackedAs, outcome>>
vars == <<socket, relayVars, now, epoch, clientVars, grants, out>>

Pairing == [desktop : DesktopIds, expiresAt : Nat]
MobileSession == [desktop : DesktopIds, device : Devices, expiresAt : Nat]
Link == [socket : MobileSockets, desktop : DesktopIds,
         device : Devices, token : Tokens]
Grant == [token : Tokens, desktop : DesktopIds, device : Devices, epoch : Nat]
Request == [id : RequestIds, origin : MobileSockets]

Settled == {"result", "timeout", "offline", "duplicate", "notPaired", "lost"}
Outcomes == Settled \cup {"unsent", "waiting"}
EventTypes == {"terminal", "interaction"}
ErrorTypes == {"DESKTOP_OFFLINE", "PAIRING_NOT_FOUND", "PAIRING_EXPIRED",
               "UNAUTHORIZED", "DAEMON_UNAVAILABLE"}
MessageTypes == Settled \cup EventTypes \cup ErrorTypes \cup
    {"registered", "code", "paired", "resumed", "request",
     "mobile.paired", "mobile.disconnected"}
\* origin is the socket whose frame, or whose request, the message is about.
Message == [to : Sockets, type : MessageTypes, origin : Sockets]

TypeOK ==
    /\ socket \in [Sockets -> {"new", "open", "closing", "closed"}]
    /\ desktops \in [DesktopIds -> DesktopSockets \cup {None}]
    /\ pairings \in [Codes -> Pairing \cup {None}]
    /\ sessions \in [Tokens -> MobileSession \cup {None}]
    /\ links \subseteq Link
    /\ pending \in [DesktopIds -> [RequestIds -> MobileSockets \cup {None}]]
    /\ now \in Nat /\ epoch \in Nat
    /\ inbox \in [DesktopSockets -> SUBSET Request]
    /\ ackedAs \in [DesktopSockets -> DesktopIds \cup {None}]
    /\ outcome \in [MobileSockets -> [RequestIds -> Outcomes]]
    /\ grants \subseteq Grant
    /\ out \subseteq Message

Init ==
    /\ socket = [s \in Sockets |-> "new"]
    /\ desktops = [d \in DesktopIds |-> None]
    /\ pairings = [c \in Codes |-> None]
    /\ sessions = [t \in Tokens |-> None]
    /\ links = {}
    /\ pending = [d \in DesktopIds |-> [r \in RequestIds |-> None]]
    /\ now = 0 /\ epoch = 0
    /\ inbox = [s \in DesktopSockets |-> {}]
    /\ ackedAs = [s \in DesktopSockets |-> None]
    /\ outcome = [m \in MobileSockets |-> [r \in RequestIds |-> "unsent"]]
    /\ grants = {}
    /\ out = {}

-----------------------------------------------------------------------------
Msg(to, type, origin) == [to |-> to, type |-> type, origin |-> origin]

\* send: a message to a socket that is not open is dropped.
Send(msgs) == out' = {x \in msgs : socket[x.to] = "open"}

\* The frames of a socket are dispatched until its close event.
Heard(s) == socket[s] \in {"open", "closing"}

Linked(m) == \E l \in links : l.socket = m

\* Mutant of LinkedTo: the phones of every desktop.
LinkedToAny(d) == {l.socket : l \in links}

\* mobilesForDesktop.
LinkedTo(d) == {l.socket : l \in {k \in links : k.desktop = d}}

\* Mutants of Reply: it hands the id over in the place of the result; it is
\* never sent.
ReplyWithId(m, r, verdict) ==
    outcome' = [outcome EXCEPT ![m][r] =
                   IF socket[m] = "open" THEN r ELSE "waiting"]
ReplyForgotten(m, r, verdict) == outcome' = outcome

\* The reply reaches the phone, and settles its request, on an open socket.
Reply(m, r, verdict) ==
    outcome' = [outcome EXCEPT ![m][r] =
                   IF socket[m] = "open" THEN verdict ELSE "waiting"]

\* Mutant of Taken: the entry is read and left where it is.
Peeked(d, r) == pending

\* takePending, and the timer of addPending: the entry is gone before anything
\* is sent.
Taken(d, r) == [pending EXCEPT ![d][r] = None]

\* Mutant of FreshTokens: a token may be issued twice.
AnyToken == Tokens

\* issueMobileSession draws a random token; a repetition is not modelled.
FreshTokens == {t \in Tokens : \A g \in grants : g.token # t}

-----------------------------------------------------------------------------
(* Desktop route.                                                          *)

\* Mutant of Superseded: the older connection stays open.
NotSuperseded(s, d) == {}

\* The older connection of the id, closed with code 4001.
Superseded(s, d) == {desktops[d]} \ {s, None}

\* registerDesktop: the socket leaves every other id and takes this one.
RegisterDesktop(s, d) ==
    desktops' = [e \in DesktopIds |->
                    IF e = d THEN s
                    ELSE IF desktops[e] = s THEN None ELSE desktops[e]]

\* desktop.register.
DesktopRegister(s, d) ==
    /\ Heard(s)
    /\ RegisterDesktop(s, d)
    /\ socket' = [x \in Sockets |->
                     IF x \in Superseded(s, d) /\ socket[x] = "open"
                     THEN "closing" ELSE socket[x]]
    /\ ackedAs' = IF socket[s] = "open"
                  THEN [ackedAs EXCEPT ![s] = d] ELSE ackedAs
    /\ Send({Msg(s, "registered", s)})
    /\ UNCHANGED <<pairings, sessions, links, pending, now, epoch, inbox,
                   outcome, grants>>

\* Mutant of CodesWithout: the desktop's older codes stay on offer.
CodesKept(d) == pairings

\* createPairing first drops the codes the desktop already has.
CodesWithout(d) ==
    [c \in Codes |-> IF pairings[c] # None /\ pairings[c].desktop = d
                     THEN None ELSE pairings[c]]

\* desktop.pairing.create: a code no other desktop is offering is stored.
PairingCreate(s, c) ==
    /\ Heard(s)
    /\ \/ /\ \A d \in DesktopIds : desktops[d] # s
          /\ Send({Msg(s, "DAEMON_UNAVAILABLE", s)})
          /\ UNCHANGED pairings
       \/ \E d \in DesktopIds :
             /\ desktops[d] = s
             /\ CodesWithout(d)[c] = None
             /\ pairings' = [CodesWithout(d) EXCEPT ![c] =
                   [desktop |-> d, expiresAt |-> now + PairingTTL]]
             /\ Send({Msg(s, "code", s)})
    /\ UNCHANGED <<socket, desktops, sessions, links, pending, now, epoch,
                   clientVars, grants>>

\* Mutant of DesktopResponse: any phone of the desktop gets the answer.
ResponseToAny(s, q) ==
    /\ Heard(s)
    /\ q \in inbox[s]
    /\ inbox' = [inbox EXCEPT ![s] = @ \ {q}]
    /\ \E d \in DesktopIds :
          /\ desktops[d] = s
          /\ pending[d][q.id] # None
          /\ pending' = Taken(d, q.id)
          /\ \E m \in LinkedTo(d) : /\ Reply(m, q.id, "result")
                                    /\ Send({Msg(m, "result", q.origin)})
    /\ UNCHANGED <<socket, desktops, pairings, sessions, links, now, epoch,
                   ackedAs, grants>>

\* A response of a daemon: taken by (desktop, id), passed to the phone that
\* waits under that id, ignored when nothing does or the socket owns no id.
DesktopResponse(s, q) ==
    /\ Heard(s)
    /\ q \in inbox[s]
    /\ inbox' = [inbox EXCEPT ![s] = @ \ {q}]
    /\ \/ \E d \in DesktopIds :
             /\ desktops[d] = s
             /\ pending[d][q.id] # None
             /\ pending' = Taken(d, q.id)
             /\ Reply(pending[d][q.id], q.id, "result")
             /\ Send({Msg(pending[d][q.id], "result", q.origin)})
       \/ /\ \A d \in DesktopIds : desktops[d] = s => pending[d][q.id] = None
          /\ out' = {}
          /\ UNCHANGED <<pending, outcome>>
    /\ UNCHANGED <<socket, desktops, pairings, sessions, links, now, epoch,
                   ackedAs, grants>>

\* An event of a daemon fans out to every phone linked to its desktop.
DesktopEvent(s, kind) ==
    /\ Heard(s)
    /\ \E d \in DesktopIds :
          /\ desktops[d] = s
          /\ Send({Msg(m, kind, s) : m \in LinkedTo(d)})
    /\ UNCHANGED <<socket, relayVars, now, epoch, clientVars, grants>>

\* removeDesktopBySocket, and removePendingForDesktop for the id it returns.
RemoveDesktopBySocket(s, d) ==
    /\ desktops[d] = s
    /\ desktops' = [desktops EXCEPT ![d] = None]
RemovePendingForDesktop(d) ==
    pending' = [pending EXCEPT ![d] = [r \in RequestIds |-> None]]

\* onDesktopClose: the requests of the desktop are rejected, but only when
\* the closed socket still owns an id.
DesktopClose(s) ==
    /\ socket[s] = "closing"
    /\ socket' = [socket EXCEPT ![s] = "closed"]
    /\ \/ \E d \in DesktopIds :
             /\ RemoveDesktopBySocket(s, d)
             /\ RemovePendingForDesktop(d)
             /\ outcome' = [m \in MobileSockets |-> [r \in RequestIds |->
                   IF pending[d][r] = m /\ socket[m] = "open"
                   THEN "offline" ELSE outcome[m][r]]]
             /\ Send({Msg(m, "offline", m) : m \in {n \in MobileSockets :
                         \E r \in RequestIds : pending[d][r] = n}})
       \/ /\ \A d \in DesktopIds : desktops[d] # s
          /\ out' = {}
          /\ UNCHANGED <<desktops, pending, outcome>>
    /\ UNCHANGED <<pairings, sessions, links, now, epoch, inbox, ackedAs,
                   grants>>

-----------------------------------------------------------------------------
(* Mobile route.                                                           *)

\* consumePairing refuses an unknown code and one of another desktop.
Offered(d, c) == pairings[c] # None /\ pairings[c].desktop = d

\* mobile.pair, the refusals: nothing but an expired code is removed.
PairRefused(m, d, c) ==
    /\ Heard(m) /\ ~Linked(m)
    /\ \/ /\ desktops[d] = None
          /\ Send({Msg(m, "DESKTOP_OFFLINE", m)})
          /\ UNCHANGED pairings
       \/ /\ desktops[d] # None /\ ~Offered(d, c)
          /\ Send({Msg(m, "PAIRING_NOT_FOUND", m)})
          /\ UNCHANGED pairings
       \/ /\ desktops[d] # None /\ Offered(d, c)
          /\ now > pairings[c].expiresAt
          /\ pairings' = [pairings EXCEPT ![c] = None]
          /\ Send({Msg(m, "PAIRING_EXPIRED", m)})
    /\ UNCHANGED <<socket, desktops, sessions, links, pending, now, epoch,
                   clientVars, grants>>

\* linkMobile: a new MobileConn.
LinkMobile(m, d, dev, t) ==
    links' = links \cup {[socket |-> m, desktop |-> d, device |-> dev, token |-> t]}

\* mobile.pair accepted: the code is consumed, a fresh token issued, the
\* phone linked and the desktop told.
PairAccepted(m, d, c, dev) ==
    /\ Heard(m) /\ ~Linked(m)
    /\ desktops[d] # None /\ Offered(d, c)
    /\ now <= pairings[c].expiresAt
    /\ pairings' = [pairings EXCEPT ![c] = None]
    /\ \E t \in FreshTokens :
          /\ sessions' = [sessions EXCEPT ![t] =
                [desktop |-> d, device |-> dev, expiresAt |-> now + SessionTTL]]
          /\ grants' = grants \cup {[token |-> t, desktop |-> d,
                                     device |-> dev, epoch |-> epoch]}
          /\ LinkMobile(m, d, dev, t)
    /\ Send({Msg(m, "paired", m), Msg(desktops[d], "mobile.paired", m)})
    /\ UNCHANGED <<socket, desktops, pending, now, epoch, clientVars>>

\* Mutant of TokenFits: any device may resume with the token.
TokenFitsDesktop(d, dev, t) == sessions[t] # None /\ sessions[t].desktop = d

\* resumeMobile accepts a token for its own desktop and device only.
TokenFits(d, dev, t) ==
    sessions[t] # None /\ sessions[t].desktop = d /\ sessions[t].device = dev

\* mobile.resume, the refusals: nothing but an expired session is removed.
ResumeRefused(m, d, dev, t) ==
    /\ Heard(m) /\ ~Linked(m)
    /\ \/ /\ desktops[d] = None
          /\ Send({Msg(m, "DESKTOP_OFFLINE", m)})
          /\ UNCHANGED sessions
       \/ /\ desktops[d] # None /\ ~TokenFits(d, dev, t)
          /\ Send({Msg(m, "UNAUTHORIZED", m)})
          /\ UNCHANGED sessions
       \/ /\ desktops[d] # None /\ TokenFits(d, dev, t)
          /\ now > sessions[t].expiresAt
          /\ sessions' = [sessions EXCEPT ![t] = None]
          /\ Send({Msg(m, "PAIRING_EXPIRED", m)})
    /\ UNCHANGED <<socket, desktops, pairings, links, pending, now, epoch,
                   clientVars, grants>>

\* mobile.resume accepted: the phone is linked again; the token stays valid
\* and the desktop is not told.
ResumeAccepted(m, d, dev, t) ==
    /\ Heard(m) /\ ~Linked(m)
    /\ desktops[d] # None /\ TokenFits(d, dev, t)
    /\ now <= sessions[t].expiresAt
    /\ LinkMobile(m, d, dev, t)
    /\ Send({Msg(m, "resumed", m)})
    /\ UNCHANGED <<socket, desktops, pairings, sessions, pending, now, epoch,
                   clientVars, grants>>

\* A forwarded method from a phone without a link, with its desktop away or
\* with an id in flight: refused, nothing is stored.
ForwardRefused(m, r) ==
    /\ Heard(m) /\ r \in IdsOf[m] /\ outcome[m][r] = "unsent"
    /\ \E verdict \in {"notPaired", "offline", "duplicate"} :
          /\ \/ verdict = "notPaired" /\ ~Linked(m)
             \/ /\ verdict = "offline"
                /\ \E l \in links : l.socket = m /\ desktops[l.desktop] = None
             \/ /\ verdict = "duplicate"
                /\ \E l \in links : /\ l.socket = m
                                    /\ desktops[l.desktop] # None
                                    /\ pending[l.desktop][r] # None
          /\ Reply(m, r, verdict)
          /\ Send({Msg(m, verdict, m)})
    /\ UNCHANGED <<socket, relayVars, now, epoch, inbox, ackedAs, grants>>

\* A forwarded method accepted: remembered until the response, the timeout or
\* a close.  The daemon gets it if its socket is open.
Forward(m, r) ==
    /\ Heard(m) /\ r \in IdsOf[m] /\ outcome[m][r] = "unsent"
    /\ \E l \in links :
          LET s == desktops[l.desktop]
          IN  /\ l.socket = m
              /\ s # None
              /\ pending[l.desktop][r] = None
              /\ pending' = [pending EXCEPT ![l.desktop][r] = m]
              /\ inbox' = IF socket[s] = "open"
                          THEN [inbox EXCEPT ![s] =
                                   @ \cup {[id |-> r, origin |-> m]}]
                          ELSE inbox
              /\ Send({Msg(s, "request", m)})
    /\ outcome' = [outcome EXCEPT ![m][r] = "waiting"]
    /\ UNCHANGED <<socket, desktops, pairings, sessions, links, now, epoch,
                   ackedAs, grants>>

\* Mutant of RequestTimeout: addPending sets no timer.
NoTimer(d, r) == FALSE

\* The timer of addPending fires: 15 s after the request, so at any moment of
\* a model without that unit of time.
RequestTimeout(d, r) ==
    /\ pending[d][r] # None
    /\ pending' = Taken(d, r)
    /\ Reply(pending[d][r], r, "timeout")
    /\ Send({Msg(pending[d][r], "timeout", pending[d][r])})
    /\ UNCHANGED <<socket, desktops, pairings, sessions, links, now, epoch,
                   inbox, ackedAs, grants>>

\* unlinkMobileBySocket: the link goes, and what its socket was waiting for.
UnlinkMobileBySocket(m, l) ==
    /\ l.socket = m
    /\ links' = links \ {l}
    /\ pending' = [d \in DesktopIds |-> [r \in RequestIds |->
          IF pending[d][r] = m THEN None ELSE pending[d][r]]]

\* onMobileClose: the link goes, with the requests of the socket, and the
\* desktop is told.  The phone's client rejects what it was waiting for.
MobileClose(m) ==
    /\ socket[m] = "closing"
    /\ socket' = [socket EXCEPT ![m] = "closed"]
    /\ outcome' = [outcome EXCEPT ![m] = [r \in RequestIds |->
                      IF outcome[m][r] = "waiting" THEN "lost" ELSE outcome[m][r]]]
    /\ \/ \E l \in links :
             /\ UnlinkMobileBySocket(m, l)
             /\ out' = IF desktops[l.desktop] # None
                          /\ socket[desktops[l.desktop]] = "open"
                       THEN {Msg(desktops[l.desktop], "mobile.disconnected", m)}
                       ELSE {}
       \/ /\ ~Linked(m)
          /\ out' = {}
          /\ UNCHANGED <<links, pending>>
    /\ UNCHANGED <<desktops, pairings, sessions, now, epoch, inbox, ackedAs,
                   grants>>

-----------------------------------------------------------------------------
(* Connections, time, and the relay process.                               *)

\* A client opens a websocket on its route.
Connect(s) ==
    /\ socket[s] = "new"
    /\ socket' = [socket EXCEPT ![s] = "open"]
    /\ out' = {}
    /\ UNCHANGED <<relayVars, now, epoch, clientVars, grants>>

\* The client or the network ends the connection; the close event is later.
Drop(s) ==
    /\ socket[s] = "open"
    /\ socket' = [socket EXCEPT ![s] = "closing"]
    /\ out' = {}
    /\ UNCHANGED <<relayVars, now, epoch, clientVars, grants>>

Tick ==
    /\ now < MaxTime
    /\ now' = now + 1
    /\ out' = {}
    /\ UNCHANGED <<socket, relayVars, epoch, clientVars, grants>>

\* The process restarts: RelayState lives in memory and every socket dies.
RelayRestart ==
    /\ epoch < MaxEpoch
    /\ epoch' = epoch + 1
    /\ socket' = [s \in Sockets |->
                     IF socket[s] = "new" THEN "new" ELSE "closed"]
    /\ desktops' = [d \in DesktopIds |-> None]
    /\ pairings' = [c \in Codes |-> None]
    /\ sessions' = [t \in Tokens |-> None]
    /\ links' = {}
    /\ pending' = [d \in DesktopIds |-> [r \in RequestIds |-> None]]
    /\ outcome' = [m \in MobileSockets |-> [r \in RequestIds |->
                      IF outcome[m][r] = "waiting" THEN "lost" ELSE outcome[m][r]]]
    /\ out' = {}
    /\ UNCHANGED <<now, inbox, ackedAs, grants>>

DesktopNext(s) ==
    \/ \E d \in DesktopIds : DesktopRegister(s, d)
    \/ \E c \in Codes : PairingCreate(s, c)
    \/ \E q \in inbox[s] : DesktopResponse(s, q)
    \/ \E kind \in EventTypes : DesktopEvent(s, kind)
    \/ DesktopClose(s)

MobileNext(m) ==
    \/ \E d \in DesktopIds, c \in Codes :
          \/ PairRefused(m, d, c)
          \/ \E dev \in Devices : PairAccepted(m, d, c, dev)
    \/ \E d \in DesktopIds, dev \in Devices, t \in Tokens :
          \/ ResumeRefused(m, d, dev, t)
          \/ ResumeAccepted(m, d, dev, t)
    \/ \E r \in RequestIds : ForwardRefused(m, r) \/ Forward(m, r)
    \/ MobileClose(m)

Next ==
    \/ \E s \in DesktopSockets : DesktopNext(s)
    \/ \E m \in MobileSockets : MobileNext(m)
    \/ \E d \in DesktopIds, r \in RequestIds : RequestTimeout(d, r)
    \/ \E s \in Sockets : Connect(s) \/ Drop(s)
    \/ Tick
    \/ RelayRestart

Spec == Init /\ [][Next]_vars

\* A timer that is set fires unless it is cleared, and a websocket that is
\* closing gets its close event; nothing else is promised.
Fairness ==
    /\ \A d \in DesktopIds, r \in RequestIds : WF_vars(RequestTimeout(d, r))
    /\ \A m \in MobileSockets : WF_vars(MobileClose(m))
    /\ \A s \in DesktopSockets : WF_vars(DesktopClose(s))

FairSpec == Spec /\ Fairness
-----------------------------------------------------------------------------
(* Properties.                                                             *)

\* A daemon whose socket is open and that was told "registered" is the one
\* the phones reach: registering the same desktopId elsewhere closes it, so
\* no daemon is superseded without noticing (state.ts, registerDesktop).
RegisteredIsReachable ==
    \A s \in DesktopSockets, d \in DesktopIds :
        ackedAs[s] = d /\ socket[s] = "open" => desktops[d] = s

\* The pending table and the phones agree: what is pending belongs to a phone
\* that is linked to that desktop and still waits, and a phone on an open
\* socket never waits for a request the relay has forgotten (state.ts,
\* addPending, takePending, removePendingForDesktop, unlinkMobileBySocket).
PendingBelongsToWaiting ==
    \A d \in DesktopIds, r \in RequestIds : pending[d][r] # None =>
        /\ outcome[pending[d][r]][r] = "waiting"
        /\ \E l \in links : l.socket = pending[d][r] /\ l.desktop = d

WaitingIsPending ==
    \A m \in MobileSockets, r \in RequestIds :
        outcome[m][r] = "waiting" /\ socket[m] = "open" =>
            \E d \in DesktopIds : pending[d][r] = m

RequestAccounting == PendingBelongsToWaiting /\ WaitingIsPending

\* A request is settled once: no response, timeout, offline error or close
\* follows another for the same request, whatever their order (handlers.ts,
\* the pending entry is removed before anything is sent).
SettledOnce ==
    [][\A m \in MobileSockets, r \in RequestIds :
          outcome[m][r] \in Settled => outcome'[m][r] = outcome[m][r]]_vars

\* A daemon's response goes to the phone whose request it answers
\* (docs/protocol-contracts.md:653, handlers.ts, takePending).
RoutedToOriginator ==
    \A x \in out : x.type = "result" => x.to = x.origin

\* Every link is held by a socket that is not closed, for the desktop and the
\* device its token was granted to since the relay started: codes and tokens
\* do not survive a restart and closed sockets leave no link behind
\* (state.ts, linkMobile, resumeMobile, unlinkMobileBySocket).
LinkAuthorized(l) ==
    /\ socket[l.socket] # "closed"
    /\ [token |-> l.token, desktop |-> l.desktop,
        device |-> l.device, epoch |-> epoch] \in grants

LinksAuthorized ==
    /\ \A l \in links : LinkAuthorized(l)
    /\ \A l, k \in links : l.socket = k.socket => l = k

\* What a daemon emits reaches only phones that hold a grant, of this run of
\* the relay, for the desktop id this daemon owns (handlers.ts, the fan-out).
EventsOnlyToGranted ==
    \A x \in out : x.type \in EventTypes =>
        \E g \in grants : /\ desktops[g.desktop] = x.origin
                          /\ g.epoch = epoch
                          /\ [socket |-> x.to, desktop |-> g.desktop,
                              device |-> g.device, token |-> g.token] \in links

\* Every forwarded request is settled in the end, by an answer, an error or
\* the loss of the connection (handlers.ts, the timer of addPending).
RequestsSettle ==
    \A m \in MobileSockets, r \in RequestIds :
        outcome[m][r] = "waiting" ~> outcome[m][r] # "waiting"
=============================================================================
