------------------------------ MODULE SessionSync ------------------------------
(***************************************************************************)
(* A phone, the daemon and the connection between them: the registry and   *)
(* the reducer composed with connectionCoordinator.ts (the resume, list,   *)
(* subscribe sequence and what it does with events), the openSession of    *)
(* createMobileRuntime.ts, and the sending half of relay_client.py.        *)
(*                                                                         *)
(* The relay is the module Relay's subject; here it is two ordered         *)
(* channels that end where a websocket ends, and the refusal of requests   *)
(* while no daemon is registered.  toPhone also holds what the relay has   *)
(* not yet received from the daemon.                                       *)
(***************************************************************************)
EXTENDS PhoneState, FiniteSets

CONSTANTS
    MaxPhoneDrops,   \* bound: reconnections of the phone
    MaxDaemonDrops,  \* bound: losses of the daemon's relay connection
    MaxQueue         \* bound: the daemon acts and sends below this length

ASSUME SyncAssumption ==
    /\ IsFiniteSet(Sessions)
    /\ MaxPhoneDrops \in Nat /\ MaxDaemonDrops \in Nat /\ MaxQueue \in Nat

VARIABLES
    linkUp,       \* the daemon is connected and registered
    phase,        \* the coordinator's status, in its steps
    opening,      \* subscribingSessionIds of createMobileRuntime
    latest,       \* latestOpenSessionId of createMobileRuntime
    toDaemon,     \* requests on their way to the daemon
    toPhone,      \* responses and events on their way to the phone
    phoneDrops, daemonDrops,
    intact,       \* history: sessions viewed since the last loss of anything
    skipped       \* history: sessions whose events a resync has dropped

linkVars == <<linkUp, phase, opening, latest, toDaemon, toPhone,
              phoneDrops, daemonDrops>>
historyVars == <<intact, skipped>>
syncVars == <<daemonVars, phoneVars, linkVars, historyVars>>

Phases == {"away", "listing", "subscribing", "online", "recovery"}
\* by tells the coordinator's requests from those of openSession.
Request == [method : {"list", "subscribe"}, session : Sessions \cup {None},
            after : Nat \cup {NoSeq}, by : {"sync", "open"}]
Message == [kind : {"event"}, event : Event]
      \cup [kind : {"list"}, list : [Sessions -> Status]]
      \cup [kind : {"view"}, view : View, by : {"sync", "open"}, era : Nat]
      \cup [kind : {"notFound", "offline"}, session : Sessions \cup {None},
            by : {"sync", "open"}]

TypeOK ==
    /\ RegistryTypeOK /\ PhoneTypeOK
    /\ linkUp \in BOOLEAN
    /\ phase \in Phases
    /\ opening \subseteq Sessions
    /\ latest \in Sessions \cup {None}
    /\ toDaemon \in Seq(Request)
    /\ toPhone \in Seq(Message)
    /\ phoneDrops \in Nat /\ daemonDrops \in Nat
    /\ intact \subseteq Sessions /\ skipped \subseteq Sessions

Init ==
    /\ RegistryInit /\ PhoneInit
    /\ linkUp = TRUE
    /\ phase = "away"
    /\ opening = {} /\ latest = None
    /\ toDaemon = <<>> /\ toPhone = <<>>
    /\ phoneDrops = 0 /\ daemonDrops = 0
    /\ intact = {} /\ skipped = {}

-----------------------------------------------------------------------------
(* The daemon's end.                                                       *)

\* The daemon works on its sessions; only _emit touches the connection.
DaemonActs ==
    /\ Len(events) < MaxQueue
    /\ DaemonStep
    /\ UNCHANGED <<phoneVars, linkVars, historyVars>>

\* The relay passes on what reaches it while the phone is linked, that is from
\* the resume to the end of its socket.
Linked == phase \in {"listing", "subscribing", "online"}

\* Mutant of SendEvent: the newest task runs first.
SendNewest ==
    /\ events # <<>> /\ Len(toPhone) < MaxQueue
    /\ events' = SubSeq(events, 1, Len(events) - 1)
    /\ toPhone' = IF linkUp /\ Linked
                  THEN Append(toPhone, [kind |-> "event",
                                        event |-> events[Len(events)]])
                  ELSE toPhone
    /\ UNCHANGED <<status, announced, seq, buffer, active, lastId, restarts,
                   written, phoneVars, linkUp, phase, opening, latest,
                   toDaemon, phoneDrops, daemonDrops, historyVars>>

\* send_event, the oldest task of _emit: dropped without a connection.
SendEvent ==
    /\ events # <<>> /\ Len(toPhone) < MaxQueue
    /\ events' = Tail(events)
    /\ toPhone' = IF linkUp /\ Linked
                  THEN Append(toPhone, [kind |-> "event", event |-> Head(events)])
                  ELSE toPhone
    /\ UNCHANGED <<status, announced, seq, buffer, active, lastId, restarts,
                   written, phoneVars, linkUp, phase, opening, latest,
                   toDaemon, phoneDrops, daemonDrops, historyVars>>

\* History, carried by a view: the losses of the daemon's link before it.
Era == daemonDrops + restarts

\* handle_relay_request for the two requests that read the registry.
Answer(q) ==
    IF q.method = "list" THEN [kind |-> "list", list |-> SessionList]
    ELSE IF q.session \in Entries
    THEN [kind |-> "view", view |-> SubscribeView(q.session, q.after),
          by |-> q.by, era |-> Era]
    ELSE [kind |-> "notFound", session |-> q.session, by |-> q.by]

Refusal(q) == [kind |-> "offline", session |-> q.session, by |-> q.by]

\* Mutant of HandleRequest: without a daemon a request waits for one.
HandleWhenUp ==
    /\ toDaemon # <<>> /\ linkUp
    /\ toDaemon' = Tail(toDaemon)
    /\ toPhone' = Append(toPhone, Answer(Head(toDaemon)))
    /\ UNCHANGED <<daemonVars, phoneVars, linkUp, phase, opening, latest,
                   phoneDrops, daemonDrops, historyVars>>

\* _handle_request answers within the receive loop, ahead of the events whose
\* tasks have not run; without a daemon the relay refuses.
HandleRequest ==
    /\ toDaemon # <<>>
    /\ toDaemon' = Tail(toDaemon)
    /\ toPhone' = Append(toPhone, IF linkUp THEN Answer(Head(toDaemon))
                                  ELSE Refusal(Head(toDaemon)))
    /\ UNCHANGED <<daemonVars, phoneVars, linkUp, phase, opening, latest,
                   phoneDrops, daemonDrops, historyVars>>

\* The sequences that list a set, in any order.
Listings(S, max) ==
    {f \in UNION {[1 .. n -> S] : n \in 0 .. max} :
        /\ \A x \in S : \E i \in DOMAIN f : f[i] = x
        /\ \A i, k \in DOMAIN f : f[i] = f[k] => i = k}

\* The refusal of the request that a message from the daemon answers.
RefusalOf(m) ==
    [kind |-> "offline",
     session |-> CASE m.kind = "list" -> None
                   [] m.kind = "view" -> m.view.session
                   [] OTHER -> m.session,
     by |-> IF m.kind = "list" THEN "sync" ELSE m.by]

\* The daemon's websocket ends: what it had sent may have reached the relay up
\* to some point, and the relay rejects the requests it has no response to.
Refusals(kept) ==
    {RefusalOf(toPhone[i]) :
        i \in {k \in kept + 1 .. Len(toPhone) : toPhone[k].kind # "event"}}
      \cup {Refusal(toDaemon[i]) : i \in 1 .. Len(toDaemon)}

LoseLink ==
    /\ linkUp' = FALSE
    /\ \E kept \in 0 .. Len(toPhone) :
          \E rejected \in Listings(Refusals(kept), Len(toPhone) + Len(toDaemon)) :
              toPhone' = SubSeq(toPhone, 1, kept) \o rejected
    /\ toDaemon' = <<>>
    /\ intact' = {}
    /\ UNCHANGED <<phase, opening, latest, phoneDrops, skipped>>

DaemonDrop ==
    /\ linkUp /\ daemonDrops < MaxDaemonDrops
    /\ daemonDrops' = daemonDrops + 1
    /\ LoseLink
    /\ UNCHANGED <<daemonVars, phoneVars>>

\* The daemon's process ends and another one starts.
DaemonCrash ==
    /\ DaemonRestart
    /\ LoseLink
    /\ UNCHANGED <<phoneVars, daemonDrops>>

\* Mutant of DaemonRegister: nothing is told again.
RegisterSilently ==
    /\ ~linkUp
    /\ linkUp' = TRUE
    /\ UNCHANGED <<daemonVars, phoneVars, phase, opening, latest, toDaemon,
                   toPhone, phoneDrops, daemonDrops, historyVars>>

\* _register succeeds, after however many attempts: on_relay_registered tells
\* every session again.  The order is that of a dictionary.
DaemonRegister ==
    /\ ~linkUp
    /\ linkUp' = TRUE
    /\ \E order \in Listings(Entries, Cardinality(Sessions)) :
          Emit([i \in DOMAIN order |->
                   Ev("session.updated", order[i], 0, status[order[i]])])
    /\ UNCHANGED <<status, announced, seq, buffer, active, lastId, restarts,
                   written, phoneVars, phase, opening, latest, toDaemon,
                   toPhone, phoneDrops, daemonDrops, historyVars>>

-----------------------------------------------------------------------------
(* The phone's end.                                                        *)

\* synchronize, from the timer of scheduleReconnect: a transport that is still
\* there is closed; connected and resumed, it asks for the list.  A relay
\* without the desktop refuses the resume.
Synchronize ==
    /\ phase = "away"
    /\ toPhone' = <<>>
    /\ \/ /\ linkUp
          /\ phase' = "listing"
          /\ toDaemon' = <<[method |-> "list", session |-> None,
                            after |-> NoSeq, by |-> "sync"]>>
       \/ /\ ~linkUp
          /\ phase' = "recovery"
          /\ UNCHANGED toDaemon
    /\ UNCHANGED <<daemonVars, phoneVars, linkUp, opening, latest, phoneDrops,
                   daemonDrops, historyVars>>

\* What the end of the phone's socket leaves behind.
LoseSocket ==
    /\ phase' = "away"
    /\ toDaemon' = <<>> /\ toPhone' = <<>>
    /\ intact' = {}
    /\ phoneDrops < MaxPhoneDrops
    /\ phoneDrops' = phoneDrops + 1
    /\ UNCHANGED <<daemonVars, phoneVars, linkUp, latest, daemonDrops, skipped>>

\* The socket closes: mobileClient rejects what is pending, which ends the
\* openSession calls, and the coordinator schedules a reconnection.
Disconnect ==
    /\ Linked
    /\ opening' = {}
    /\ LoseSocket

\* retry, offered by the settings at any time and by the recovery screen: the
\* transport is replaced, and the close of the old one, no longer the
\* client's socket, rejects nothing.
Retry ==
    /\ phase # "away"
    /\ LoseSocket
    /\ UNCHANGED opening

Received == /\ toPhone # <<>>
            /\ toPhone' = Tail(toPhone)

\* onEvent drops what arrives before the coordinator is online.
ReceivePushed ==
    /\ Received /\ Head(toPhone).kind = "event"
    /\ LET e == Head(toPhone).event
       IN  \/ /\ phase = "online"
              /\ ReceiveEvent(e)
              /\ UNCHANGED skipped
           \/ /\ phase # "online"
              /\ skipped' = IF e.event \in {"session.created", "session.updated",
                                            "session.ended"}
                            THEN skipped \cup {e.session} ELSE skipped
              /\ UNCHANGED phoneVars
    /\ UNCHANGED <<daemonVars, linkUp, phase, opening, latest, toDaemon,
                   phoneDrops, daemonDrops, intact>>

\* The list is stored, then the open session, if there is one, subscribed from
\* the last seq the phone has of it.
ReceiveList ==
    /\ Received /\ Head(toPhone).kind = "list" /\ phase = "listing"
    /\ ListReceived(Head(toPhone).list)
    /\ skipped' = {}
    /\ \/ /\ open = None
          /\ phase' = "online"
          /\ UNCHANGED toDaemon
       \/ /\ open # None
          /\ phase' = "subscribing"
          /\ toDaemon' = Append(toDaemon,
                [method |-> "subscribe", session |-> open,
                 after |-> last[open], by |-> "sync"])
    /\ UNCHANGED <<daemonVars, linkUp, opening, latest, phoneDrops,
                   daemonDrops, intact>>

\* From a view on, the phone is to miss nothing of the session.
Viewed(m) ==
    LET v == m.view
    IN  intact' = IF m.era = Era /\ (v.mode = "snapshot" \/ last[v.session] = NoSeq)
                  THEN intact \cup {v.session} ELSE intact

\* The answer to the coordinator's subscription.
ReceiveSync ==
    /\ Received /\ Head(toPhone).kind = "view" /\ Head(toPhone).by = "sync"
    /\ phase = "subscribing"
    /\ SubscribeReceived(Head(toPhone).view)
    /\ Viewed(Head(toPhone))
    /\ phase' = "online"
    /\ UNCHANGED <<daemonVars, linkUp, opening, latest, toDaemon, phoneDrops,
                   daemonDrops, skipped>>

\* Mutant of IsLatest: every answer is taken.
IsAny(v) == TRUE

\* openSession takes an answer only for the session opened last.
IsLatest(v) == v.session = latest

\* The answer to a subscription of openSession.
ReceiveOpened ==
    /\ Received /\ Head(toPhone).kind = "view" /\ Head(toPhone).by = "open"
    /\ opening' = opening \ {Head(toPhone).view.session}
    /\ \/ /\ IsLatest(Head(toPhone).view)
          /\ SubscribeReceived(Head(toPhone).view)
          /\ Viewed(Head(toPhone))
       \/ /\ ~IsLatest(Head(toPhone).view)
          /\ UNCHANGED <<phoneVars, intact>>
    /\ UNCHANGED <<daemonVars, linkUp, phase, latest, toDaemon, phoneDrops,
                   daemonDrops, skipped>>

\* Mutant of ReceiveError: a failed openSession stays in subscribingSessionIds.
ErrorKeepsOpening ==
    /\ Received /\ Head(toPhone).kind \in {"offline", "notFound"}
    /\ phase' = IF Head(toPhone).by = "open" THEN phase
                ELSE IF Head(toPhone).kind = "offline" THEN "recovery" ELSE "away"
    /\ UNCHANGED <<daemonVars, phoneVars, linkUp, opening, latest, toDaemon,
                   phoneDrops, daemonDrops, historyVars>>

\* handleFailure: DESKTOP_OFFLINE waits for the user, SESSION_NOT_FOUND is a
\* failure like any other and schedules a reconnection.  openSession swallows
\* its errors.
ReceiveError ==
    /\ Received /\ Head(toPhone).kind \in {"offline", "notFound"}
    /\ \/ /\ Head(toPhone).by = "sync"
          /\ phase' = IF Head(toPhone).kind = "offline" THEN "recovery" ELSE "away"
          /\ UNCHANGED opening
       \/ /\ Head(toPhone).by = "open"
          /\ opening' = opening \ {Head(toPhone).session}
          /\ UNCHANGED phase
    /\ UNCHANGED <<daemonVars, phoneVars, linkUp, latest, toDaemon, phoneDrops,
                   daemonDrops, historyVars>>

\* The user opens a listed session.  afterSeq is read from the state rendered
\* before session/opened, so it is sent only for a session already open.
OpenSession(s) ==
    /\ known[s] # "absent"
    /\ latest' = s
    /\ Opened(s)
    /\ \/ /\ phase = "online" /\ s \notin opening
          /\ opening' = opening \cup {s}
          /\ toDaemon' = Append(toDaemon,
                [method |-> "subscribe", session |-> s,
                 after |-> IF open = s THEN last[s] ELSE NoSeq, by |-> "open"])
       \/ /\ phase # "online" \/ s \in opening
          /\ UNCHANGED <<opening, toDaemon>>
    /\ UNCHANGED <<daemonVars, linkUp, phase, toPhone, phoneDrops, daemonDrops,
                   historyVars>>

Receive == ReceivePushed \/ ReceiveList \/ ReceiveSync \/ ReceiveOpened
              \/ ReceiveError

Next ==
    \/ DaemonActs
    \/ SendEvent \/ HandleRequest
    \/ DaemonDrop \/ DaemonCrash \/ DaemonRegister
    \/ Synchronize \/ Disconnect \/ Retry
    \/ Receive
    \/ \E s \in Sessions : OpenSession(s)

Spec == Init /\ [][Next]_syncVars

\* Messages on a live connection are delivered and handled, tasks of the event
\* loop run, and the timer of scheduleReconnect fires.  Nobody has to open a
\* session, retry, or bring the daemon back.
Fairness ==
    /\ WF_syncVars(SendEvent) /\ WF_syncVars(HandleRequest)
    /\ WF_syncVars(Receive) /\ WF_syncVars(Synchronize)

FairSpec == Spec /\ Fairness
-----------------------------------------------------------------------------
(* Properties.                                                             *)

\* What the phone shows of a session are outputs of that session, each once
\* and in order, ending with the one it remembers as the last, whatever was
\* lost, overtaken or sent twice (terminalBuffer.ts, appendTerminalOutput).
Increasing(t) == \A i, j \in 1 .. Len(t) : i < j => t[i] < t[j]
PartOf(t, w) == \A i \in 1 .. Len(t) : \E j \in 1 .. Len(w) : t[i] = w[j]

TranscriptOrdered ==
    \A s \in Sessions :
        /\ Increasing(text[s])
        /\ PartOf(text[s], written[s])
        /\ last[s] = IF text[s] = <<>> THEN NoSeq ELSE Last(text[s])

\* So the terminal of the phone implements the module Transcript.
Terminal == INSTANCE Transcript WITH view <- text, Outputs <- 1 .. MaxSeq

RefinesTranscript == Terminal!Spec

\* From a view on, while both connections last, the phone misses no output of
\* the session in between: responses overtake events, but never so that an
\* output falls between the two (daemon.py, _emit and _handle_request).
RunOf(t, w) ==
    \E i \in 0 .. Len(w) - Len(t) : t = SubSeq(w, i + 1, i + Len(t))

NoGapSinceView == \A s \in intact : RunOf(text[s], written[s])

\* And when everything sent has arrived, it shows the session as it is: its
\* output to the end, its status, and its interaction.
Quiet == phase = "online" /\ linkUp /\ events = <<>> /\ toPhone = <<>>

CurrentSinceView ==
    Quiet => \A s \in intact \cap Entries :
        /\ written[s] # <<>> => last[s] = Last(written[s])
        /\ known[s] = status[s]
        /\ shown[s] = active[s]

\* After a synchronisation the list is right about every announced session,
\* except those whose events arrived while the coordinator was not online
\* (connectionCoordinator.ts, synchronize and onEvent; daemon.py,
\* on_relay_registered).
ListCurrentUnlessSkipped ==
    Quiet => \A s \in (announced \cap Entries) \ skipped : known[s] = status[s]

\* The session the phone has open changes to one the user did not open last
\* only with the coordinator's own subscription: the answers to openSession,
\* however late, never do that (createMobileRuntime.ts, openSession).
OnlyResyncReopens ==
    [][open' # open => open' = latest' \/ phase = "subscribing"]_syncVars

\* A session that is being opened has its request or its answer on the way,
\* until it is open to be opened again; only a retry, which abandons the
\* socket, breaks that (createMobileRuntime.ts, subscribingSessionIds).
OnItsWay(s) ==
    \/ \E i \in 1 .. Len(toDaemon) :
          toDaemon[i].by = "open" /\ toDaemon[i].session = s
    \/ \E i \in 1 .. Len(toPhone) :
          LET m == toPhone[i]
          IN  \/ m.kind = "view" /\ m.by = "open" /\ m.view.session = s
              \/ /\ m.kind \in {"offline", "notFound"}
                 /\ m.by = "open" /\ m.session = s

OpeningIsOnItsWay ==
    [][\A s \in opening' :
          (s \in opening => OnItsWay(s)) => OnItsWay(s)' \/ phase' = "away"]_syncVars

\* A synchronisation ends, online or in the recovery screen, unless the
\* session the phone has open is not the daemon's any more
\* (connectionCoordinator.ts, synchronize and handleFailure).
ResyncEndsUnlessGone ==
    phase = "away" ~>
        phase \in {"online", "recovery"} \/ open \in Sessions \ Entries

=============================================================================
