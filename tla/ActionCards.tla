---------------------------- MODULE ActionCards ----------------------------
(***************************************************************************)
(* What the phone shows of one session that prompts, and what its user     *)
(* does about it: the card of the inbox and the action area of the session *)
(* screen, each a StructuredActionZone with a response of its own.         *)
(*                                                                         *)
(* A screen is drawn some time after the reducer has changed what it is    *)
(* drawn from: messages are handled one by one, Render takes the changes   *)
(* of one or of several, and a tap acts on what was drawn last.  The       *)
(* effects of a drawing run after it and before the next (Effects), so     *)
(* that a tap or a message can come between.                               *)
(*                                                                         *)
(* Of the daemon the module keeps what a card depends on: the prompts it   *)
(* finds, the status and lastActivityAt of the session, and the events     *)
(* that tell of them, sent as they are emitted; Interactions has the rest  *)
(* of the prompts, and SessionSync of the events.  Both websockets keep    *)
(* the order of what they carry, two changes never bear the same time (the *)
(* stamps have microseconds), structured interactions are negotiated, the  *)
(* phone stays paired, and a websocket that is replaced has closed by the  *)
(* time the next one has resumed.                                          *)
(***************************************************************************)
EXTENDS Naturals, Sequences, SequencesExt, FiniteSets

CONSTANTS
  MaxPrompts,  \* bound: prompts the daemon finds
  MaxEvents    \* bound: taps of the user (but Back), outputs that tell nothing,
               \* lost connections and requests the relay gives up on

ASSUME BoundsAssumption ==
  MaxPrompts \in Nat /\ MaxEvents \in Nat

VARIABLES
  \* the daemon
  session,     \* status, lastActivityAt and active interaction (0 for none)
  lastId,      \* interactions registered so far
  linked,      \* its websocket is registered with the relay
  toDaemon, toPhone,
  \* the phone: connection, reducer, route
  net,         \* "away", awaiting the "list" or the "view", "online", "failed"
               \* (the daemon was offline when it was asked), or "backoff": the
               \* run failed otherwise and the reconnection timer is set
  stuck,       \* openSession awaits an answer on a websocket that has closed
  known,       \* sessionsById, of this session
  card,        \* activeInteractionsBySessionId, of this session: its id
  fresh,       \* that is another object than the one drawn last
  dismissed,   \* dismissedAttentionKeys
  route,       \* the route on top: "inbox" (below the other too) or "session"
  opened,      \* openSessionId is this session
  \* the phone: what was drawn last, the two zones, and those whose effect on
  \* another interaction has not run yet
  seen, zone, due,
  \* history
  asked,       \* responses the client awaits: number, place, id, whether the
               \* zone that sent it still stands, and whether it is adrift, on a
               \* websocket that was replaced and has closed
  sent,        \* responses of a zone since it was mounted or given a new object
  hasty,       \* zones tapped since then while their effect was due
  replied,     \* interactions a zone has answered since it was mounted
  crossed,     \* zones given a new object while their response was on its way
  ignored,     \* interactions on show when their card was dismissed
  spent        \* events that MaxEvents bounds

daemonVars == <<session, lastId, linked>>
stateVars == <<known, card, fresh, dismissed, route, opened>>
phoneVars == <<net, stuck, stateVars>>
historyVars == <<sent, hasty, replied, crossed>>
zoneVars == <<seen, zone, due, historyVars>>
cardVars == <<daemonVars, toDaemon, toPhone, phoneVars, zoneVars, asked, ignored, spent>>

Places == {"inbox", "screen"}
Ids == 0..MaxPrompts
Phases == {"idle", "submitting", "submitted", "failed"}
\* The interaction is the daemon's: the phone reads the other two.
Session == [status : {"running", "waiting", "stopped"}, stamp : Nat, prompt : Ids]
\* A zone's state, what of it was drawn, and its pendingRef.
Unmounted == [phase |-> "none", drawn |-> "none", pending |-> FALSE]
Mounted == [phase |-> "idle", drawn |-> "idle", pending |-> FALSE]
Response == [nr : 1..MaxEvents, from : Places, id : Ids \ {0}, live : BOOLEAN, adrift : BOOLEAN]

\* Requests of the phone and messages to it.
Ask(kind) == [kind |-> kind]
Respond(nr, id) == [kind |-> "respond", nr |-> nr, id |-> id]
Told(kind, s) == [kind |-> kind, session |-> s]
Requested(id) == [kind |-> "requested", id |-> id]
Resolved == [kind |-> "resolved"]
Offline == [kind |-> "offline"]
Answer(nr, ok) == [kind |-> "answer", nr |-> nr, ok |-> ok]

\* Type invariant.
CardsTypeOK ==
  /\ session \in Session /\ known \in Session
  /\ lastId \in Ids /\ card \in Ids
  /\ linked \in BOOLEAN /\ fresh \in BOOLEAN /\ opened \in BOOLEAN /\ stuck \in BOOLEAN
  /\ net \in {"away", "list", "view", "online", "failed", "backoff"}
  /\ dismissed \subseteq [status : {"waiting", "stopped"}, stamp : Nat]
  /\ ignored \subseteq Ids
  /\ route \in {"inbox", "session"}
  /\ zone \in [Places -> {Unmounted} \cup [pending : BOOLEAN, phase : Phases, drawn : Phases]]
  /\ asked \subseteq Response
  /\ sent \in [Places -> 0..MaxEvents]
  /\ replied \in [Places -> SUBSET Ids]
  /\ crossed \subseteq Places /\ due \subseteq Places /\ hasty \subseteq Places

CardsInit ==
  /\ session = [status |-> "running", stamp |-> 0, prompt |-> 0]
  /\ lastId = 0 /\ linked = TRUE
  /\ toDaemon = <<>> /\ toPhone = <<>>
  /\ net = "online" /\ stuck = FALSE /\ known = session /\ card = 0 /\ fresh = FALSE
  /\ dismissed = {} /\ route = "inbox" /\ opened = FALSE
  /\ seen = [session |-> session, card |-> 0, online |-> TRUE, route |-> "inbox"]
  /\ zone = [z \in Places |-> Unmounted] /\ due = {}
  /\ asked = {} /\ ignored = {} /\ crossed = {} /\ hasty = {}
  /\ sent = [z \in Places |-> 0] /\ replied = [z \in Places |-> {}]
  /\ spent = 0

-----------------------------------------------------------------------------
(* The daemon.                                                             *)

Spend == spent < MaxEvents /\ spent' = spent + 1

Now == session.stamp + 1

\* Mutant of Becomes: the time where the interaction belongs.
BecomesSwapped(status, stamp, id) == [status |-> status, stamp |-> id, prompt |-> stamp]

\* mark_waiting, mark_running and mark_ended.
Becomes(status, stamp, id) == [status |-> status, stamp |-> stamp, prompt |-> id]

\* Events without a connection, of the daemon or of the phone, are dropped, and
\* the phone ignores those on a websocket that is being replaced.
Emitted(events) == IF linked /\ net # "away" THEN events ELSE <<>>
Emit(events) == toPhone' = toPhone \o Emitted(events)

\* _resolve_interaction, of the active interaction if there is one.
Closing ==
  IF session.prompt = 0 THEN <<>>
  ELSE <<Resolved, Told("session", Becomes("running", Now, 0))>>

\* A detection finds another prompt; the one before it is superseded.
Prompts ==
  /\ session.status # "stopped" /\ lastId < MaxPrompts
  /\ lastId' = lastId + 1
  /\ session' = Becomes("waiting", IF session.prompt = 0 THEN Now ELSE Now + 1, lastId + 1)
  /\ Emit(Closing \o <<Requested(lastId + 1), Told("session", session')>>)
  /\ UNCHANGED <<linked, toDaemon, phoneVars, zoneVars, asked, ignored, spent>>

\* A detection finds no prompt any more.
Withdraws ==
  /\ session.prompt # 0
  /\ session' = Becomes("running", Now, 0)
  /\ Emit(Closing)
  /\ UNCHANGED <<lastId, linked, toDaemon, phoneVars, zoneVars, asked, ignored, spent>>

\* Output (of a prompt that is drawn again, for instance) changes lastActivityAt,
\* and no event tells of it.
Touched ==
  /\ session.status = "waiting" /\ Spend
  /\ session' = [session EXCEPT !.stamp = Now]
  /\ UNCHANGED <<lastId, linked, toDaemon, toPhone, phoneVars, zoneVars, asked, ignored>>

\* The program exits.  session.ended carries no lastActivityAt: the phone takes
\* the time the event was sent, which is later than the registry's.
Exits ==
  /\ session.status # "stopped"
  /\ session' = Becomes("stopped", Now, 0)
  /\ Emit((IF session.prompt = 0 THEN <<>> ELSE <<Resolved>>)
            \o <<Told("session", Becomes("stopped", Now + 1, 0))>>)
  /\ UNCHANGED <<lastId, linked, toDaemon, phoneVars, zoneVars, asked, ignored, spent>>

\* The relay passes an answer on to the connection that asked, if it still awaits one.
Awaited(nr) ==
  /\ \E r \in asked : r.nr = nr /\ ~r.adrift
  /\ \A i \in DOMAIN toPhone : toPhone[i] \notin {Answer(nr, TRUE), Answer(nr, FALSE)}
Reply(nr, ok) == IF Awaited(nr) THEN <<Answer(nr, ok)>> ELSE <<>>

\* A request is handled.  The answer to one of a run that has ended is not
\* awaited; respond is accepted for the active interaction only, and its answer
\* leaves before the events it causes.
Handles ==
  /\ toDaemon # <<>> /\ linked
  /\ toDaemon' = Tail(toDaemon)
  /\ LET r == Head(toDaemon)
     IN  \/ /\ r.kind \in {"list", "view", "open"}
            /\ toPhone' = IF r.kind \in {net, "open"}
                          THEN Append(toPhone, Told(r.kind, session)) ELSE toPhone
            /\ UNCHANGED session
         \/ /\ r.kind = "respond" /\ r.id = session.prompt
            /\ session' = Becomes("running", Now, 0)
            /\ toPhone' = toPhone \o Reply(r.nr, TRUE) \o Emitted(Closing)
         \/ /\ r.kind = "respond" /\ r.id # session.prompt
            /\ toPhone' = toPhone \o Reply(r.nr, FALSE)
            /\ UNCHANGED session
  /\ UNCHANGED <<lastId, linked, phoneVars, zoneVars, asked, ignored, spent>>

\* The relay gives up on a response; the daemon may still take it.
TimesOut ==
  /\ Spend
  /\ \E r \in asked : Awaited(r.nr) /\ toPhone' = Append(toPhone, Answer(r.nr, FALSE))
  /\ UNCHANGED <<daemonVars, toDaemon, phoneVars, zoneVars, asked, ignored>>

\* The daemon's websocket closes: what it had sent last is lost, and the relay
\* answers each request that is still in flight, DESKTOP_OFFLINE.
DaemonLost ==
  /\ linked /\ Spend
  /\ linked' = FALSE
  /\ toDaemon' = <<>>
  /\ \E n \in 0..Len(toPhone) :
       LET told == SubSeq(toPhone, 1, n)
           kinds == {told[i].kind : i \in DOMAIN told}
           answered == {told[i].nr : i \in {j \in DOMAIN told : told[j].kind = "answer"}}
           inFlight == {r.nr : r \in {a \in asked : ~a.adrift}} \ answered
       IN  toPhone' = told
             \o SetToSeq({Answer(nr, FALSE) : nr \in inFlight})
             \o (IF net \in {"list", "view"} /\ net \notin kinds THEN <<Offline>> ELSE <<>>)
  /\ UNCHANGED <<session, lastId, phoneVars, zoneVars, asked, ignored>>

\* It registers again and tells of the session as it is.
Registers ==
  /\ ~linked
  /\ linked' = TRUE
  /\ toPhone' = IF net = "away" THEN toPhone ELSE Append(toPhone, Told("session", session))
  /\ UNCHANGED <<session, lastId, toDaemon, phoneVars, zoneVars, asked, ignored, spent>>

-----------------------------------------------------------------------------
(* The phone: messages and the connection.                                 *)

\* Responses are settled: the zone that sent one shows it, if it still stands.
Settle(responses, phase) ==
  /\ asked' = asked \ responses
  /\ zone' = [z \in Places |->
       IF \E r \in responses : r.from = z /\ r.live
       THEN [zone[z] EXCEPT !.phase = phase] ELSE zone[z]]

\* The reducer has an interaction from the wire, or (0) none any more.
Refresh(id) == card' = id /\ fresh' = (id # 0 \/ seen.card # 0)

\* subscribingSessionIds: openSession awaits its answer.
Subscribing ==
  \/ stuck
  \/ \E i \in DOMAIN toDaemon : toDaemon[i].kind = "open"
  \/ \E i \in DOMAIN toPhone : toPhone[i].kind = "open"

\* A message arrives: an answer that is awaited, or an event, which the
\* coordinator passes on to the reducer while online.  Of the websocket that is
\* being replaced, too: its answers count, but for those of the run it had.
Receive ==
  /\ toPhone # <<>>
  /\ LET m == Head(toPhone)
         subscribes == m.kind = "list" /\ net = "list" /\ opened
     IN  /\ toPhone' = Tail(toPhone) \o (IF subscribes /\ ~linked THEN <<Offline>> ELSE <<>>)
         /\ toDaemon' = toDaemon \o (IF subscribes /\ linked THEN <<Ask("view")>> ELSE <<>>)
         /\ \/ /\ m.kind = "answer"
               /\ Settle({r \in asked : r.nr = m.nr}, IF m.ok THEN "submitted" ELSE "failed")
               /\ UNCHANGED <<net, known, card, fresh>>
            \/ /\ m.kind = "offline" /\ net \in {"list", "view"}
               /\ net' = "failed"
               /\ UNCHANGED <<known, card, fresh, asked, zone>>
            \/ /\ \/ m.kind \in {"session", "requested", "resolved"} /\ net # "online"
                  \/ m.kind \in {"list", "view"} /\ net # m.kind
                  \/ m.kind = "offline" /\ net \notin {"list", "view"}
               /\ UNCHANGED <<net, known, card, fresh, asked, zone>>
            \/ /\ m.kind = "session" /\ net = "online"
               /\ known' = m.session
               /\ UNCHANGED <<net, card, fresh, asked, zone>>
            \/ /\ m.kind \in {"requested", "resolved"} /\ net = "online"
               /\ Refresh(IF m.kind = "requested" THEN m.id ELSE 0)
               /\ UNCHANGED <<net, known, asked, zone>>
            \/ /\ m.kind = "list" /\ net = "list"
               /\ known' = m.session
               /\ net' = IF opened THEN "view" ELSE "online"
               /\ UNCHANGED <<card, fresh, asked, zone>>
            \/ /\ m.kind = "open" \/ (m.kind = "view" /\ net = "view")
               /\ known' = m.session /\ Refresh(m.session.prompt)
               /\ net' = IF m.kind = "view" THEN "online" ELSE net
               /\ UNCHANGED <<asked, zone>>
  /\ UNCHANGED <<daemonVars, stuck, dismissed, route, opened, seen, due, historyVars, ignored, spent>>

\* Mutant of Outstanding: the requests in flight are forgotten.
OutstandingForgotten == {}

\* rejectPending: what the client was waiting for.
Outstanding == asked

\* Requests that were sent first on a websocket that has closed may have reached
\* the daemon; but for responses they change nothing.
Cut(requests) ==
  \E n \in 0..Len(toDaemon) :
    LET kept == {i \in 1..n : toDaemon[i].kind = "respond"}
    IN  \E at \in [1..Cardinality(kept) -> kept] :
          /\ \A i, j \in DOMAIN at : i < j => at[i] < at[j]
          /\ toDaemon' = [i \in DOMAIN at |-> toDaemon[at[i]]] \o requests

\* The phone's websocket closes, or the one that is to replace it fails.
PhoneLost ==
  /\ net # "away" \/ asked # {} \/ stuck
  /\ Spend
  /\ net' = "away" /\ toPhone' = <<>> /\ Cut(<<>>)
  /\ stuck' = FALSE
  /\ Settle(Outstanding, "failed")
  /\ UNCHANGED <<daemonVars, stateVars, seen, due, historyVars, ignored>>

\* Another websocket takes the place of the one that is open and will close.
Replace ==
  /\ net' = "away"
  /\ UNCHANGED <<daemonVars, toDaemon, toPhone, stuck, stateVars, zoneVars, asked, ignored>>

\* Retry, on the screen of a failed connection or in the settings; while the
\* phone is connecting it would change nothing here.
Retry == net # "away" /\ Spend /\ Replace

\* A request of the run fails, but not because the daemon is offline: the
\* relay, say, gives up on it.  The websocket stays open.
RunFails ==
  /\ net \in {"list", "view"} /\ Spend
  /\ \A i \in DOMAIN toPhone : toPhone[i].kind \notin {net, "offline"}
  /\ net' = "backoff"
  /\ UNCHANGED <<daemonVars, toDaemon, toPhone, stuck, stateVars, zoneVars, asked, ignored>>

TimerFires == net = "backoff" /\ Replace /\ UNCHANGED spent

\* The coordinator has resumed and asks for the list.  (With the daemon gone it
\* does not get that far.)  The websocket before, if it was replaced, has
\* closed: what was on its way is lost, and nothing is rejected.
Reconnects ==
  /\ net = "away" /\ linked
  /\ net' = "list" /\ toPhone' = <<>> /\ Cut(<<Ask("list")>>)
  /\ asked' = {[r EXCEPT !.adrift = TRUE] : r \in asked}
  /\ stuck' = Subscribing
  /\ UNCHANGED <<daemonVars, stateVars, zoneVars, ignored, spent>>

-----------------------------------------------------------------------------
(* The phone: drawing.                                                     *)

\* Mutant of Key: the status alone.
StatusKey(s) == [status |-> s.status, stamp |-> 0]

\* makeDismissalKey, and the key of the card among its siblings.
Key(s) == [status |-> s.status, stamp |-> s.stamp]

\* selectAttentionCards, for one session.
Attention(s) == s.status \in {"waiting", "stopped"} /\ Key(s) \notin dismissed

\* AttentionCard has a zone for a waiting session, SessionScreen for a session
\* with an interaction.
CardShows == Attention(known) /\ known.status = "waiting"
ScreenShows == route = "session" /\ card # 0
Shows(z) == IF z = "inbox" THEN CardShows ELSE ScreenShows

\* The zone that stands is kept: React finds it under the same key.
Stays(z) ==
  /\ zone[z] # Unmounted /\ Shows(z)
  /\ z = "inbox" => Key(seen.session) = Key(known)

\* The routes hand the screens the state of the provider, and whether the
\* connection lets them answer.
Online == net = "online"
Drawn == [session |-> known, card |-> card, online |-> Online, route |-> route]

Answering(z) == \E r \in asked : r.from = z /\ r.live

\* A zone that is mounted, or given another object, will run its effect.
Render ==
  /\ due = {}
  /\ seen' = Drawn
  /\ fresh' = FALSE
  /\ zone' = [z \in Places |->
       IF ~Shows(z) THEN Unmounted
       ELSE IF ~Stays(z) THEN Mounted
       ELSE [zone[z] EXCEPT !.drawn = zone[z].phase]]
  /\ due' = {z \in Places : Shows(z) /\ (~Stays(z) \/ fresh)}
  /\ asked' = {[r EXCEPT !.live = r.live /\ Stays(r.from)] : r \in asked}
  /\ sent' = [z \in Places |-> IF Stays(z) /\ ~fresh THEN sent[z] ELSE 0]
  /\ hasty' = {z \in hasty : Stays(z) /\ ~fresh}
  /\ replied' = [z \in Places |-> IF Stays(z) THEN replied[z] ELSE {}]
  /\ crossed' = {z \in Places : Stays(z) /\ IF fresh THEN Answering(z) ELSE z \in crossed}
  /\ UNCHANGED <<daemonVars, toDaemon, toPhone, net, stuck, known, card, dismissed, route, opened, ignored, spent>>

\* Mutant of Renewed: no effect follows the interaction.
RenewedNever(z) == zone[z]

\* The effect on another interaction object, which undoes a tap that came first.
Renewed(z) == [zone[z] EXCEPT !.pending = FALSE, !.phase = "idle"]

Effects ==
  /\ due # {} /\ due' = {}
  /\ zone' = [z \in Places |-> IF z \in due THEN Renewed(z) ELSE zone[z]]
  /\ UNCHANGED <<daemonVars, toDaemon, toPhone, phoneVars, seen, historyVars, asked, ignored, spent>>

-----------------------------------------------------------------------------
(* The user.                                                               *)

\* The place is on top, as it was drawn.
OnTop(z) == seen.route = IF z = "inbox" THEN "inbox" ELSE "session"

\* Mutant of CanSubmit: what is drawn decides.
CanSubmitDrawn(z) == OnTop(z) /\ seen.card # 0 /\ seen.online /\ zone[z].drawn = "idle"

\* The guard of submit: the props and the phase of the last drawing, and the
\* reference that is set at once.
CanSubmit(z) ==
  /\ OnTop(z) /\ seen.card # 0 /\ seen.online
  /\ zone[z].drawn = "idle" /\ ~zone[z].pending

\* respondInteraction: the request leaves if the client is connected, and the
\* relay refuses it if the daemon is not.
Request(z, nr, id) ==
  IF net = "away" THEN UNCHANGED <<asked, toDaemon, toPhone>>
  ELSE /\ asked' = asked \cup
                     {[nr |-> nr, from |-> z, id |-> id, live |-> TRUE, adrift |-> FALSE]}
       /\ toDaemon' = toDaemon \o (IF linked THEN <<Respond(nr, id)>> ELSE <<>>)
       /\ toPhone' = toPhone \o (IF linked THEN <<>> ELSE <<Answer(nr, FALSE)>>)

\* A tap on an option.
Submit(z) ==
  /\ CanSubmit(z) /\ Spend
  /\ sent' = [sent EXCEPT ![z] = @ + 1]
  /\ replied' = [replied EXCEPT ![z] = @ \cup {seen.card}]
  /\ zone' = [zone EXCEPT ![z].pending = TRUE,
                          ![z].phase = IF net = "away" THEN "failed" ELSE "submitting"]
  /\ hasty' = hasty \cup ({z} \cap due)
  /\ Request(z, spent', seen.card)
  /\ UNCHANGED <<daemonVars, phoneVars, seen, due, crossed, ignored>>

\* The card of the inbox is hidden, under the key it was drawn with.
Dismiss ==
  /\ OnTop("inbox") /\ Attention(seen.session) /\ Spend
  /\ dismissed' = dismissed \cup {Key(seen.session)}
  /\ ignored' = ignored \cup {seen.session.prompt}
  /\ UNCHANGED <<daemonVars, toDaemon, toPhone, net, stuck, known, card, fresh, route, opened, zoneVars, asked>>

\* openSession: its screen is pushed; while online it is subscribed, unless a
\* subscription is on its way.
Open ==
  /\ OnTop("inbox") /\ route = "inbox" /\ Spend
  /\ route' = "session" /\ opened' = TRUE
  /\ toDaemon' = toDaemon \o (IF Online /\ linked /\ ~Subscribing THEN <<Ask("open")>> ELSE <<>>)
  /\ UNCHANGED <<daemonVars, toPhone, net, stuck, known, card, fresh, dismissed, zoneVars, asked, ignored>>

Back ==
  /\ OnTop("screen") /\ route = "session"
  /\ route' = "inbox"
  /\ UNCHANGED <<daemonVars, toDaemon, toPhone, net, stuck, known, card, fresh, dismissed, opened, zoneVars, asked, ignored, spent>>

CardsNext ==
  \/ Prompts \/ Withdraws \/ Touched \/ Exits \/ Handles \/ TimesOut \/ DaemonLost \/ Registers
  \/ Receive \/ PhoneLost \/ Retry \/ RunFails \/ TimerFires \/ Reconnects \/ Render \/ Effects
  \/ (\E z \in Places : Submit(z)) \/ Dismiss \/ Open \/ Back

CardsSpec == CardsInit /\ [][CardsNext]_cardVars

-----------------------------------------------------------------------------
(* Properties.                                                             *)

\* From the drawing that mounts a zone or hands it another interaction object
\* to the next of these, the zone sends at most one response, however fast the
\* taps come and however late the screen follows, and whether the response
\* succeeded, failed, or its fate is not known.  One tap between such a drawing
\* and its effect is undone by the effect: then a second response can leave,
\* which docs/PROGRESS.md:445 does not foresee, and never a third.
OneAnswerPerShowing == \A z \in Places : sent[z] <= IF z \in hasty THEN 2 ELSE 1

\* A zone that says "sending" has a response the client awaits, whose settlement
\* it will show; and a response that is awaited is on its way, or its answer is,
\* so that it is settled whatever becomes of the daemon and of the connection.
\* One that is adrift, left by Retry or the reconnection timer on a websocket
\* that was replaced, is settled by the next loss of a connection only
\* (ConnectionCoordinator!PendingIsRejected).
SubmittingIsSettled ==
  /\ \A z \in Places : zone[z].phase = "submitting" => Answering(z)
  /\ \A r \in asked :
       \/ r.adrift
       \/ \E i \in DOMAIN toDaemon : toDaemon[i] = Respond(r.nr, r.id)
       \/ \E i \in DOMAIN toPhone : \E ok \in BOOLEAN : toPhone[i] = Answer(r.nr, ok)

\* Everything the daemon has said is handled and drawn.
Quiet ==
  /\ linked /\ Online /\ toPhone = <<>> /\ ~fresh
  /\ seen = Drawn

\* A dismissal hides the card of the prompt it was tapped on, and no other: when
\* all is quiet and the session waits for an answer to a prompt whose card was
\* not dismissed, the inbox has its card.
UndismissedIsShown ==
  Quiet /\ session.status = "waiting" /\ session.prompt \notin ignored
    => zone["inbox"] # Unmounted

\* Once its effect has run, a zone that takes no answer for the interaction it
\* shows was used for that interaction, or was given it while the response to
\* the one before was on its way (submit's end sets the phase of whatever is
\* shown by then).
OwnUnlessInFlight ==
  \A z \in Places \ due :
    (zone[z].pending \/ zone[z].phase \notin {"none", "idle"}) /\ seen.card # 0 =>
      seen.card \in replied[z] \/ z \in crossed
=============================================================================
