----------------------- MODULE ConnectionCoordinator -----------------------
(***************************************************************************)
(* The phone's connection to its computer: createConnectionCoordinator,    *)
(* on top of the websocket client createMobileClient.                      *)
(*                                                                         *)
(* A run of synchronize connects, resumes, lists the sessions and renews   *)
(* the subscription of the open one.  start, retry and the reconnection    *)
(* timer each begin a run; runVersion makes only the latest one count, so  *)
(* run is the latest one and a run that was superseded is not represented. *)
(*                                                                         *)
(* JavaScript runs one event to its end, promise continuations included,   *)
(* so an action is an event of a socket, of a timer or of the user with    *)
(* everything it sets off.  onopen and handleClose count for the current   *)
(* socket only.  onmessage counts for any: a socket on which close() was   *)
(* called, current or replaced, delivers answers until its close event.    *)
(* Those of a run that was superseded have no effect, so of the replaced   *)
(* sockets only what the app awaits on them is represented.                *)
(***************************************************************************)
EXTENDS Naturals

CONSTANTS
  Profiles,   \* pairing profiles, one per computer the phone was paired with
  Askers,     \* parts of the app with one request of their own in flight
  None        \* no profile, no run

VARIABLES
  \* createMobileClient
  socket,     \* the current socket: "none", "connecting", "open", "closing"
  state,      \* ConnectionState as the client reports it
  asked,      \* requests of the app: "none", "sent", "orphan" once the socket
              \* it was sent on was replaced, "stranded" once that has closed
  linked,     \* the profile the current connection has resumed
  \* createConnectionCoordinator
  status, profile,
  caps,       \* whose negotiated capabilities the app holds
  timer,      \* reconnectTimer is set
  transport,  \* hasActiveTransport
  run,        \* the latest run, what it awaits, and whether the socket was open
              \* when it sent the request for it
  clearing    \* calls of onProfileInvalidated that have not returned

clientVars == <<socket, state, asked, linked>>
coordVars == <<clientVars, status, profile, caps, timer, transport, run, clearing>>

Stages == {"connect", "resume", "list", "subscribe"}
Runs == [profile : Profiles, at : Stages, sent : BOOLEAN]

ASSUME NoneAssumption == None \notin Profiles /\ None \notin Runs

Statuses == {"idle", "connecting", "online", "reconnecting", "resyncing",
             "recovery", "pairingRequired"}

\* The states in which the app tells its user that it is connecting.
Busy == {"connecting", "reconnecting", "resyncing"}

TypeOK ==
  /\ socket \in {"none", "connecting", "open", "closing"}
  /\ state \in {"disconnected", "connecting", "connected"}
  /\ asked \in [Askers -> {"none", "sent", "orphan", "stranded"}]
  /\ linked \in Profiles \cup {None}
  /\ status \in Statuses
  /\ profile \in Profiles \cup {None}
  /\ caps \in Profiles \cup {None}
  /\ timer \in BOOLEAN
  /\ transport \in BOOLEAN
  /\ run \in Runs \cup {None}
  /\ clearing \in Nat

CoordInit ==
  /\ socket = "none"
  /\ state = "disconnected"
  /\ asked = [a \in Askers |-> "none"]
  /\ linked = None
  /\ status = "idle"
  /\ profile = None
  /\ caps = None
  /\ timer = FALSE
  /\ transport = FALSE
  /\ run = None
  /\ clearing = 0

-----------------------------------------------------------------------------
(* Pieces of the handlers.                                                 *)

\* connect() on a new socket.  The old one, when there is one, is closing or
\* still connecting and no longer current; what was sent on it stays in the
\* map of pending requests.
Connect ==
  /\ socket' = "connecting"
  /\ state' = "connecting"
  /\ linked' = None
  /\ asked' = [a \in Askers |-> IF asked[a] = "sent" THEN "orphan" ELSE asked[a]]

\* synchronize(entry) up to its first await: closeActiveTransport, then
\* connect.  Earlier runs are superseded.
Synchronize(p, entry) ==
  /\ run' = [profile |-> p, at |-> "connect", sent |-> FALSE]
  /\ status' = entry
  /\ transport' = FALSE
  /\ Connect

\* scheduleReconnect, when it is called at all: it does nothing without a
\* profile or with the timer already set.
ScheduleReconnect(called) ==
  LET set == called /\ profile # None /\ ~timer
  IN  /\ timer' = (timer \/ set)
      /\ status' = IF set THEN "reconnecting" ELSE status

\* The current run gets the answer it awaits, of an open socket or of one that
\* is closing.
Awaits(at) == run # None /\ run.at = at /\ run.sent

\* It sends its next request; a closing socket drops it without an error.
GoesOn(at) == run' = [run EXCEPT !.at = at, !.sent = (socket = "open")]

\* setCapabilities: an answer may carry the negotiated set or leave it out.
Negotiate == \E carried \in BOOLEAN : caps' = IF carried THEN run.profile ELSE caps

Finished == run' = None /\ status' = "online"

-----------------------------------------------------------------------------
(* Events of the socket.                                                   *)

\* onopen of the current socket: its run goes on with mobile.resume.
SocketOpens ==
  /\ socket = "connecting" /\ run # None
  /\ socket' = "open"
  /\ state' = "connected"
  /\ transport' = TRUE
  /\ status' = "resyncing"
  /\ caps' = None
  /\ run' = [run EXCEPT !.at = "resume", !.sent = TRUE]
  /\ UNCHANGED <<asked, linked, profile, timer, clearing>>

\* Mutant of SocketCloses: only a run notices, the listener does not schedule.
ClosesUnnoticed ==
  /\ socket # "none"
  /\ socket' = "none"
  /\ state' = "disconnected"
  /\ linked' = None
  /\ asked' = [a \in Askers |-> "none"]
  /\ transport' = FALSE
  /\ ScheduleReconnect(run # None)
  /\ run' = None
  /\ UNCHANGED <<profile, caps, clearing>>

\* Mutant of SocketCloses: without rejectPending.
ClosesWithoutRejecting ==
  /\ socket # "none"
  /\ socket' = "none"
  /\ state' = "disconnected"
  /\ linked' = None
  /\ transport' = FALSE
  /\ ScheduleReconnect(status \notin {"idle", "recovery", "pairingRequired"} \/ run # None)
  /\ run' = None
  /\ UNCHANGED <<asked, profile, caps, clearing>>

\* onclose of the current socket, after onerror when it never opened.  Every
\* pending request is rejected, the listener of the connection schedules the
\* reconnection, and so does the run that was awaiting something.
SocketCloses ==
  /\ socket # "none"
  /\ socket' = "none"
  /\ state' = "disconnected"
  /\ linked' = None
  /\ asked' = [a \in Askers |-> "none"]
  /\ transport' = FALSE
  /\ ScheduleReconnect(status \notin {"idle", "recovery", "pairingRequired"} \/ run # None)
  /\ run' = None
  /\ UNCHANGED <<profile, caps, clearing>>

ResumeAnswered ==
  /\ Awaits("resume")
  /\ linked' = run.profile
  /\ Negotiate
  /\ GoesOn("list")
  /\ UNCHANGED <<socket, state, asked, status, profile, timer, transport, clearing>>

\* The list is dispatched; with a session open its subscription is renewed.
ListAnswered(open) ==
  /\ Awaits("list")
  /\ Negotiate
  /\ IF open THEN GoesOn("subscribe") /\ UNCHANGED status ELSE Finished
  /\ UNCHANGED <<clientVars, profile, timer, transport, clearing>>

SubscribeAnswered ==
  /\ Awaits("subscribe")
  /\ Negotiate
  /\ Finished
  /\ UNCHANGED <<clientVars, profile, timer, transport, clearing>>

\* A request of the run is refused with a code of pairingRequiredCodes: the
\* profile is given up at once, and the status follows when the storage has
\* been cleared (Invalidated).
RunUnpaired ==
  /\ \E at \in Stages \ {"connect"} : Awaits(at)
  /\ timer' = FALSE
  /\ profile' = None
  /\ caps' = None
  /\ run' = None
  /\ clearing' = clearing + 1
  /\ UNCHANGED <<clientVars, status, transport>>

\* ... with a code of recoveryCodes: the user decides when to try again.
RunOffline ==
  /\ \E at \in Stages \ {"connect"} : Awaits(at)
  /\ timer' = FALSE
  /\ status' = "recovery"
  /\ run' = None
  /\ UNCHANGED <<clientVars, profile, caps, transport, clearing>>

\* Mutant of RunFails: the failure schedules nothing.
RunFailsQuietly ==
  /\ \E at \in Stages \ {"connect"} : Awaits(at)
  /\ run' = None
  /\ UNCHANGED <<clientVars, status, timer, profile, caps, transport, clearing>>

\* ... with any other code.
RunFails ==
  /\ \E at \in Stages \ {"connect"} : Awaits(at)
  /\ ScheduleReconnect(TRUE)
  /\ run' = None
  /\ UNCHANGED <<clientVars, profile, caps, transport, clearing>>

\* onProfileInvalidated returns.  Nothing checks that no run began meanwhile.
Invalidated ==
  /\ clearing > 0
  /\ clearing' = clearing - 1
  /\ status' = "pairingRequired"
  /\ UNCHANGED <<clientVars, profile, caps, timer, transport, run>>

\* onProfileInvalidated throws: the rejection ends handleFailure.
InvalidationFails ==
  /\ clearing > 0
  /\ clearing' = clearing - 1
  /\ UNCHANGED <<clientVars, status, profile, caps, timer, transport, run>>

-----------------------------------------------------------------------------
(* The timer and the calls of the app.                                     *)

TimerFires ==
  /\ timer /\ profile # None
  /\ timer' = FALSE
  /\ Synchronize(profile, "reconnecting")
  /\ UNCHANGED <<profile, caps, clearing>>

Start(p) ==
  /\ timer' = FALSE
  /\ profile' = p
  /\ Synchronize(p, "connecting")
  /\ UNCHANGED <<caps, clearing>>

\* start(null), after which the runtime closes the client.  A run in progress
\* is not superseded: it ends with the socket, or with an answer before that.
StartNone ==
  /\ timer' = FALSE
  /\ profile' = None
  /\ caps' = None
  /\ status' = "pairingRequired"
  /\ socket' = IF socket = "none" THEN "none" ELSE "closing"
  /\ UNCHANGED <<state, asked, linked, transport, run, clearing>>

\* Mutant of Retry: the timer is not cancelled.
RetryBesideTimer ==
  /\ profile # None
  /\ Synchronize(profile, "reconnecting")
  /\ UNCHANGED <<profile, caps, timer, clearing>>

Retry ==
  /\ profile # None
  /\ timer' = FALSE
  /\ Synchronize(profile, "reconnecting")
  /\ UNCHANGED <<profile, caps, clearing>>

\* A request of the app itself (session.input, interaction.respond,
\* session.subscribe of openSession): canMutate allows it while online, and
\* its own button or set allows one at a time.  The screen is assumed to be
\* drawn again before a lost connection is back, so that nothing is sent by a
\* tap on what was drawn while online before (ActionCards has that lag).
Ask(a) ==
  /\ status = "online" /\ state = "connected" /\ asked[a] = "none"
  /\ asked' = [asked EXCEPT ![a] = "sent"]
  /\ UNCHANGED <<socket, state, linked, status, profile, caps, timer, transport, run, clearing>>

\* handleResponse, for a request of the app: it looks the request up by its id
\* and not by the socket.  That one sent on a closing socket is answered, too,
\* is more than the code can do.
AskAnswered(a) ==
  /\ asked[a] \in {"sent", "orphan"}
  /\ asked' = [asked EXCEPT ![a] = "none"]
  /\ UNCHANGED <<socket, state, linked, status, profile, caps, timer, transport, run, clearing>>

\* onclose of a replaced socket: handleClose returns at once, and what was sent
\* on it waits until another connection is lost.
OldCloses(a) ==
  /\ asked[a] = "orphan"
  /\ asked' = [asked EXCEPT ![a] = "stranded"]
  /\ UNCHANGED <<socket, state, linked, status, profile, caps, timer, transport, run, clearing>>

\* The process is killed and started again, or dispose() at the end of it.
Restart ==
  /\ socket' = "none" /\ state' = "disconnected" /\ linked' = None
  /\ asked' = [a \in Askers |-> "none"]
  /\ status' = "idle" /\ profile' = None /\ caps' = None
  /\ timer' = FALSE /\ transport' = FALSE /\ run' = None /\ clearing' = 0

RunAnswered == ResumeAnswered \/ SubscribeAnswered \/ \E open \in BOOLEAN : ListAnswered(open)

CoordNext ==
  \/ SocketOpens \/ SocketCloses
  \/ RunAnswered \/ RunUnpaired \/ RunOffline \/ RunFails
  \/ Invalidated \/ InvalidationFails
  \/ TimerFires \/ StartNone \/ Retry \/ Restart
  \/ \E p \in Profiles : Start(p)
  \/ \E a \in Askers : Ask(a) \/ AskAnswered(a) \/ OldCloses(a)

CoordSpec == CoordInit /\ [][CoordNext]_coordVars

-----------------------------------------------------------------------------
(* Properties.                                                             *)

\* While the app shows that it is connecting to a computer, exactly one thing
\* drives it there: a run of synchronize or the timer that will start one.
\* With neither, the banner would stay for ever; with both, the timer would
\* cut the run off.  And a timer always has a profile to reconnect to.
OneDriver ==
  /\ profile # None /\ status \in Busy => (timer # (run # None))
  /\ timer => profile # None /\ run = None

\* Online with a computer means: the current socket is open, it has resumed the
\* very profile the coordinator holds, and no run or timer is about to replace
\* it.  A stale run, or a start with another profile, must not bring an old
\* computer's connection online.  Online without a computer is what is left
\* when the last answer of a run comes between start(null) and the close of the
\* socket: that socket is then closing or closed, never one that stays open.
OnlineServesProfile ==
  status = "online" =>
    /\ run = None /\ ~timer
    /\ IF profile = None THEN socket \in {"closing", "none"}
       ELSE /\ socket = "open" /\ state = "connected" /\ transport
            /\ linked = profile
            /\ caps \in {None, profile}

\* Replacing a socket rejects nothing (PendingIsRejected).  The coordinator never
\* does it of itself to a request of the app: when one is left behind, the
\* connection was up, no run was failing or superseded and no timer was set, so
\* that it was the user who asked for another connection, with Retry or by
\* pairing a computer, and not the reconnection timer.
OnlyUserStrands ==
  [][(\E a \in Askers : asked[a] = "sent" /\ asked'[a] = "orphan")
       => state = "connected" /\ run = None /\ ~timer]_coordVars

\* When a connection is lost, the requests that are pending on it are rejected
\* (docs/FINAL_IMPLEMENTATION.md:29).
PendingIsRejected == \A a \in Askers : asked[a] # "stranded"
=============================================================================
