------------------------------- MODULE PhoneState -------------------------------
(***************************************************************************)
(* What the phone knows: sessionReducer.ts and terminalBuffer.ts.  Each    *)
(* operator below is the effect of one reducer action on the part of       *)
(* SessionState it changes.                                                *)
(***************************************************************************)
EXTENDS SessionRegistry

CONSTANTS
    MaxText,  \* MAX_TERMINAL_BUFFER_LENGTH, in chunks
    None

ASSUME PhoneAssumption == MaxText \in Nat \ {0} /\ None \notin Sessions

VARIABLES
    known,  \* sessionsById: the status shown, "absent" for no entry
    text,   \* terminalBySessionId: the chunks shown
    last,   \* terminalBySessionId: lastSeq, NoSeq without an entry
    shown,  \* activeInteractionsBySessionId, 0 for none
    open    \* openSessionId

phoneVars == <<known, text, last, shown, open>>

PhoneTypeOK ==
    /\ known \in [Sessions -> Status]
    /\ text \in [Sessions -> Seq(Nat)]
    /\ last \in [Sessions -> Nat \cup {NoSeq}]
    /\ shown \in [Sessions -> Nat]
    /\ open \in Sessions \cup {None}

PhoneInit ==
    /\ known = [s \in Sessions |-> "absent"]
    /\ text = [s \in Sessions |-> <<>>]
    /\ last = [s \in Sessions |-> NoSeq]
    /\ shown = [s \in Sessions |-> 0]
    /\ open = None

-----------------------------------------------------------------------------
\* trimTerminalText.
Trim(t) == IF Len(t) > MaxText THEN SubSeq(t, Len(t) - MaxText + 1, Len(t))
           ELSE t

\* Mutant of IsNew: a chunk seen last is shown again.
IsNewOrLast(s, n) == n >= last[s]

\* appendTerminalOutput ignores what is not newer than the buffer.
IsNew(s, n) == n > last[s]

ReduceOutput(e) ==
    /\ \/ /\ IsNew(e.session, e.n)
          /\ text' = [text EXCEPT ![e.session] = Trim(Append(@, e.n))]
          /\ last' = [last EXCEPT ![e.session] = e.n]
       \/ /\ ~IsNew(e.session, e.n)
          /\ UNCHANGED <<text, last>>
    /\ UNCHANGED <<known, shown>>

\* session.created and session.updated: upsertSession.
ReduceSession(e) ==
    /\ known' = [known EXCEPT ![e.session] = e.status]
    /\ UNCHANGED <<text, last, shown>>

\* session.ended of a session the phone does not list is ignored.
ReduceEnded(e) ==
    /\ known' = [known EXCEPT ![e.session] =
                    IF @ = "absent" THEN "absent" ELSE "stopped"]
    /\ UNCHANGED <<text, last, shown>>

\* interaction.resolved removes whatever interaction the session shows.
ReduceInteraction(e) ==
    /\ shown' = [shown EXCEPT ![e.session] =
                    IF e.event = "interaction.requested" THEN e.n ELSE 0]
    /\ UNCHANGED <<known, text, last>>

\* receiveEvent.
ReceiveEvent(e) ==
    /\ \/ e.event = "terminal.output" /\ ReduceOutput(e)
       \/ e.event \in {"session.created", "session.updated"} /\ ReduceSession(e)
       \/ e.event = "session.ended" /\ ReduceEnded(e)
       \/ /\ e.event \in {"interaction.requested", "interaction.resolved"}
          /\ ReduceInteraction(e)
    /\ UNCHANGED open

\* session/listReceived replaces the list and nothing else.
ListReceived(list) ==
    /\ known' = list
    /\ UNCHANGED <<text, last, shown, open>>

\* Mutant of SnapshotOf: a snapshot is appended to what is there.
SnapshotAppended(v) == Trim(text[v.session] \o v.text)

\* replaceTerminalSnapshot.
SnapshotOf(v) == Trim(v.text)

\* session/subscribeReceived.  The daemon's replay entries are bare
\* {sessionId, seq, data} objects without the event name receiveEvent looks
\* at, so a replay changes no plain-text buffer.  The styled snapshot that
\* every answer carries, which the session screen shows before that buffer, is
\* not represented.
SubscribeReceived(v) ==
    /\ known' = [known EXCEPT ![v.session] = v.status]
    /\ shown' = [shown EXCEPT ![v.session] = v.active]
    /\ open' = v.session
    /\ \/ /\ v.mode = "snapshot"
          /\ text' = [text EXCEPT ![v.session] = SnapshotOf(v)]
          /\ last' = [last EXCEPT ![v.session] = Last(v.text)]
       \/ /\ v.mode # "snapshot"
          /\ UNCHANGED <<text, last>>

\* session/opened.
Opened(s) ==
    /\ open' = s
    /\ UNCHANGED <<known, text, last, shown>>
=============================================================================
