---------------------------- MODULE SessionRegistry ----------------------------
(***************************************************************************)
(* The daemon's side of session synchronisation: registry.py, and the      *)
(* parts of daemon.py that change a session and tell the phones about it.  *)
(*                                                                         *)
(* The daemon is one asyncio loop, so code between two awaits is atomic.   *)
(* An output chunk is known by its seq, the counter all sessions share,    *)
(* and the buffer of a session is the sequence of the chunks it retains.   *)
(* _emit only creates a task that will send the event: events is the queue *)
(* of those tasks, run in the order they were created.                     *)
(*                                                                         *)
(* Chunks have the same size here, so that the two budgets of              *)
(* append_output (bytes, chunks) are the one bound MaxBuffer.              *)
(***************************************************************************)
EXTENDS Integers, Sequences

CONSTANTS
    Sessions,          \* session ids; random in the code, never used twice
    MaxBuffer,         \* MAX_BUFFER_CHUNKS
    MaxSeq,            \* bound: outputs over the life of the model
    MaxInteractions,   \* bound: interactions detected
    MaxRestarts        \* bound: restarts of the daemon

ASSUME RegistryAssumption ==
    /\ MaxBuffer \in Nat \ {0}
    /\ MaxSeq \in Nat /\ MaxInteractions \in Nat /\ MaxRestarts \in Nat

VARIABLES
    status,     \* session.status, "absent" before it exists, "gone" after
    announced,  \* sessions whose session.created was emitted
    seq,        \* SessionRegistry._seq
    buffer,     \* SessionEntry.buffer: the retained chunks
    active,     \* SessionEntry.active_interaction: an id, or 0
    lastId,     \* interactions registered so far
    events,     \* the tasks created by _emit that have not run
    restarts,   \* restarts so far
    written     \* history: every chunk a session has put out

daemonVars == <<status, announced, seq, buffer, active, lastId, events,
                restarts, written>>

NoSeq == -1           \* a subscribe without afterSeq
Live == {"starting", "running", "waiting", "stopped"}
Status == Live \cup {"absent", "gone"}
EventNames == {"session.created", "session.updated", "session.ended",
               "terminal.output", "interaction.requested",
               "interaction.resolved"}
\* n is the seq of an output or the id of an interaction.
Event == [event : EventNames, session : Sessions, n : Nat, status : Status]
View == [session : Sessions, status : Status, active : Nat,
         mode : {"live", "replay", "snapshot"},
         text : Seq(Nat),        \* terminalBuffer of a snapshot
         missed : SUBSET Nat]    \* events of a replay; the phone sorts them

Entries == {s \in Sessions : status[s] \in Live}

RegistryTypeOK ==
    /\ status \in [Sessions -> Status]
    /\ announced \subseteq Sessions
    /\ seq \in Nat /\ lastId \in Nat /\ restarts \in Nat
    /\ buffer \in [Sessions -> Seq(Nat)]
    /\ active \in [Sessions -> Nat]
    /\ events \in Seq(Event)
    /\ written \in [Sessions -> Seq(Nat)]

RegistryInit ==
    /\ status = [s \in Sessions |-> "absent"]
    /\ announced = {}
    /\ seq = 0 /\ lastId = 0 /\ restarts = 0
    /\ buffer = [s \in Sessions |-> <<>>]
    /\ active = [s \in Sessions |-> 0]
    /\ events = <<>>
    /\ written = [s \in Sessions |-> <<>>]

-----------------------------------------------------------------------------
\* Mutant of Ev: the event carries its own name where the status belongs.
EvSwapped(name, s, n, st) ==
    [event |-> name, session |-> s, n |-> n, status |-> name]

Ev(name, s, n, st) == [event |-> name, session |-> s, n |-> n, status |-> st]

Emit(evs) == events' = events \o evs

\* _handle_shim up to READY: the entry is created, the pty started and the
\* session marked running before anything is awaited.
Launch(s) ==
    /\ status[s] = "absent"
    /\ status' = [status EXCEPT ![s] = "running"]
    /\ UNCHANGED <<announced, seq, buffer, active, lastId, events, restarts,
                   written>>

\* _handle_shim, after READY is drained: the session is announced as it is by
\* then.
Announce(s) ==
    /\ status[s] \in Live \ {"starting"} /\ s \notin announced
    /\ announced' = announced \cup {s}
    /\ Emit(<<Ev("session.created", s, 0, status[s])>>)
    /\ UNCHANGED <<status, seq, buffer, active, lastId, restarts, written>>

\* _handle_shim when the pty does not start: the entry stays in the registry
\* while the error is sent to the shim ...
LaunchFails(s) ==
    /\ status[s] = "absent"
    /\ status' = [status EXCEPT ![s] = "starting"]
    /\ UNCHANGED <<announced, seq, buffer, active, lastId, events, restarts,
                   written>>

\* ... and is removed then, without an event.
Cleanup(s) ==
    /\ status[s] = "starting"
    /\ status' = [status EXCEPT ![s] = "gone"]
    /\ UNCHANGED <<announced, seq, buffer, active, lastId, events, restarts,
                   written>>

\* Mutant of Retained: the oldest chunk goes one append early.
RetainedLess(b) == IF Len(b) >= MaxBuffer THEN Tail(b) ELSE b

\* append_output: at most one chunk is over the budget after an append.
Retained(b) == IF Len(b) > MaxBuffer THEN Tail(b) ELSE b

\* _on_output: the chunk gets the next seq, is buffered and sent.
Output(s) ==
    /\ status[s] \in {"running", "waiting"}
    /\ seq < MaxSeq
    /\ seq' = seq + 1
    /\ buffer' = [buffer EXCEPT ![s] = Retained(Append(@, seq + 1))]
    /\ written' = [written EXCEPT ![s] = Append(@, seq + 1)]
    /\ Emit(<<Ev("terminal.output", s, seq + 1, status[s])>>)
    /\ UNCHANGED <<status, announced, active, lastId, restarts>>

\* Mutant of ResolvedEvents: the status change is not told.
ResolvedOnly(s) == <<Ev("interaction.resolved", s, active[s], status[s])>>

\* _resolve_interaction, its two events.
ResolvedEvents(s) ==
    <<Ev("interaction.resolved", s, active[s], status[s]),
      Ev("session.updated", s, 0, "running")>>

\* _register_interaction, its two events.
RequestedEvents(s) ==
    <<Ev("interaction.requested", s, lastId + 1, "waiting"),
      Ev("session.updated", s, 0, "waiting")>>

\* An answer or a cancel, and a detection that finds no prompt: the active
\* interaction is resolved and the session runs again.
Resolve(s) ==
    /\ status[s] \in {"running", "waiting"} /\ active[s] # 0
    /\ active' = [active EXCEPT ![s] = 0]
    /\ status' = [status EXCEPT ![s] = "running"]
    /\ Emit(ResolvedEvents(s))
    /\ UNCHANGED <<announced, seq, buffer, lastId, restarts, written>>

\* _detect_interaction finds a new prompt: the one before is superseded.
Detect(s) ==
    /\ status[s] \in {"running", "waiting"}
    /\ buffer[s] # <<>>
    /\ lastId < MaxInteractions
    /\ lastId' = lastId + 1
    /\ active' = [active EXCEPT ![s] = lastId + 1]
    /\ status' = [status EXCEPT ![s] = "waiting"]
    /\ Emit((IF active[s] = 0 THEN <<>> ELSE ResolvedEvents(s))
               \o RequestedEvents(s))
    /\ UNCHANGED <<announced, seq, buffer, restarts, written>>

\* Mutant of Exit: the interaction of the session outlives it.
ExitKeepsInteraction(s) ==
    /\ status[s] \in {"running", "waiting"}
    /\ status' = [status EXCEPT ![s] = "stopped"]
    /\ Emit(<<Ev("session.ended", s, 0, "stopped")>>)
    /\ UNCHANGED <<announced, seq, buffer, active, lastId, restarts, written>>

\* _on_exit: the interaction is resolved without a session.updated, the
\* session is stopped and keeps its buffer.
Exit(s) ==
    /\ status[s] \in {"running", "waiting"}
    /\ status' = [status EXCEPT ![s] = "stopped"]
    /\ active' = [active EXCEPT ![s] = 0]
    /\ Emit((IF active[s] = 0 THEN <<>>
             ELSE <<Ev("interaction.resolved", s, active[s], status[s])>>)
               \o <<Ev("session.ended", s, 0, "stopped")>>)
    /\ UNCHANGED <<announced, seq, buffer, lastId, restarts, written>>

\* A new daemon process: the registry lives in memory.
DaemonRestart ==
    /\ restarts < MaxRestarts
    /\ restarts' = restarts + 1
    /\ status' = [s \in Sessions |->
                     IF status[s] = "absent" THEN "absent" ELSE "gone"]
    /\ announced' = {}
    /\ seq' = 0
    /\ buffer' = [s \in Sessions |-> <<>>]
    /\ active' = [s \in Sessions |-> 0]
    /\ events' = <<>>
    /\ UNCHANGED <<lastId, written>>

\* The steps of the daemon that leave the relay connection alone.
DaemonStep ==
    \E s \in Sessions :
        \/ Launch(s) \/ Announce(s) \/ LaunchFails(s) \/ Cleanup(s)
        \/ Output(s) \/ Resolve(s) \/ Detect(s) \/ Exit(s)

RegistryNext == DaemonStep \/ DaemonRestart

RegistrySpec == RegistryInit /\ [][RegistryNext]_daemonVars
-----------------------------------------------------------------------------
(* subscribe_view: what a phone that has seen afterSeq is sent.            *)

Last(t) == t[Len(t)]

\* The chunks of t after a seq.
Newer(t, after) == {t[i] : i \in {j \in 1 .. Len(t) : t[j] > after}}

\* Mutant of Mode: the window is taken to reach one chunk further back.
ModeEarly(b, after) ==
    IF b = <<>> \/ (after # NoSeq /\ after >= Last(b)) THEN "live"
    ELSE IF after # NoSeq /\ after >= b[1] - 2 THEN "replay"
    ELSE "snapshot"

Mode(b, after) ==
    IF b = <<>> \/ (after # NoSeq /\ after >= Last(b)) THEN "live"
    ELSE IF after # NoSeq /\ after >= b[1] - 1 THEN "replay"
    ELSE "snapshot"

SubscribeView(s, after) ==
    LET mode == Mode(buffer[s], after)
    IN  [session |-> s, status |-> status[s], active |-> active[s],
         mode |-> mode,
         text |-> IF mode = "snapshot" THEN buffer[s] ELSE <<>>,
         missed |-> IF mode = "replay" THEN Newer(buffer[s], after) ELSE {}]

SessionList == [s \in Sessions |-> IF s \in Entries THEN status[s] ELSE "absent"]
-----------------------------------------------------------------------------
(* Properties.                                                             *)

\* The buffer of a session holds its most recent outputs, in order, all of
\* them while they fit (registry.py, append_output).
BufferIsRecent ==
    \A s \in Entries :
        LET w == written[s]
            b == buffer[s]
        IN  /\ Len(b) = IF Len(w) < MaxBuffer THEN Len(w) ELSE MaxBuffer
            /\ b = SubSeq(w, Len(w) - Len(b) + 1, Len(w))

\* A subscription loses nothing: "live" means that no output is newer than
\* afterSeq and "replay" carries every output that is, whatever the other
\* sessions have put in between (registry.py, subscribe_view;
\* docs/protocol-contracts.md:428).
ViewsAreComplete ==
    \A s \in Entries, after \in {NoSeq} \cup 0 .. seq :
        LET v == SubscribeView(s, after)
        IN  /\ v.mode = "live" => Newer(written[s], after) = {}
            /\ v.mode = "replay" => v.missed = Newer(written[s], after)

\* A session is waiting exactly while an interaction is active in it
\* (daemon.py, _register_interaction, _resolve_interaction, _on_exit).
WaitingHasInteraction ==
    \A s \in Sessions : status[s] = "waiting" <=> active[s] # 0
=============================================================================
