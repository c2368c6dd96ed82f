------------------------------ MODULE Interactions ------------------------------
(***************************************************************************)
(* The structured interactions of one session: daemon.py from the output   *)
(* of the pty to the interaction detected in it, announced to the phones,  *)
(* answered by one of them, and written to the pty.                        *)
(*                                                                         *)
(* The daemon is one asyncio loop.  Reading the pty, the debounce timer,   *)
(* an interaction.respond, the delayed Enter of a text and the exit of the *)
(* process are callbacks of that loop: each is one action, and between two *)
(* of them the program and a terminal may do anything.  The two timers     *)
(* (200 ms after the last output, 60 ms after a text) may expire in any    *)
(* order.                                                                  *)
(*                                                                         *)
(* A phone may answer any interaction at any time, and several may answer  *)
(* the same one: what the network delays and what two phones do at once is *)
(* not limited here.                                                       *)
(***************************************************************************)
EXTENDS PromptProgram

CONSTANTS
    Questions,   \* prompts for a line that offer no options
    TypedKeys,   \* keys typed at a terminal
    MaxAsked,    \* bound: interactions registered
    MaxReplies,  \* bound: answers accepted
    MaxTyped     \* bound: keys and texts typed at a terminal

ASSUME InteractionsAssumption ==
    /\ Questions \subseteq Lines
    /\ TypedKeys \subseteq {"up", "down", "enter"}
    /\ MaxAsked \in Nat /\ MaxReplies \in Nat /\ MaxTyped \in Nat

VARIABLES
    seen,     \* what the output read so far shows: a prompt, or NoPrompt
    timer,    \* _interaction_timers: the debounce timer is armed
    running,  \* pty.running: the exit was not noticed
    active,   \* entry.active_interaction: an id, or None
    asked,    \* known_interaction_ids, with the prompt each was made from
    events,   \* history: the interaction events emitted
    enters,   \* the Enters that _submit_enter has scheduled
    replies,  \* history: the answers accepted
    typed     \* keys and texts typed so far

daemonVars == <<seen, timer, running, active, asked, events, enters, replies>>
vars == <<programVars, daemonVars, typed>>

None == 0
Ids == 1 .. Len(asked)
Hows == {"answered", "cancelled", "superseded", "sessionEnded"}
Event == [type : {"requested"}, id : Nat \ {0}]
            \cup [type : {"resolved"}, id : Nat \ {0}, how : Hows]
\* A response names an option, carries a text, or cancels.  Unbound is an
\* optionIds that is empty or not bound to bytes.
Unbound == 0
Response == [type : {"options"}, option : OptionIds \cup {Unbound}]
               \cup [type : {"text", "cancel"}]
Reply == [id : Nat \ {0}, response : Response]

TypeOK ==
    /\ ProgramTypeOK
    /\ seen \in Prompt \cup {NoPrompt}
    /\ timer \in BOOLEAN /\ running \in BOOLEAN
    /\ asked \in Seq(Prompt)
    /\ active \in Ids \cup {None}
    /\ events \in Seq(Event)
    /\ enters \in Seq(Nat)
    /\ replies \in Seq(Reply)
    /\ typed \in Nat

Init ==
    /\ ProgramInit
    /\ seen = NoPrompt
    /\ timer = FALSE
    /\ running = TRUE
    /\ active = None
    /\ asked = <<>>
    /\ events = <<>>
    /\ enters = <<>>
    /\ replies = <<>>
    /\ typed = 0
-----------------------------------------------------------------------------
\* What a detection finds on the screen: a question only while nothing is echoed
\* behind it (_detect_text looks at the end of the last line), an approval or a
\* numbered list with what is (_detect_approval, _detect_menu).
Detectable ==
    IF screen # NoPrompt /\ screen.sig \in Questions /\ screen.echo > 0
    THEN NoPrompt ELSE screen

\* The text of a prompt for a line has the echo behind it; the option a menu has
\* selected is no part of it (DetectedPrompt.signature).
Signature(p) == <<p.sig, p.echo>>

\* Mutant of ReadOutput: the armed timer is cancelled and not armed anew.
ReadOutputUnarmed ==
    /\ running /\ dirty
    /\ dirty' = FALSE
    /\ seen' = Detectable
    /\ timer' = ~timer
    /\ UNCHANGED <<screen, keys, prompts, taken, input, alive>>
    /\ UNCHANGED <<running, active, asked, events, enters, replies, typed>>

\* _on_readable and _on_output: all output is read, and the timer is armed
\* anew.
ReadOutput ==
    /\ running /\ dirty
    /\ dirty' = FALSE
    /\ seen' = Detectable
    /\ timer' = TRUE
    /\ UNCHANGED <<screen, keys, prompts, taken, input, alive>>
    /\ UNCHANGED <<running, active, asked, events, enters, replies, typed>>

\* Mutant of Resolved: told although nothing is active.
ResolvedAlways(how) == <<[type |-> "resolved", id |-> active, how |-> how]>>

\* interaction.resolved, of the active interaction if there is one.
Resolved(how) ==
    IF active = None THEN <<>>
    ELSE <<[type |-> "resolved", id |-> active, how |-> how]>>

\* _resolve_interaction.
Resolve(how) ==
    /\ active' = None
    /\ events' = events \o Resolved(how)

\* Mutant of Register: what was active is not resolved.
RegisterOnly(p) ==
    /\ asked' = Append(asked, p)
    /\ active' = Len(asked) + 1
    /\ events' = Append(events, [type |-> "requested", id |-> Len(asked) + 1])

\* _register_interaction, after the one before it was superseded.
Register(p) ==
    /\ asked' = Append(asked, p)
    /\ active' = Len(asked) + 1
    /\ events' = Append(events \o Resolved("superseded"),
                        [type |-> "requested", id |-> Len(asked) + 1])

\* Mutant of SamePrompt: any active interaction stands for what is shown.
AnyPrompt(p) == active # None

\* The signature of the active interaction is that of the prompt shown.
SamePrompt(p) == active # None /\ Signature(asked[active]) = Signature(p)

\* _detect_interaction: the output has settled.
Detect ==
    /\ timer /\ running
    /\ timer' = FALSE
    /\ \/ /\ seen = NoPrompt
          /\ Resolve("superseded")
          /\ UNCHANGED asked
       \/ /\ seen # NoPrompt /\ SamePrompt(seen)
          /\ UNCHANGED <<active, asked, events>>
       \/ /\ seen # NoPrompt /\ ~SamePrompt(seen)
          /\ Len(asked) < MaxAsked
          /\ Register(seen)
    /\ UNCHANGED <<programVars, seen, running, enters, replies, typed>>
-----------------------------------------------------------------------------
\* pty.write: a program that has exited reads nothing any more, noticed or not.
Write(ks) == input' = IF alive THEN input \o ks ELSE input

Presses(key, n, from) == [i \in 1 .. n |-> [key |-> key, from |-> from]]

\* Mutant of OptionBytes: counted from the first option, not from the cursor.
OptionBytesFromTop(i, o) ==
    LET way == IF IsMenu(asked[i]) THEN Presses("down", o - 1, i)
               ELSE Presses("text", 1, i)
    IN  Append(way, [key |-> "enter", from |-> i])

\* option_bytes.  In a menu, the way from the option that was selected when
\* the interaction was registered (detect_screen_prompt); else the text bound
\* to the option (detect_prompt); with Enter in the same write.
OptionBytes(i, o) ==
    LET c == asked[i].cursor
        way == IF ~IsMenu(asked[i]) THEN Presses("text", 1, i)
               ELSE IF o > c THEN Presses("down", o - c, i)
               ELSE Presses("up", c - o, i)
    IN  Append(way, [key |-> "enter", from |-> i])

\* Mutant of DeliverText: Enter is not sent.
DeliverUnsubmitted(from) ==
    /\ Write(<<[key |-> "text", from |-> from]>>)
    /\ UNCHANGED enters

\* _deliver_text with submit: the text now, Enter by a timer of its own.
DeliverText(from) ==
    /\ Write(<<[key |-> "text", from |-> from]>>)
    /\ enters' = Append(enters, from)

\* _submit_enter, its timer; _safe_write ignores that the session has ended.
SubmitEnter ==
    /\ enters # <<>>
    /\ enters' = Tail(enters)
    /\ IF running THEN Write(<<[key |-> "enter", from |-> Head(enters)]>>)
       ELSE UNCHANGED input
    /\ UNCHANGED <<screen, keys, prompts, taken, dirty, alive>>
    /\ UNCHANGED <<seen, timer, running, active, asked, events, replies, typed>>

\* Mutant of Current: an interaction that was registered may be answered.
IsKnown(i) == i \in Ids

\* Anything else is refused, INTERACTION_NOT_FOUND or INTERACTION_STALE.
Current(i) == active = i

\* What the cards of the phone offer for an interaction
\* (StructuredActionZone.tsx), and cancel.  Of the options of a prompt for a
\* line one stands for all.
Offered(i) ==
    [type : {"cancel"}]
       \cup IF IsMenu(asked[i])
            THEN [type : {"options"}, option : OptionIds \cup {Unbound}]
            ELSE [type : {"options"}, option : {1}] \cup [type : {"text"}]

\* _handle_interaction_respond: resolved first, then written.
Respond(i, r) ==
    /\ Current(i) /\ r \in Offered(i)
    /\ Len(replies) < MaxReplies
    /\ replies' = Append(replies, [id |-> i, response |-> r])
    /\ \/ /\ r.type = "options"
          /\ Resolve("answered")
          /\ IF r.option = Unbound THEN UNCHANGED input
             ELSE Write(OptionBytes(i, r.option))
          /\ UNCHANGED enters
       \/ /\ r.type = "text"
          /\ Resolve("answered")
          /\ DeliverText(i)
       \/ /\ r.type = "cancel"
          /\ Resolve("cancelled")
          /\ UNCHANGED <<input, enters>>
    /\ UNCHANGED <<screen, keys, prompts, taken, dirty, alive>>
    /\ UNCHANGED <<seen, timer, running, asked, typed>>

\* STDIN of the shim, or a raw session.input of a phone.
Type(key) ==
    /\ running /\ typed < MaxTyped
    /\ typed' = typed + 1
    /\ Write(<<[key |-> key, from |-> Terminal]>>)
    /\ UNCHANGED <<screen, keys, prompts, taken, dirty, alive, daemonVars>>

\* A session.input of a phone with inputMode text and submit.
InputText ==
    /\ running /\ typed < MaxTyped
    /\ typed' = typed + 1
    /\ DeliverText(Terminal)
    /\ UNCHANGED <<screen, keys, prompts, taken, dirty, alive>>
    /\ UNCHANGED <<seen, timer, running, active, asked, events, replies>>

\* _finalize and _on_exit: end of file, after all output was read.
NoticeExit ==
    /\ running /\ ~alive /\ ~dirty
    /\ running' = FALSE
    /\ timer' = FALSE
    /\ Resolve("sessionEnded")
    /\ UNCHANGED <<programVars, seen, asked, enters, replies, typed>>

Next ==
    \/ ProgramNext /\ UNCHANGED <<daemonVars, typed>>
    \/ ReadOutput \/ Detect \/ SubmitEnter \/ NoticeExit \/ InputText
    \/ \E key \in TypedKeys : Type(key)
    \/ \E i \in Ids : \E r \in Response : Respond(i, r)

Spec == Init /\ [][Next]_vars

\* Output is read and timers expire.  Output that never stops may keep the
\* debounce timer from expiring.  A program with a prompt on the screen reads
\* its keys.
Fairness ==
    /\ WF_vars(ReadOutput)
    /\ WF_vars(Detect /\ ~dirty)
    /\ WF_vars(SubmitEnter)
    /\ WF_vars(NoticeExit)
    /\ WF_vars((ReadKey \/ DropKey) /\ UNCHANGED <<daemonVars, typed>>)

FairSpec == Spec /\ Fairness
-----------------------------------------------------------------------------
(* Properties.                                                             *)

\* The events tell every interaction once: requested, then resolved before
\* the next is requested, under ids never used before, and a phone that has
\* heard them all shows the one that is active and no other
\* (_register_interaction, _resolve_interaction).
Alternate(evs) ==
    \A k \in 1 .. Len(evs) :
       /\ evs[k].id = (k + 1) \div 2
       /\ evs[k].type = IF k % 2 = 1 THEN "requested" ELSE "resolved"

EventsTellActive ==
    /\ Alternate(events)
    /\ Len(asked) = (Len(events) + 1) \div 2
    /\ active = IF Len(events) % 2 = 1 THEN Len(asked) ELSE None

Replied(i) == \E k \in 1 .. Len(replies) : replies[k].id = i

ToldAsReplied(i) ==
    \E k \in 1 .. Len(events) :
       /\ events[k].type = "resolved" /\ events[k].id = i
       /\ events[k].how \in {"answered", "cancelled"}

\* A response that arrives twice, or from two phones, is written once: there
\* is one accepted reply per interaction that was announced as answered or
\* cancelled, and none for any other (_handle_interaction_respond,
\* "exactly-once").
RepliesOnce ==
    /\ \A j, k \in 1 .. Len(replies) :
          replies[j].id = replies[k].id => j = k
    /\ \A i \in Ids : Replied(i) <=> ToldAsReplied(i)

\* Nothing is left to happen to the screen or to what the daemon makes of it.
Settled ==
    running /\ alive /\ ~dirty /\ ~timer /\ input = <<>> /\ enters = <<>>

\* The last reply left its prompt open: it was a cancel, or an option bound to
\* nothing, to a prompt of the signature on the screen.
LeftOpen ==
    /\ replies # <<>>
    /\ LET last == replies[Len(replies)]
       IN  /\ Signature(asked[last.id]) = Signature(screen)
           /\ \/ last.response.type = "cancel"
              \/ last.response = [type |-> "options", option |-> Unbound]

\* Once settled, the active interaction is the one of the prompt on the
\* screen, and a prompt without an interaction is one that a reply has
\* deliberately left open: no card is left over and no prompt is forgotten,
\* whatever was typed, answered, withdrawn or redrawn in between.  A session
\* that has ended has no card (_detect_interaction, _on_exit).
SettledAgree ==
    /\ Settled =>
          /\ active # None => /\ Detectable # NoPrompt
                              /\ Signature(asked[active]) = Signature(screen)
          /\ active = None /\ Detectable # NoPrompt => LeftOpen
    /\ ~running => active = None

Sources(t) == {t.keys[k].from : k \in 1 .. Len(t.keys)}
AnswerOf(i) == replies[CHOOSE k \in 1 .. Len(replies) : replies[k].id = i].response

\* An answer that reaches the prompt it was given to, and shares it with no
\* key from elsewhere, closes it as answered: with the option that was chosen,
\* whichever one the cursor was on, or the one text (option_bytes,
\* _deliver_text).
AnswersTaken ==
    \A k \in 1 .. Len(taken) : \A i \in Ids :
       LET t == taken[k]
       IN  Sources(t) = {i} /\ asked[i].n = t.prompt.n =>
              IF IsMenu(t.prompt) THEN AnswerOf(i).option = t.prompt.cursor
              ELSE Len(t.keys) = 2

\* The keys of an answer to i are written, or about to be.
Written(i) ==
    \E k \in 1 .. Len(replies) :
       /\ replies[k].id = i
       /\ \/ replies[k].response.type = "text"
          \/ /\ replies[k].response.type = "options"
             /\ replies[k].response.option # Unbound

Closed(i) == i \in Ids => screen.n # asked[i].n

\* An answer that writes something closes the prompt it was given to, or finds
\* it closed, unless the program exits (_write_pty, _submit_enter).
AnswerCloses == \A i \in 1 .. MaxAsked : Written(i) ~> Closed(i) \/ ~alive

\* When output stops for good, a prompt that is on the screen is offered to
\* the phones, unless a reply has left it open or the bound on interactions is
\* reached (_schedule_interaction_detect).
QuietPromptIsOffered ==
    <>[](~dirty /\ alive) =>
       <>[](Detectable # NoPrompt /\ input = <<>> =>
              active # None \/ LeftOpen \/ Len(asked) = MaxAsked)

\* A response to an older prompt is rejected rather than sent to a newer one
\* (docs/superpowers/specs/2026-07-11-cli-remote-control-mvp-design.md:90).
NeverToNewerPrompt ==
    \A k \in 1 .. Len(taken) : \A i \in Sources(taken[k]) :
       i # Terminal => taken[k].prompt.n <= asked[i].n
=============================================================================
