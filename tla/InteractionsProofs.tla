-------------------------- MODULE InteractionsProofs --------------------------
(***************************************************************************)
(* Theorems about Interactions, for any signatures, number of options and  *)
(* bounds, whatever the program and the terminal do.                       *)
(***************************************************************************)
EXTENDS Interactions, SequenceTheorems, TLAPS

-----------------------------------------------------------------------------
(* Types.                                                                  *)

LEMMA AppendTyped ==
    ASSUME NEW S, NEW s \in Seq(S), NEW e \in S
    PROVE  Append(s, e) \in Seq(S)
  BY AppendProperties

LEMMA NoPromptIsNone == NoPrompt \notin Prompt
  BY DEF NoPrompt, Prompt

\* A cursor stays on the options.
LEMMA MovedTyped ==
    ASSUME NEW p \in Prompt, NEW key
    PROVE  Moved(p, key) \in Prompt
<1>1. p.cursor \in 1 .. NOptions /\ NOptions \in Nat
  BY ProgramAssumption DEF Prompt, OptionIds
<1>2. /\ p.cursor < NOptions => p.cursor + 1 \in OptionIds
      /\ p.cursor > 1 => p.cursor - 1 \in OptionIds
  BY <1>1 DEF OptionIds
<1>3. /\ p.cursor < NOptions => [p EXCEPT !.cursor = @ + 1] \in Prompt
      /\ p.cursor > 1 => [p EXCEPT !.cursor = @ - 1] \in Prompt
  BY <1>2 DEF Prompt
<1>4. [p EXCEPT !.echo = IF key = "text" THEN @ + 1 ELSE @] \in Prompt
  BY DEF Prompt
<1>5. QED
  BY <1>3, <1>4 DEF Moved

LEMMA ReadKeyTypes ==
    ASSUME ProgramTypeOK, ReadKey
    PROVE  ProgramTypeOK'
<1>1. /\ input # <<>> /\ screen # NoPrompt /\ dirty' = TRUE
      /\ input' = Tail(input) /\ prompts' = prompts /\ alive' = alive
  BY DEF ReadKey
<1>2. Head(input) \in Key /\ Tail(input) \in Seq(Key)
  BY <1>1, HeadTailProperties DEF ProgramTypeOK
<1>3. Append(keys, Head(input)) \in Seq(Key)
  BY <1>2, AppendTyped DEF ProgramTypeOK
<1>4. screen \in Prompt
  BY <1>1 DEF ProgramTypeOK
<1>5. CASE Head(input).key = "enter"
  <2>1. /\ screen' = NoPrompt /\ keys' = <<>>
        /\ taken' = Append(taken, [prompt |-> screen,
                                   keys |-> Append(keys, Head(input))])
    BY <1>5 DEF ReadKey
  <2>2. [prompt |-> screen, keys |-> Append(keys, Head(input))] \in Taken
    BY <1>3, <1>4 DEF Taken
  <2>3. taken' \in Seq(Taken)
    BY <2>1, <2>2, AppendTyped DEF ProgramTypeOK
  <2>4. QED
    BY <1>1, <1>2, <2>1, <2>3 DEF ProgramTypeOK
<1>6. CASE Head(input).key # "enter"
  <2>1. /\ screen' = Moved(screen, Head(input).key)
        /\ keys' = Append(keys, Head(input)) /\ taken' = taken
    BY <1>6 DEF ReadKey
  <2>2. screen' \in Prompt
    BY <1>4, <2>1, MovedTyped
  <2>3. QED
    BY <1>1, <1>2, <1>3, <2>1, <2>2 DEF ProgramTypeOK
<1>7. QED
  BY <1>5, <1>6

\* Every step of the program keeps its types.
LEMMA ProgramTypes ==
    ASSUME ProgramTypeOK, ProgramNext
    PROVE  ProgramTypeOK'
<1>1. ASSUME NEW sig \in Signatures, NEW c \in OptionIds, ShowPrompt(sig, c)
      PROVE  ProgramTypeOK'
  <2>1. [n |-> prompts + 1, sig |-> sig, cursor |-> c, echo |-> 0] \in Prompt
    BY DEF ProgramTypeOK, Prompt
  <2>2. QED
    BY <1>1, <2>1 DEF ProgramTypeOK, ShowPrompt
<1>2. CASE Withdraw
  BY <1>2 DEF ProgramTypeOK, Withdraw
<1>3. CASE Redraw
  BY <1>3 DEF ProgramTypeOK, Redraw
<1>4. CASE ReadKey
  BY <1>4, ReadKeyTypes
<1>5. CASE DropKey
  <2>1. Tail(input) \in Seq(Key)
    BY <1>5, HeadTailProperties DEF ProgramTypeOK, DropKey
  <2>2. QED
    BY <1>5, <2>1 DEF ProgramTypeOK, DropKey
<1>6. CASE Quit
  <2>1. /\ screen' = NoPrompt /\ keys' = <<>> /\ input' = <<>>
        /\ prompts' = prompts /\ taken' = taken /\ dirty' = dirty
        /\ alive' = FALSE
    BY <1>6 DEF Quit
  <2>2. input' \in Seq(Key) /\ keys' \in Seq(Key)
    BY <2>1, EmptySeq
  <2>3. alive' \in BOOLEAN
    BY <2>1
  <2>4. QED
    BY <2>1, <2>2, <2>3 DEF ProgramTypeOK
<1>7. QED
  BY <1>1, <1>2, <1>3, <1>4, <1>5, <1>6 DEF ProgramNext

LEMMA WriteTyped ==
    ASSUME input \in Seq(Key), NEW ks \in Seq(Key), Write(ks)
    PROVE  input' \in Seq(Key)
  BY ConcatProperties DEF Write

LEMMA KeyTyped ==
    ASSUME NEW key \in {"up", "down", "enter", "text"}, NEW from \in Nat
    PROVE  /\ [key |-> key, from |-> from] \in Key
           /\ <<[key |-> key, from |-> from]>> \in Seq(Key)
  BY DEF Key

LEMMA PressesTyped ==
    ASSUME NEW key \in {"up", "down", "enter", "text"}, NEW from \in Nat,
           NEW n \in Nat
    PROVE  Presses(key, n, from) \in Seq(Key)
<1>1. Presses(key, n, from) \in [1 .. n -> Key]
  BY DEF Presses, Key
<1>2. QED
  BY <1>1, SeqDef

LEMMA OptionBytesTyped ==
    ASSUME TypeOK, NEW i \in Ids, NEW o \in OptionIds
    PROVE  OptionBytes(i, o) \in Seq(Key)
<1>1. i \in Nat /\ asked[i] \in Prompt
  BY ElementOfSeq DEF TypeOK, Ids
<1>2. asked[i].cursor \in OptionIds
  BY <1>1 DEF Prompt
<1>3. PICK c : c = asked[i].cursor
  OBVIOUS
<1>4. c \in Nat /\ o \in Nat
  BY <1>2, <1>3, ProgramAssumption DEF OptionIds
<1>5. /\ Presses("text", 1, i) \in Seq(Key)
      /\ o > c => Presses("down", o - c, i) \in Seq(Key)
      /\ ~(o > c) => Presses("up", c - o, i) \in Seq(Key)
  <2>1. Presses("text", 1, i) \in Seq(Key)
    BY <1>1, PressesTyped
  <2>2. ASSUME o > c PROVE Presses("down", o - c, i) \in Seq(Key)
    <3>1. o - c \in Nat
      BY <1>4, <2>2
    <3>2. QED
      BY <1>1, <3>1, PressesTyped
  <2>3. ASSUME ~(o > c) PROVE Presses("up", c - o, i) \in Seq(Key)
    <3>1. c - o \in Nat
      BY <1>4, <2>3
    <3>2. QED
      BY <1>1, <3>1, PressesTyped
  <2>4. QED
    BY <2>1, <2>2, <2>3
<1>6. (IF ~IsMenu(asked[i]) THEN Presses("text", 1, i)
       ELSE IF o > c THEN Presses("down", o - c, i)
       ELSE Presses("up", c - o, i)) \in Seq(Key)
  BY <1>5
<1>7. QED
  BY <1>1, <1>3, <1>6, KeyTyped, AppendTyped DEF OptionBytes

LEMMA ResolvedTyped ==
    ASSUME TypeOK, NEW how \in Hows
    PROVE  Resolved(how) \in Seq(Event)
<1>1. CASE active = None
  BY <1>1 DEF Resolved
<1>2. CASE active # None
  <2>1. active \in Nat \ {0}
    BY <1>2, LenProperties DEF TypeOK, Ids, None
  <2>2. [type |-> "resolved", id |-> active, how |-> how] \in Event
    BY <2>1 DEF Event
  <2>3. QED
    BY <1>2, <2>2 DEF Resolved
<1>3. QED
  BY <1>1, <1>2

LEMMA ResolveTyped ==
    ASSUME TypeOK, NEW how \in Hows, Resolve(how)
    PROVE  active' = None /\ events' \in Seq(Event)
  BY ResolvedTyped, ConcatProperties DEF Resolve, TypeOK

LEMMA RegisterTyped ==
    ASSUME TypeOK, NEW p \in Prompt, Register(p)
    PROVE  /\ asked' \in Seq(Prompt) /\ Len(asked') = Len(asked) + 1
           /\ active' \in 1 .. Len(asked')
           /\ events' \in Seq(Event)
<1>1. asked \in Seq(Prompt) /\ Len(asked) \in Nat
  BY LenProperties DEF TypeOK
<1>2. asked' \in Seq(Prompt) /\ Len(asked') = Len(asked) + 1
  BY <1>1, AppendProperties DEF Register
<1>3. active' \in 1 .. Len(asked')
  BY <1>1, <1>2 DEF Register
<1>4. events \o Resolved("superseded") \in Seq(Event)
  BY ResolvedTyped, ConcatProperties DEF TypeOK, Hows
<1>5. [type |-> "requested", id |-> Len(asked) + 1] \in Event
  BY <1>1 DEF Event
<1>6. events' \in Seq(Event)
  BY <1>4, <1>5, AppendTyped DEF Register
<1>7. QED
  BY <1>2, <1>3, <1>6

LEMMA DeliverTyped ==
    ASSUME TypeOK, NEW from \in Nat, DeliverText(from)
    PROVE  input' \in Seq(Key) /\ enters' \in Seq(Nat)
  BY KeyTyped, WriteTyped, AppendTyped DEF TypeOK, ProgramTypeOK, DeliverText

LEMMA RespondTypes ==
    ASSUME TypeOK, NEW i \in Ids, NEW r \in Response, Respond(i, r)
    PROVE  TypeOK'
<1>1. /\ screen' = screen /\ keys' = keys /\ prompts' = prompts
      /\ taken' = taken /\ dirty' = dirty /\ alive' = alive
      /\ seen' = seen /\ timer' = timer /\ running' = running
      /\ asked' = asked /\ typed' = typed
      /\ replies' = Append(replies, [id |-> i, response |-> r])
  BY DEF Respond
<1>2. i \in Nat \ {0}
  BY LenProperties DEF TypeOK, Ids
<1>3. [id |-> i, response |-> r] \in Reply
  BY <1>2 DEF Reply
<1>4. replies' \in Seq(Reply)
  BY <1>1, <1>3, AppendTyped DEF TypeOK
<1>5. /\ active' = None /\ events' \in Seq(Event)
      /\ input' \in Seq(Key) /\ enters' \in Seq(Nat)
  <2>1. CASE r.type = "options"
    <3>1. /\ Resolve("answered") /\ enters' = enters
          /\ IF r.option = Unbound THEN input' = input
             ELSE Write(OptionBytes(i, r.option))
      BY <2>1 DEF Respond
    <3>2. active' = None /\ events' \in Seq(Event)
      BY <3>1, ResolveTyped DEF Hows
    <3>3. r.option # Unbound => r.option \in OptionIds
      BY <2>1 DEF Response
    <3>4. input' \in Seq(Key)
      BY <3>1, <3>3, OptionBytesTyped, WriteTyped DEF TypeOK, ProgramTypeOK
    <3>5. QED
      BY <3>1, <3>2, <3>4 DEF TypeOK
  <2>2. CASE r.type = "text"
    <3>1. Resolve("answered") /\ DeliverText(i)
      BY <2>2 DEF Respond
    <3>2. active' = None /\ events' \in Seq(Event)
      BY <3>1, ResolveTyped DEF Hows
    <3>3. QED
      BY <1>2, <3>1, <3>2, DeliverTyped
  <2>3. CASE r.type = "cancel"
    <3>1. Resolve("cancelled") /\ input' = input /\ enters' = enters
      BY <2>3 DEF Respond
    <3>2. active' = None /\ events' \in Seq(Event)
      BY <3>1, ResolveTyped DEF Hows
    <3>3. QED
      BY <3>1, <3>2 DEF TypeOK, ProgramTypeOK
  <2>4. QED
    BY <2>1, <2>2, <2>3 DEF Respond
<1>6. QED
  BY <1>1, <1>4, <1>5 DEF TypeOK, ProgramTypeOK, Ids

LEMMA DetectTypes ==
    ASSUME TypeOK, Detect
    PROVE  TypeOK'
<1>1. /\ programVars' = programVars /\ timer' = FALSE /\ seen' = seen
      /\ running' = running /\ enters' = enters /\ replies' = replies
      /\ typed' = typed
  BY DEF Detect
<1>2. ProgramTypeOK'
  BY <1>1 DEF TypeOK, ProgramTypeOK, programVars
<1>3. /\ asked' \in Seq(Prompt) /\ events' \in Seq(Event)
      /\ active' \in 1 .. Len(asked') \cup {None}
  <2>1. CASE Resolve("superseded") /\ asked' = asked
    BY <2>1, ResolveTyped DEF Hows, TypeOK
  <2>2. CASE UNCHANGED <<active, asked, events>>
    BY <2>2 DEF TypeOK, Ids
  <2>3. CASE seen # NoPrompt /\ Register(seen)
    <3>1. seen \in Prompt
      BY <2>3 DEF TypeOK
    <3>2. QED
      BY <2>3, <3>1, RegisterTyped
  <2>4. QED
    BY <2>1, <2>2, <2>3 DEF Detect
<1>4. QED
  BY <1>1, <1>2, <1>3 DEF TypeOK, Ids

LEMMA ReadOutputTypes ==
    ASSUME TypeOK, ReadOutput
    PROVE  TypeOK'
<1>1. Detectable \in Prompt \cup {NoPrompt}
  BY DEF Detectable, TypeOK, ProgramTypeOK
<1>2. QED
  BY <1>1 DEF ReadOutput, TypeOK, ProgramTypeOK, Ids

LEMMA SubmitEnterTypes ==
    ASSUME TypeOK, SubmitEnter
    PROVE  TypeOK'
<1>1. Head(enters) \in Nat /\ Tail(enters) \in Seq(Nat)
  BY HeadTailProperties DEF SubmitEnter, TypeOK
<1>2. <<[key |-> "enter", from |-> Head(enters)]>> \in Seq(Key)
  BY <1>1, KeyTyped
<1>3. input' \in Seq(Key)
  BY <1>2, WriteTyped DEF SubmitEnter, TypeOK, ProgramTypeOK
<1>4. QED
  BY <1>1, <1>3 DEF SubmitEnter, TypeOK, ProgramTypeOK, Ids

LEMMA TypeTypes ==
    ASSUME TypeOK, NEW key \in TypedKeys, Type(key)
    PROVE  TypeOK'
<1>1. <<[key |-> key, from |-> Terminal]>> \in Seq(Key)
  BY KeyTyped, InteractionsAssumption DEF Terminal
<1>2. input' \in Seq(Key)
  BY <1>1, WriteTyped DEF Type, TypeOK, ProgramTypeOK
<1>3. QED
  BY <1>2 DEF Type, TypeOK, ProgramTypeOK, Ids, daemonVars

LEMMA InputTextTypes ==
    ASSUME TypeOK, InputText
    PROVE  TypeOK'
<1>1. input' \in Seq(Key) /\ enters' \in Seq(Nat)
  BY DeliverTyped DEF InputText, Terminal
<1>2. QED
  BY <1>1 DEF InputText, TypeOK, ProgramTypeOK, Ids

LEMMA NoticeExitTypes ==
    ASSUME TypeOK, NoticeExit
    PROVE  TypeOK'
<1>1. active' = None /\ events' \in Seq(Event)
  BY ResolveTyped DEF NoticeExit, Hows
<1>2. QED
  BY <1>1 DEF NoticeExit, TypeOK, ProgramTypeOK, Ids, programVars

LEMMA TypesStep ==
    ASSUME TypeOK, [Next]_vars
    PROVE  TypeOK'
<1>1. CASE ProgramNext /\ UNCHANGED <<daemonVars, typed>>
  <2>1. ProgramTypeOK'
    BY <1>1, ProgramTypes DEF TypeOK
  <2>2. QED
    BY <1>1, <2>1 DEF TypeOK, Ids, daemonVars
<1>2. CASE UNCHANGED vars
  BY <1>2 DEF TypeOK, ProgramTypeOK, Ids, vars, programVars, daemonVars
<1>3. QED
  BY <1>1, <1>2, ReadOutputTypes, DetectTypes, SubmitEnterTypes,
     NoticeExitTypes, InputTextTypes, TypeTypes, RespondTypes DEF Next

LEMMA TypesInit == Init => TypeOK
<1> SUFFICES ASSUME Init PROVE TypeOK
  OBVIOUS
<1>1. ProgramTypeOK
  BY EmptySeq DEF Init, ProgramInit, ProgramTypeOK
<1>2. /\ asked \in Seq(Prompt) /\ events \in Seq(Event)
      /\ enters \in Seq(Nat) /\ replies \in Seq(Reply)
  BY EmptySeq DEF Init
<1>3. QED
  BY <1>1, <1>2 DEF Init, TypeOK

\* Screens, keys, interactions, events and answers keep their types
\* (daemon.py, interactions.py).
THEOREM InteractionsTyped == Spec => []TypeOK
<1>1. QED
  BY TypesInit, TypesStep, PTL DEF Spec

-----------------------------------------------------------------------------
(* The events tell the active interaction.                                 *)

\* The next event of an alternation.
Next1(evs, e) ==
    /\ e.id = (Len(evs) + 2) \div 2
    /\ e.type = IF (Len(evs) + 1) % 2 = 1 THEN "requested" ELSE "resolved"

LEMMA AlternateGrows ==
    ASSUME NEW evs \in Seq(Event), Alternate(evs), NEW e \in Event,
           Next1(evs, e)
    PROVE  Alternate(Append(evs, e))
<1>1. PICK es : es = Append(evs, e)
  OBVIOUS
<1>2. /\ Len(evs) \in Nat /\ Len(es) = Len(evs) + 1
      /\ \A k \in 1 .. Len(evs) : es[k] = evs[k]
      /\ es[Len(evs) + 1] = e
  BY <1>1, AppendProperties, LenProperties
<1>3. SUFFICES ASSUME NEW k \in 1 .. Len(es)
               PROVE  /\ es[k].id = (k + 1) \div 2
                      /\ es[k].type = IF k % 2 = 1 THEN "requested" ELSE "resolved"
  BY <1>1 DEF Alternate
<1>4. CASE k \in 1 .. Len(evs)
  BY <1>2, <1>4 DEF Alternate
<1>5. CASE k = Len(evs) + 1
  <2>1. k + 1 = Len(evs) + 2
    BY <1>2, <1>5
  <2>2. QED
    BY <1>2, <1>5, <2>1 DEF Next1
<1>6. QED
  BY <1>2, <1>4, <1>5

\* Half the events, rounded up, are requests.
LEMMA Halves ==
    ASSUME NEW n \in Nat
    PROVE  /\ n % 2 = 1 => /\ (n + 1) % 2 = 0
                           /\ (n + 2) \div 2 = (n + 1) \div 2
                           /\ (n + 1) \div 2 > 0
           /\ n % 2 # 1 => /\ (n + 1) % 2 = 1
                           /\ (n + 2) \div 2 = (n + 1) \div 2 + 1
           /\ (n + 1) \div 2 \in Nat
  OBVIOUS

\* What is active is the last that was asked, and it is an interaction.
LEMMA ActiveIsLast ==
    ASSUME TypeOK, EventsTellActive
    PROVE  /\ active # None <=> Len(events) % 2 = 1
           /\ active # None => active = Len(asked)
           /\ Len(events) \in Nat /\ Len(asked) \in Nat
<1>1. Len(events) \in Nat /\ Len(asked) \in Nat
  BY LenProperties DEF TypeOK
<1>2. QED
  BY <1>1, Halves DEF EventsTellActive, None

LEMMA ResolveTells ==
    ASSUME TypeOK, EventsTellActive, NEW how \in Hows, Resolve(how),
           asked' = asked
    PROVE  EventsTellActive'
<1>1. CASE active = None
  <2>1. events' = events /\ active' = active
    BY <1>1, ConcatEmptySeq DEF Resolve, Resolved, TypeOK
  <2>2. QED
    BY <2>1 DEF EventsTellActive
<1>2. CASE active # None
  <2>1. PICK e : e = [type |-> "resolved", id |-> active, how |-> how]
    OBVIOUS
  <2>2. e \in Event
    BY <1>2, <2>1 DEF TypeOK, Ids, None, Event
  <2>3. events' = Append(events, e) /\ active' = None
    BY <1>2, <2>1, <2>2, AppendIsConcat DEF Resolve, Resolved, TypeOK
  <2>4. /\ Len(events) % 2 = 1 /\ active = Len(asked)
        /\ Len(events) \in Nat
        /\ Len(asked) = (Len(events) + 1) \div 2
    BY <1>2, ActiveIsLast DEF EventsTellActive
  <2>5. Next1(events, e)
    BY <2>1, <2>4, Halves DEF Next1
  <2>6. Alternate(events')
    BY <2>2, <2>3, <2>5, AlternateGrows DEF TypeOK, EventsTellActive
  <2>7. Len(events') = Len(events) + 1
    BY <2>2, <2>3, AppendProperties DEF TypeOK
  <2>8. /\ Len(events') % 2 # 1
        /\ Len(asked') = (Len(events') + 1) \div 2
    BY <2>4, <2>7, Halves
  <2>9. QED
    BY <2>3, <2>6, <2>8 DEF EventsTellActive
<1>3. QED
  BY <1>1, <1>2

\* A registration tells the end of what was active first.
LEMMA RegisterTells ==
    ASSUME TypeOK, EventsTellActive, NEW p \in Prompt, Register(p)
    PROVE  EventsTellActive'
<1>1. PICK es : es = events \o Resolved("superseded")
  OBVIOUS
<1>2. /\ es \in Seq(Event) /\ Alternate(es) /\ Len(es) \in Nat
      /\ Len(es) % 2 # 1
      /\ Len(asked) = (Len(es) + 1) \div 2
  <2>1. CASE active = None
    <3>1. es = events
      BY <1>1, <2>1, ConcatEmptySeq DEF Resolved, TypeOK
    <3>2. QED
      BY <2>1, <3>1, ActiveIsLast DEF EventsTellActive, TypeOK
  <2>2. CASE active # None
    <3>1. PICK e : e = [type |-> "resolved", id |-> active, how |-> "superseded"]
      OBVIOUS
    <3>2. e \in Event
      BY <2>2, <3>1 DEF TypeOK, Ids, None, Event, Hows
    <3>3. es = Append(events, e)
      BY <1>1, <2>2, <3>1, <3>2, AppendIsConcat DEF Resolved, TypeOK
    <3>4. /\ Len(events) % 2 = 1 /\ active = Len(asked)
          /\ Len(events) \in Nat
          /\ Len(asked) = (Len(events) + 1) \div 2
      BY <2>2, ActiveIsLast DEF EventsTellActive
    <3>5. Next1(events, e)
      BY <3>1, <3>4, Halves DEF Next1
    <3>6. Alternate(es)
      BY <3>2, <3>3, <3>5, AlternateGrows DEF TypeOK, EventsTellActive
    <3>7. Len(es) = Len(events) + 1 /\ es \in Seq(Event)
      BY <3>2, <3>3, AppendProperties DEF TypeOK
    <3>8. QED
      BY <3>4, <3>6, <3>7, Halves
  <2>3. QED
    BY <2>1, <2>2
<1>3. PICK e : e = [type |-> "requested", id |-> Len(asked) + 1]
  OBVIOUS
<1>4. Len(asked) \in Nat
  BY LenProperties DEF TypeOK
<1>5. e \in Event
  BY <1>3, <1>4 DEF Event
<1>6. /\ events' = Append(es, e) /\ active' = Len(asked) + 1
      /\ asked' = Append(asked, p)
  BY <1>1, <1>3 DEF Register
<1>7. Next1(es, e)
  BY <1>2, <1>3, Halves DEF Next1
<1>8. Alternate(events')
  BY <1>2, <1>5, <1>6, <1>7, AlternateGrows
<1>9. /\ Len(events') = Len(es) + 1
      /\ Len(asked') = Len(asked) + 1
  BY <1>2, <1>5, <1>6, AppendProperties DEF TypeOK
<1>10. /\ Len(events') % 2 = 1
       /\ Len(asked') = (Len(events') + 1) \div 2
  BY <1>2, <1>9, Halves
<1>11. QED
  BY <1>6, <1>8, <1>9, <1>10 DEF EventsTellActive

\* Of the events only these are new: a step tells nothing, the end of the
\* active interaction, or, after that, a new one.
LEMMA StepsThatTell ==
    ASSUME TypeOK, [Next]_vars
    PROVE  \/ UNCHANGED <<active, asked, events, replies>>
           \/ /\ \E how \in {"superseded", "sessionEnded"} : Resolve(how)
              /\ UNCHANGED <<asked, replies>>
           \/ /\ \E p \in Prompt : Register(p)
              /\ UNCHANGED replies
           \/ \E i \in Ids, r \in Response :
                 /\ active = i
                 /\ \E how \in {"answered", "cancelled"} : Resolve(how)
                 /\ replies' = Append(replies, [id |-> i, response |-> r])
                 /\ asked' = asked
<1>1. CASE ProgramNext /\ UNCHANGED <<daemonVars, typed>>
  BY <1>1 DEF daemonVars
<1>2. CASE ReadOutput \/ SubmitEnter \/ InputText
  BY <1>2 DEF ReadOutput, SubmitEnter, InputText
<1>3. CASE Detect
  <2>1. seen \in Prompt \cup {NoPrompt} /\ replies' = replies
    BY <1>3 DEF TypeOK, Detect
  <2>2. QED
    BY <1>3, <2>1 DEF Detect
<1>4. CASE NoticeExit
  BY <1>4 DEF NoticeExit
<1>5. ASSUME NEW key \in TypedKeys, Type(key)
      PROVE  UNCHANGED <<active, asked, events, replies>>
  BY <1>5 DEF Type, daemonVars
<1>6. ASSUME NEW i \in Ids, NEW r \in Response, Respond(i, r)
      PROVE  /\ active = i
             /\ \E how \in {"answered", "cancelled"} : Resolve(how)
             /\ replies' = Append(replies, [id |-> i, response |-> r])
             /\ asked' = asked
  BY <1>6 DEF Respond, Current
<1>7. CASE UNCHANGED vars
  BY <1>7 DEF vars, daemonVars
<1>8. QED
  BY <1>1, <1>2, <1>3, <1>4, <1>5, <1>6, <1>7 DEF Next

LEMMA TellsStep ==
    ASSUME TypeOK, EventsTellActive, [Next]_vars
    PROVE  EventsTellActive'
<1>1. CASE UNCHANGED <<active, asked, events, replies>>
  BY <1>1 DEF EventsTellActive
<1>2. CASE \E how \in Hows : Resolve(how) /\ asked' = asked
  BY <1>2, ResolveTells
<1>3. CASE \E p \in Prompt : Register(p)
  BY <1>3, RegisterTells
<1>4. QED
  BY <1>1, <1>2, <1>3, StepsThatTell DEF Hows

LEMMA TellsInit == Init => EventsTellActive
<1> SUFFICES ASSUME Init PROVE EventsTellActive
  OBVIOUS
<1>1. events = <<>> /\ asked = <<>> /\ active = None
  BY DEF Init
<1>2. Len(events) = 0 /\ Len(asked) = 0
  BY <1>1
<1>3. QED
  BY <1>1, <1>2 DEF EventsTellActive, Alternate

\* For all phones that hear the events in order: each interaction is announced
\* and withdrawn once, and the one announced and not withdrawn is active
\* (_register_interaction, _resolve_interaction).
THEOREM TellsActive == Spec => []EventsTellActive
<1>1. Init => TypeOK /\ EventsTellActive
  BY TypesInit, TellsInit
<1>2. TypeOK /\ EventsTellActive /\ [Next]_vars => (TypeOK /\ EventsTellActive)'
  BY TypesStep, TellsStep
<1>3. QED
  BY <1>1, <1>2, PTL DEF Spec

-----------------------------------------------------------------------------
(* Replies.                                                                *)

\* RepliesOnce for all numbers, asked or not.
RepliesInv ==
    /\ \A j, k \in 1 .. Len(replies) :
          replies[j].id = replies[k].id => j = k
    /\ \A i \in Nat : Replied(i) <=> ToldAsReplied(i)

\* Nobody was told the end of what is active.
LEMMA ActiveIsOpen ==
    ASSUME TypeOK, EventsTellActive, active # None
    PROVE  ~ToldAsReplied(active)
<1>1. /\ Len(events) \in Nat /\ Len(events) % 2 = 1
      /\ active = (Len(events) + 1) \div 2
  BY ActiveIsLast DEF EventsTellActive
<1>2. ASSUME NEW k \in 1 .. Len(events), events[k].type = "resolved"
      PROVE  events[k].id # active
  <2>1. k % 2 # 1 /\ events[k].id = (k + 1) \div 2
    BY <1>2 DEF EventsTellActive, Alternate
  <2>2. k + 1 <= Len(events)
    BY <1>1, <2>1
  <2>3. (k + 1) \div 2 < (Len(events) + 1) \div 2
    BY <1>1, <2>1, <2>2
  <2>4. QED
    BY <1>1, <2>1, <2>3
<1>3. QED
  BY <1>2 DEF ToldAsReplied

\* What one more event adds.
LEMMA OneMoreTold ==
    ASSUME events \in Seq(Event), NEW e \in Event, events' = Append(events, e),
           NEW i
    PROVE  ToldAsReplied(i)' <=>
              \/ ToldAsReplied(i)
              \/ /\ e.type = "resolved" /\ e.id = i
                 /\ e.how \in {"answered", "cancelled"}
<1>1. /\ Len(events) \in Nat /\ Len(events') = Len(events) + 1
      /\ \A k \in 1 .. Len(events) : events'[k] = events[k]
      /\ events'[Len(events) + 1] = e
  BY AppendProperties, LenProperties
<1>2. \A k : k \in 1 .. Len(events') <=>
               k \in 1 .. Len(events) \/ k = Len(events) + 1
  BY <1>1
<1>3. QED
  BY <1>1, <1>2 DEF ToldAsReplied

LEMMA ResolveTold ==
    ASSUME TypeOK, NEW how \in Hows, Resolve(how), NEW i
    PROVE  ToldAsReplied(i)' <=>
              \/ ToldAsReplied(i)
              \/ /\ active # None /\ i = active
                 /\ how \in {"answered", "cancelled"}
<1>1. CASE active = None
  <2>1. events' = events
    BY <1>1, ConcatEmptySeq DEF Resolve, Resolved, TypeOK
  <2>2. QED
    BY <1>1, <2>1 DEF ToldAsReplied
<1>2. CASE active # None
  <2>1. PICK e : e = [type |-> "resolved", id |-> active, how |-> how]
    OBVIOUS
  <2>2. e \in Event
    BY <1>2, <2>1 DEF TypeOK, Ids, None, Event
  <2>3. events' = Append(events, e)
    BY <1>2, <2>1, <2>2, AppendIsConcat DEF Resolve, Resolved, TypeOK
  <2>4. QED
    BY <1>2, <2>1, <2>2, <2>3, OneMoreTold DEF TypeOK
<1>3. QED
  BY <1>1, <1>2

LEMMA RegisterTold ==
    ASSUME TypeOK, NEW p \in Prompt, Register(p), NEW i
    PROVE  ToldAsReplied(i)' <=> ToldAsReplied(i)
<1>1. PICK es : es = events \o Resolved("superseded")
  OBVIOUS
<1>2. PICK e : e = [type |-> "requested", id |-> Len(asked) + 1]
  OBVIOUS
<1>3. es \in Seq(Event) /\ e \in Event /\ events' = Append(es, e)
  <2>1. Len(asked) \in Nat
    BY LenProperties DEF TypeOK
  <2>2. es \in Seq(Event)
    BY <1>1, ResolvedTyped, ConcatProperties DEF TypeOK, Hows
  <2>3. QED
    BY <1>1, <1>2, <2>1, <2>2 DEF Register, Event
<1>4. /\ Len(es) \in Nat /\ Len(events') = Len(es) + 1
      /\ \A k \in 1 .. Len(es) : events'[k] = es[k]
      /\ events'[Len(es) + 1] = e
  BY <1>3, AppendProperties, LenProperties
<1>5. /\ Len(events) \in Nat /\ Len(events) <= Len(es)
      /\ \A k \in 1 .. Len(events) : es[k] = events[k]
      /\ \A k \in 1 .. Len(es) : k \notin 1 .. Len(events)
                                 => es[k].how = "superseded"
  <2>1. CASE active = None
    <3>1. es = events
      BY <1>1, <2>1, ConcatEmptySeq DEF Resolved, TypeOK
    <3>2. QED
      BY <3>1, LenProperties DEF TypeOK
  <2>2. CASE active # None
    <3>1. PICK f : f = [type |-> "resolved", id |-> active, how |-> "superseded"]
      OBVIOUS
    <3>2. f \in Event /\ es = Append(events, f)
      <4>1. f \in Event
        BY <2>2, <3>1 DEF TypeOK, Ids, None, Event, Hows
      <4>2. QED
        BY <1>1, <2>2, <3>1, <4>1, AppendIsConcat DEF Resolved, TypeOK
    <3>3. /\ Len(events) \in Nat /\ Len(es) = Len(events) + 1
          /\ \A k \in 1 .. Len(events) : es[k] = events[k]
          /\ es[Len(events) + 1] = f
      BY <3>2, AppendProperties, LenProperties DEF TypeOK
    <3>4. QED
      BY <3>1, <3>3
  <2>3. QED
    BY <2>1, <2>2
<1>6. ASSUME NEW k \in 1 .. Len(events'), events'[k].type = "resolved",
             events'[k].how \in {"answered", "cancelled"}
      PROVE  k \in 1 .. Len(events) /\ events'[k] = events[k]
  <2>1. k # Len(es) + 1
    BY <1>2, <1>4, <1>6
  <2>2. k \in 1 .. Len(es) /\ events'[k] = es[k]
    BY <1>4, <2>1
  <2>3. k \in 1 .. Len(events)
    BY <1>5, <1>6, <2>2
  <2>4. QED
    BY <1>5, <2>2, <2>3
<1>7. \A k \in 1 .. Len(events) : k \in 1 .. Len(events') /\ events'[k] = events[k]
  BY <1>4, <1>5
<1>8. QED
  BY <1>6, <1>7 DEF ToldAsReplied

LEMMA RepliesStep ==
    ASSUME TypeOK, EventsTellActive, RepliesInv, [Next]_vars
    PROVE  RepliesInv'
<1>1. CASE UNCHANGED <<active, asked, events, replies>>
  BY <1>1 DEF RepliesInv, Replied, ToldAsReplied
<1>2. ASSUME NEW how \in {"superseded", "sessionEnded"}, Resolve(how),
             UNCHANGED <<asked, replies>>
      PROVE  RepliesInv'
  <2>1. \A i : ToldAsReplied(i)' <=> ToldAsReplied(i)
    BY <1>2, ResolveTold DEF Hows
  <2>2. QED
    BY <1>2, <2>1 DEF RepliesInv, Replied
<1>3. ASSUME NEW p \in Prompt, Register(p), UNCHANGED replies
      PROVE  RepliesInv'
  <2>1. \A i : ToldAsReplied(i)' <=> ToldAsReplied(i)
    BY <1>3, RegisterTold
  <2>2. QED
    BY <1>3, <2>1 DEF RepliesInv, Replied
<1>4. ASSUME NEW a \in Ids, NEW r \in Response, active = a,
             NEW how \in {"answered", "cancelled"}, Resolve(how),
             replies' = Append(replies, [id |-> a, response |-> r])
      PROVE  RepliesInv'
  <2>1. a \in Nat /\ active # None
    BY <1>4, LenProperties DEF TypeOK, Ids, None
  <2>2. \A i : ToldAsReplied(i)' <=> ToldAsReplied(i) \/ i = a
    BY <1>4, <2>1, ResolveTold DEF Hows
  <2>3. ~Replied(a)
    BY <1>4, <2>1, ActiveIsOpen DEF RepliesInv
  <2>4. [id |-> a, response |-> r] \in Reply
    BY <2>1, <1>4 DEF Reply, None
  <2>5. /\ Len(replies) \in Nat /\ Len(replies') = Len(replies) + 1
        /\ \A k \in 1 .. Len(replies) : replies'[k].id = replies[k].id
        /\ replies'[Len(replies) + 1].id = a
    BY <1>4, <2>4, AppendProperties, LenProperties DEF TypeOK
  <2>6. \A k : k \in 1 .. Len(replies') <=>
                  k \in 1 .. Len(replies) \/ k = Len(replies) + 1
    BY <2>5
  <2>7. \A i : Replied(i)' <=> Replied(i) \/ i = a
    BY <2>5, <2>6 DEF Replied
  <2>8. ASSUME NEW j \in 1 .. Len(replies'), NEW k \in 1 .. Len(replies'),
               replies'[j].id = replies'[k].id
        PROVE  j = k
    <3>1. \A n \in 1 .. Len(replies) : replies[n].id # a
      BY <2>3 DEF Replied
    <3>2. CASE j \in 1 .. Len(replies) /\ k \in 1 .. Len(replies)
      BY <2>5, <2>8, <3>2 DEF RepliesInv
    <3>3. CASE j = Len(replies) + 1 \/ k = Len(replies) + 1
      BY <2>5, <2>6, <2>8, <3>1, <3>3
    <3>4. QED
      BY <2>6, <3>2, <3>3
  <2>9. QED
    BY <2>2, <2>7, <2>8 DEF RepliesInv
<1>5. QED
  BY <1>1, <1>2, <1>3, <1>4, StepsThatTell

LEMMA RepliesInit == Init => RepliesInv
<1> SUFFICES ASSUME Init PROVE RepliesInv
  OBVIOUS
<1>1. replies = <<>> /\ events = <<>>
  BY DEF Init
<1>2. Len(replies) = 0 /\ Len(events) = 0
  BY <1>1
<1>3. QED
  BY <1>2 DEF RepliesInv, Replied, ToldAsReplied

\* An interaction is answered at most once, however many phones answer it and
\* however often, and the phones are told so exactly then
\* (_handle_interaction_respond).
THEOREM AnsweredOnce == Spec => []RepliesOnce
<1>1. Init => TypeOK /\ EventsTellActive /\ RepliesInv
  BY TypesInit, TellsInit, RepliesInit
<1>2. TypeOK /\ EventsTellActive /\ RepliesInv /\ [Next]_vars
         => (TypeOK /\ EventsTellActive /\ RepliesInv)'
  BY TypesStep, TellsStep, RepliesStep
<1>3. TypeOK /\ RepliesInv => RepliesOnce
  <2>1. TypeOK => Ids \subseteq Nat
    BY LenProperties DEF TypeOK, Ids
  <2>2. QED
    BY <2>1 DEF RepliesInv, RepliesOnce
<1>4. QED
  BY <1>1, <1>2, <1>3, PTL DEF Spec

-----------------------------------------------------------------------------
(* What has settled agrees with the screen.                                *)

LEMMA ConcatNotEmpty ==
    ASSUME NEW S, NEW s \in Seq(S), NEW t \in Seq(S), s # <<>> \/ t # <<>>
    PROVE  s \o t # <<>>
  BY ConcatProperties, EmptySeq, LenProperties

LEMMA OptionBytesEnds ==
    ASSUME TypeOK, NEW i \in Ids, NEW o \in OptionIds
    PROVE  OptionBytes(i, o) # <<>>
<1>1. PICK way : OptionBytes(i, o) = Append(way, [key |-> "enter", from |-> i])
  BY DEF OptionBytes
<1>2. QED
  BY <1>1

\* Output that was read shows the screen; a detection that has run has made
\* the interaction of it; and one that was answered since leaves keys on the
\* way to the prompt, or leaves it open.
Fresh == running /\ alive /\ ~dirty => seen = Detectable

Detected ==
    running /\ alive /\ ~dirty /\ ~timer =>
       /\ active # None => /\ seen # NoPrompt
                           /\ Signature(asked[active]) = Signature(seen)
       /\ active = None /\ seen # NoPrompt =>
             LeftOpen \/ input # <<>> \/ enters # <<>>

Ended == ~running => active = None

AgreeInv == Fresh /\ Detected /\ Ended

LEMMA SeenIsScreen ==
    ASSUME seen = Detectable, seen # NoPrompt
    PROVE  seen = screen
  BY DEF Detectable

\* The program: it changes the screen with output, or exits.
LEMMA ProgramAgrees ==
    ASSUME TypeOK, AgreeInv, ProgramNext, UNCHANGED <<daemonVars, typed>>
    PROVE  AgreeInv'
<1>1. /\ seen' = seen /\ timer' = timer /\ running' = running
      /\ active' = active /\ asked' = asked /\ enters' = enters
      /\ replies' = replies
  BY DEF daemonVars
<1>2. CASE dirty' = TRUE \/ ~alive'
  BY <1>1, <1>2 DEF AgreeInv, Fresh, Detected, Ended
<1>3. CASE DropKey
  <2>1. /\ screen' = screen /\ keys' = keys /\ dirty' = dirty
        /\ alive' = alive /\ screen = NoPrompt
    BY <1>3 DEF DropKey
  <2>2. Detectable' = Detectable /\ Detectable = NoPrompt
    BY <2>1 DEF Detectable
  <2>3. Fresh'
    BY <1>1, <2>1, <2>2 DEF AgreeInv, Fresh
  <2>4. Detected'
    BY <1>1, <2>1, <2>2 DEF AgreeInv, Fresh, Detected
  <2>5. QED
    BY <1>1, <2>3, <2>4 DEF AgreeInv, Ended
<1>4. QED
  <2>1. CASE \E sig \in Signatures, c \in OptionIds : ShowPrompt(sig, c)
    BY <2>1, <1>2 DEF ShowPrompt
  <2>2. CASE Withdraw \/ Redraw \/ ReadKey \/ Quit
    BY <2>2, <1>2 DEF Withdraw, Redraw, ReadKey, Quit
  <2>3. QED
    BY <2>1, <2>2, <1>3 DEF ProgramNext

\* The screen and what is known of it are the same.
LEMMA SameScreen ==
    ASSUME UNCHANGED <<screen, keys, dirty, alive, seen, timer, running>>
    PROVE  /\ Detectable' = Detectable
           /\ Fresh => Fresh'
  BY DEF Detectable, Fresh

LEMMA RespondAgrees ==
    ASSUME TypeOK, AgreeInv, NEW i \in Ids, NEW r \in Response, Respond(i, r)
    PROVE  AgreeInv'
<1>1. /\ UNCHANGED <<screen, keys, dirty, alive, seen, timer, running>>
      /\ asked' = asked /\ active = i
      /\ replies' = Append(replies, [id |-> i, response |-> r])
  BY DEF Respond, Current
<1>2. active' = None /\ active # None
  BY <1>1, LenProperties DEF Respond, Resolve, Ids, None, TypeOK
<1>3. ASSUME running, alive, ~dirty, ~timer, seen # NoPrompt
      PROVE  LeftOpen' \/ input' # <<>> \/ enters' # <<>>
  <2>1. Signature(asked[i]) = Signature(screen)
    BY <1>1, <1>2, <1>3, SeenIsScreen DEF AgreeInv, Fresh, Detected
  <2>2. CASE r.type = "cancel" \/ r = [type |-> "options", option |-> Unbound]
    <3>1. [id |-> i, response |-> r] \in Reply
      BY <1>1, <1>2, LenProperties DEF Reply, TypeOK, Ids, None
    <3>2. /\ replies' # <<>> /\ Len(replies') = Len(replies) + 1
          /\ replies'[Len(replies) + 1] = [id |-> i, response |-> r]
      BY <1>1, <3>1, AppendProperties DEF TypeOK
    <3>3. replies'[Len(replies')].id = i /\ replies'[Len(replies')].response = r
      BY <3>2
    <3>4. LeftOpen'
      BY <1>1, <2>1, <2>2, <3>2, <3>3 DEF LeftOpen, Signature
    <3>5. QED
      BY <3>4
  <2>3. CASE r.type = "text"
    <3>1. enters' = Append(enters, i)
      BY <2>3 DEF Respond, DeliverText
    <3>2. QED
      BY <3>1, LenProperties, AppendProperties DEF TypeOK, Ids
  <2>4. CASE r.type = "options" /\ r # [type |-> "options", option |-> Unbound]
    <3>1. r.option \in OptionIds
      BY <2>4 DEF Response
    <3>2. r.option # Unbound
      BY <2>4, <3>1 DEF OptionIds, Unbound
    <3>3. Write(OptionBytes(i, r.option))
      BY <2>4, <3>2 DEF Respond
    <3>4. input' = input \o OptionBytes(i, r.option)
      BY <1>3, <3>3 DEF Write
    <3>5. OptionBytes(i, r.option) \in Seq(Key)
      BY <3>1, OptionBytesTyped
    <3>6. OptionBytes(i, r.option) # <<>>
      BY <3>1, OptionBytesEnds
    <3>7. input' # <<>>
      BY <3>4, <3>5, <3>6, ConcatNotEmpty DEF TypeOK, ProgramTypeOK
    <3>8. QED
      BY <3>7
  <2>5. QED
    BY <2>2, <2>3, <2>4 DEF Respond
<1>4. Detected'
  BY <1>1, <1>2, <1>3 DEF Detected
<1>5. Fresh'
  BY <1>1, SameScreen DEF AgreeInv
<1>6. QED
  BY <1>2, <1>4, <1>5 DEF AgreeInv, Ended

LEMMA DetectAgrees ==
    ASSUME TypeOK, AgreeInv, Detect
    PROVE  AgreeInv'
<1>1. /\ UNCHANGED <<programVars, seen, running, enters, replies>>
      /\ running
  BY DEF Detect
<1>2. Fresh'
  BY <1>1 DEF programVars, AgreeInv, Fresh, Detectable
<1>3. Detected'
  <2>1. CASE seen = NoPrompt /\ Resolve("superseded")
    BY <1>1, <2>1 DEF Detected, Resolve
  <2>2. CASE seen # NoPrompt /\ SamePrompt(seen) /\ UNCHANGED <<active, asked>>
    BY <1>1, <2>2 DEF Detected, SamePrompt, Signature
  <2>3. CASE seen # NoPrompt /\ Register(seen)
    <3>1. /\ Len(asked) \in Nat /\ asked'[Len(asked) + 1] = seen
          /\ active' = Len(asked) + 1
      BY <2>3, AppendProperties, LenProperties DEF Register, TypeOK
    <3>2. active' # None
      BY <3>1 DEF None
    <3>3. QED
      BY <1>1, <2>3, <3>1, <3>2 DEF Detected, Signature
  <2>4. QED
    BY <2>1, <2>2, <2>3 DEF Detect
<1>4. QED
  BY <1>1, <1>2, <1>3 DEF AgreeInv, Ended

LEMMA InputAgrees ==
    ASSUME TypeOK, AgreeInv,
           UNCHANGED <<screen, keys, dirty, alive, seen, timer, running,
                       active, asked, replies>>,
           \/ enters' = enters /\ (input # <<>> => input' # <<>>)
           \/ enters' # <<>>
           \/ alive => input' # <<>>
    PROVE  AgreeInv'
<1>1. Fresh'
  BY SameScreen DEF AgreeInv
<1>2. Detected'
  BY DEF AgreeInv, Detected, LeftOpen, Signature
<1>3. QED
  BY <1>1, <1>2 DEF AgreeInv, Ended

LEMMA WriteGrows ==
    ASSUME input \in Seq(Key), NEW ks \in Seq(Key), Write(ks)
    PROVE  input # <<>> => input' # <<>>
<1>1. CASE alive
  <2>1. input' = input \o ks
    BY <1>1 DEF Write
  <2>2. QED
    BY <2>1, ConcatNotEmpty
<1>2. QED
  BY <1>1 DEF Write

LEMMA AgreeStep ==
    ASSUME TypeOK, AgreeInv, [Next]_vars
    PROVE  AgreeInv'
<1>1. CASE ProgramNext /\ UNCHANGED <<daemonVars, typed>>
  BY <1>1, ProgramAgrees
<1>2. CASE ReadOutput
  <2>1. timer' = TRUE /\ running' = running /\ active' = active
    BY <1>2 DEF ReadOutput
  <2>2. seen' = Detectable /\ Detectable' = Detectable
    BY <1>2 DEF ReadOutput, Detectable
  <2>3. QED
    BY <2>1, <2>2 DEF AgreeInv, Fresh, Detected, Ended
<1>3. CASE Detect
  BY <1>3, DetectAgrees
<1>4. CASE SubmitEnter
  <2>1. UNCHANGED <<screen, keys, dirty, alive, seen, timer, running,
                    active, asked, replies>>
    BY <1>4 DEF SubmitEnter
  <2>2. CASE running /\ alive
    <3>1. input' = input \o <<[key |-> "enter", from |-> Head(enters)]>>
      BY <1>4, <2>2 DEF SubmitEnter, Write
    <3>2. Head(enters) \in Nat
      BY <1>4, HeadTailProperties DEF SubmitEnter, TypeOK
    <3>3. /\ <<[key |-> "enter", from |-> Head(enters)]>> \in Seq(Key)
          /\ <<[key |-> "enter", from |-> Head(enters)]>> # <<>>
      BY <3>2, KeyTyped
    <3>4. input' # <<>>
      BY <3>1, <3>3, ConcatNotEmpty DEF TypeOK, ProgramTypeOK
    <3>5. QED
      BY <2>1, <3>4, InputAgrees
  <2>3. CASE ~running \/ ~alive
    BY <2>1, <2>3 DEF AgreeInv, Fresh, Detected, Ended
  <2>4. QED
    BY <2>2, <2>3
<1>5. CASE NoticeExit
  <2>1. running' = FALSE /\ active' = None
    BY <1>5 DEF NoticeExit, Resolve
  <2>2. QED
    BY <2>1 DEF AgreeInv, Fresh, Detected, Ended
<1>6. CASE InputText
  <2>1. UNCHANGED <<screen, keys, dirty, alive, seen, timer, running,
                    active, asked, replies>>
    BY <1>6 DEF InputText
  <2>2. enters' # <<>>
    BY <1>6, AppendProperties DEF InputText, DeliverText, Terminal, TypeOK
  <2>3. QED
    BY <2>1, <2>2, InputAgrees
<1>7. ASSUME NEW key \in TypedKeys, Type(key) PROVE AgreeInv'
  <2>1. UNCHANGED <<screen, keys, dirty, alive, seen, timer, running,
                    active, asked, replies, enters>>
    BY <1>7 DEF Type, daemonVars
  <2>2. <<[key |-> key, from |-> Terminal]>> \in Seq(Key)
    BY KeyTyped, InteractionsAssumption DEF Terminal
  <2>3. input # <<>> => input' # <<>>
    BY <1>7, <2>2, WriteGrows DEF Type, TypeOK, ProgramTypeOK
  <2>4. QED
    BY <2>1, <2>3, InputAgrees
<1>8. ASSUME NEW i \in Ids, NEW r \in Response, Respond(i, r) PROVE AgreeInv'
  BY <1>8, RespondAgrees
<1>9. CASE UNCHANGED vars
  BY <1>9, InputAgrees DEF vars, programVars, daemonVars
<1>10. QED
  BY <1>1, <1>2, <1>3, <1>4, <1>5, <1>6, <1>7, <1>8, <1>9 DEF Next

LEMMA AgreeInit == Init => AgreeInv
  BY DEF Init, ProgramInit, AgreeInv, Fresh, Detected, Ended, Detectable, None

LEMMA AgreeSettled == AgreeInv => SettledAgree
<1> SUFFICES ASSUME AgreeInv PROVE SettledAgree
  OBVIOUS
<1>1. ASSUME Settled
      PROVE  /\ active # None => /\ Detectable # NoPrompt
                                 /\ Signature(asked[active]) = Signature(screen)
             /\ active = None /\ Detectable # NoPrompt => LeftOpen
  <2>1. /\ running /\ alive /\ ~dirty /\ ~timer
        /\ input = <<>> /\ enters = <<>>
    BY <1>1 DEF Settled
  <2>2. seen = Detectable
    BY <2>1 DEF AgreeInv, Fresh
  <2>3. QED
    BY <2>1, <2>2, SeenIsScreen DEF AgreeInv, Detected
<1>2. QED
  BY <1>1 DEF SettledAgree, AgreeInv, Ended

\* Whatever was typed, answered, redrawn and withdrawn, once nothing is left to
\* happen the interaction is the one of the prompt on the screen, and a prompt
\* without one was left open by a reply (_detect_interaction, _on_exit).
THEOREM SettledAgrees == Spec => []SettledAgree
<1>1. Init => TypeOK /\ AgreeInv
  BY TypesInit, AgreeInit
<1>2. TypeOK /\ AgreeInv /\ [Next]_vars => (TypeOK /\ AgreeInv)'
  BY TypesStep, AgreeStep
<1>3. QED
  BY <1>1, <1>2, AgreeSettled, PTL DEF Spec

-----------------------------------------------------------------------------
(* An answer closes its prompt as answered.                                *)

\* i was answered with r.
Answered(i, r) ==
    \E k \in 1 .. Len(replies) : replies[k].id = i /\ replies[k].response = r

\* An answer that writes something: a text, or an option bound to bytes.
Writes(r) ==
    \/ r.type = "text"
    \/ r.type = "options" /\ r.option # Unbound

\* Who may have sent a key: the terminal, or an interaction that was answered
\* with something to write.
Sender(f) == f = Terminal \/ \E r \in Response : Answered(f, r) /\ Writes(r)

Senders ==
    /\ \A p \in 1 .. Len(input) : Sender(input[p].from)
    /\ \A k \in 1 .. Len(keys) : Sender(keys[k].from)
    /\ \A e \in 1 .. Len(enters) :
          /\ Sender(enters[e])
          /\ enters[e] \in Ids => ~IsMenu(asked[enters[e]])
    /\ \A k \in 1 .. Len(taken) :
          \A j \in 1 .. Len(taken[k].keys) : Sender(taken[k].keys[j].from)
    /\ \A k \in 1 .. Len(replies) :
          /\ replies[k].id \in Ids
          /\ replies[k].response \in Offered(replies[k].id)

\* Prompts are numbered in the order they are shown.
Numbered ==
    /\ screen = NoPrompt => keys = <<>>
    /\ screen # NoPrompt => alive /\ screen.n = prompts
    /\ seen.n <= prompts
    /\ \A i \in Ids : asked[i].n <= prompts

\* What was read of the prompt on the screen, and the interactions made from
\* it, say what it says, and until it has read a key, with its cursor.
Origins ==
    /\ screen # NoPrompt /\ seen.n = screen.n =>
          /\ seen.sig = screen.sig
          /\ keys = <<>> => seen.cursor = screen.cursor
    /\ \A i \in Ids : asked[i].n = screen.n =>
          /\ asked[i].sig = screen.sig
          /\ keys = <<>> => asked[i].cursor = screen.cursor

\* The prompt on the screen is the one of i, and has read nothing but the
\* answer to i.
Undisturbed(i) ==
    /\ asked[i].n = screen.n
    /\ \A k \in 1 .. Len(keys) : keys[k].from = i

\* d presses of an arrow lead from option c to option o.
Toward(c, arrow, d, o) == IF arrow = "down" THEN c + d = o ELSE o + d = c

\* d presses of an arrow, and Enter, are in the pty in one piece.
Pressed(i, arrow, d) ==
    \E e \in 1 .. Len(input) :
       /\ d < e
       /\ input[e].key = "enter"
       /\ \A p \in 1 .. Len(input) :
             /\ input[p].from = i <=> e - d <= p /\ p <= e
             /\ input[p].from = i /\ p # e => input[p].key = arrow

\* They are the rest of the way to option o.
MenuWay(i, o) ==
    \E arrow \in {"up", "down"}, d \in Nat :
       Toward(screen.cursor, arrow, d, o) /\ Pressed(i, arrow, d)

\* The text of i comes first, and once, and then nothing but Enter.
LineWay(i) ==
    \/ /\ keys = <<>>
       /\ \E p \in 1 .. Len(input) :
             /\ input[p].from = i /\ input[p].key = "text"
             /\ \A q \in 1 .. Len(input) :
                   input[q].from = i /\ q # p => q > p /\ input[q].key = "enter"
    \/ /\ Len(keys) = 1
       /\ \A q \in 1 .. Len(input) :
             input[q].from = i => input[q].key = "enter"

OnTheWay ==
    \A i \in Ids : \A r \in Response :
       Undisturbed(i) /\ Answered(i, r) /\ Writes(r) =>
          IF IsMenu(screen) THEN MenuWay(i, r.option) ELSE LineWay(i)

\* The property, with the answer for a witness.
Delivered ==
    \A k \in 1 .. Len(taken) : \A i \in Ids :
       Sources(taken[k]) = {i} /\ asked[i].n = taken[k].prompt.n =>
          \E r \in Response :
             /\ Answered(i, r)
             /\ IF IsMenu(taken[k].prompt)
                THEN r.option = taken[k].prompt.cursor
                ELSE Len(taken[k].keys) = 2

WayInv == Senders /\ Numbered /\ Origins /\ OnTheWay /\ Delivered

LEMMA ConcatAt ==
    ASSUME NEW S, NEW s \in Seq(S), NEW t \in Seq(S)
    PROVE  /\ s \o t \in Seq(S)
           /\ Len(s) \in Nat /\ Len(t) \in Nat
           /\ Len(s \o t) = Len(s) + Len(t)
           /\ \A k \in 1 .. Len(s) : (s \o t)[k] = s[k]
           /\ \A k \in 1 .. Len(t) : (s \o t)[Len(s) + k] = t[k]
  BY ConcatProperties, LenProperties

LEMMA AppendAt ==
    ASSUME NEW S, NEW s \in Seq(S), NEW e \in S
    PROVE  /\ Append(s, e) \in Seq(S)
           /\ Len(s) \in Nat /\ Len(Append(s, e)) = Len(s) + 1
           /\ \A k \in 1 .. Len(s) : Append(s, e)[k] = s[k]
           /\ Append(s, e)[Len(s) + 1] = e
  BY AppendProperties, LenProperties

LEMMA TailAt ==
    ASSUME NEW S, NEW s \in Seq(S), s # <<>>
    PROVE  /\ Tail(s) \in Seq(S) /\ Head(s) = s[1] /\ Head(s) \in S
           /\ Len(s) \in Nat /\ Len(s) >= 1 /\ Len(Tail(s)) = Len(s) - 1
           /\ \A k \in 1 .. Len(s) - 1 : Tail(s)[k] = s[k + 1]
<1>1. /\ Tail(s) \in Seq(S) /\ Head(s) \in S /\ Len(Tail(s)) = Len(s) - 1
      /\ Len(s) \in Nat /\ Len(s) # 0
  BY HeadTailProperties, LenProperties, EmptySeq
<1>2. Head(s) = s[1] /\ \A k \in 1 .. Len(s) - 1 : Tail(s)[k] = s[k + 1]
  BY <1>1
<1>3. QED
  BY <1>1, <1>2

\* Elements of s \o t are elements of s or of t.
LEMMA ConcatFrom ==
    ASSUME NEW S, NEW s \in Seq(S), NEW t \in Seq(S),
           NEW p \in 1 .. Len(s \o t)
    PROVE  \/ p \in 1 .. Len(s) /\ (s \o t)[p] = s[p]
           \/ \E k \in 1 .. Len(t) : p = Len(s) + k /\ (s \o t)[p] = t[k]
<1>1. /\ Len(s) \in Nat /\ Len(t) \in Nat
      /\ p \in 1 .. Len(s) + Len(t)
  BY ConcatAt
<1>2. CASE p <= Len(s)
  BY <1>1, <1>2, ConcatAt
<1>3. CASE p > Len(s)
  <2>1. PICK k \in 1 .. Len(t) : p = Len(s) + k
    <3>1. \A a, b \in Nat : \A c \in 1 .. a + b :
             c > a => c - a \in 1 .. b /\ c = a + (c - a)
      OBVIOUS
    <3>2. p - Len(s) \in 1 .. Len(t) /\ p = Len(s) + (p - Len(s))
      BY <1>1, <1>3, <3>1
    <3>3. QED
      BY <3>2
  <2>2. QED
    BY <2>1, ConcatAt
<1>4. QED
  BY <1>1, <1>2, <1>3

LEMMA WayTypes ==
    ASSUME TypeOK
    PROVE  /\ input \in Seq(Key) /\ keys \in Seq(Key)
           /\ taken \in Seq(Taken) /\ asked \in Seq(Prompt)
           /\ enters \in Seq(Nat) /\ replies \in Seq(Reply)
           /\ prompts \in Nat
           /\ screen \in Prompt \cup {NoPrompt}
           /\ seen \in Prompt \cup {NoPrompt}
  BY DEF TypeOK, ProgramTypeOK

LEMMA AskedTyped ==
    ASSUME TypeOK, NEW i \in Ids
    PROVE  /\ i \in Nat \ {0} /\ asked[i] \in Prompt
           /\ asked[i].n \in Nat \ {0} /\ asked[i].cursor \in 1 .. NOptions
           /\ asked[i].sig \in Signatures
<1>1. i \in Nat \ {0} /\ asked[i] \in Prompt
  BY WayTypes, LenProperties, ElementOfSeq DEF Ids
<1>2. QED
  BY <1>1 DEF Prompt, OptionIds

LEMMA ScreenTyped ==
    ASSUME TypeOK, screen # NoPrompt
    PROVE  /\ screen \in Prompt /\ screen.n \in Nat \ {0}
           /\ screen.cursor \in 1 .. NOptions /\ screen.sig \in Signatures
           /\ NOptions \in Nat \ {0}
<1>1. screen \in Prompt
  BY WayTypes
<1>2. QED
  BY <1>1, ProgramAssumption DEF Prompt, OptionIds

\* A prompt that an interaction was made from is a prompt.
LEMMA UndisturbedShown ==
    ASSUME TypeOK, NEW i \in Ids, asked[i].n = screen.n
    PROVE  screen # NoPrompt
  BY AskedTyped DEF NoPrompt

\* Who has sent a key may send it for ever.
LEMMA SendersGrow ==
    ASSUME TypeOK, TypeOK',
           \A f : \A r \in Response : Answered(f, r) => Answered(f, r)'
    PROVE  \A f : Sender(f) => Sender(f)'
  BY DEF Sender

\* Keys of others, written behind it, leave the way to an option as it was.
LEMMA MenuWayKept ==
    ASSUME TypeOK, NEW i \in Ids, NEW o, screen' = screen,
           NEW ks \in Seq(Key), input' = input \o ks,
           \A k \in 1 .. Len(ks) : ks[k].from # i,
           MenuWay(i, o)
    PROVE  MenuWay(i, o)'
<1> PICK arrow \in {"up", "down"}, d \in Nat :
           Toward(screen.cursor, arrow, d, o) /\ Pressed(i, arrow, d)
  BY DEF MenuWay
<1>1. PICK e \in 1 .. Len(input) :
            /\ d < e
            /\ input[e].key = "enter"
            /\ \A p \in 1 .. Len(input) :
                  /\ input[p].from = i <=> e - d <= p /\ p <= e
                  /\ input[p].from = i /\ p # e => input[p].key = arrow
  BY DEF Pressed
<1>2. /\ Len(input) \in Nat /\ Len(ks) \in Nat
      /\ Len(input') = Len(input) + Len(ks)
      /\ \A p \in 1 .. Len(input) : input'[p] = input[p]
      /\ \A k \in 1 .. Len(ks) : input'[Len(input) + k] = ks[k]
  BY WayTypes, ConcatAt
<1>3. e \in 1 .. Len(input') /\ input'[e] = input[e]
  BY <1>2
<1>4. ASSUME NEW p \in 1 .. Len(input')
      PROVE  /\ input'[p].from = i <=> e - d <= p /\ p <= e
             /\ input'[p].from = i /\ p # e => input'[p].key = arrow
  <2>1. CASE p \in 1 .. Len(input)
    BY <1>1, <1>2, <2>1
  <2>2. CASE \E k \in 1 .. Len(ks) : p = Len(input) + k
    <3>1. PICK k \in 1 .. Len(ks) : p = Len(input) + k
      BY <2>2
    <3>2. input'[p].from # i
      BY <1>2, <3>1
    <3>3. p > e
      BY <1>2, <3>1
    <3>4. QED
      BY <3>2, <3>3, <1>2
  <2>3. p \in 1 .. Len(input) \/ \E k \in 1 .. Len(ks) : p = Len(input) + k
    <3>1. input \in Seq(Key) /\ p \in 1 .. Len(input \o ks)
      BY WayTypes
    <3>2. QED
      BY <3>1, ConcatFrom
  <2>4. QED
    BY <2>1, <2>2, <2>3
<1>5. Pressed(i, arrow, d)'
  BY <1>1, <1>3, <1>4 DEF Pressed
<1>6. QED
  BY <1>5 DEF MenuWay

\* So does a written Enter, its own or another's, with the line of a text.
LEMMA LineWayKept ==
    ASSUME TypeOK, NEW i \in Ids, keys' = keys,
           NEW ks \in Seq(Key), input' = input \o ks,
           \A k \in 1 .. Len(ks) : ks[k].from = i => ks[k].key = "enter",
           LineWay(i)
    PROVE  LineWay(i)'
<1>1. /\ Len(input) \in Nat /\ Len(ks) \in Nat
      /\ Len(input') = Len(input) + Len(ks)
      /\ \A p \in 1 .. Len(input) : input'[p] = input[p]
      /\ \A k \in 1 .. Len(ks) : input'[Len(input) + k] = ks[k]
  BY WayTypes, ConcatAt
<1>2. ASSUME NEW q \in 1 .. Len(input')
      PROVE  \/ q \in 1 .. Len(input) /\ input'[q] = input[q]
             \/ /\ q > Len(input)
                /\ input'[q].from = i => input'[q].key = "enter"
  <2>1. CASE q \in 1 .. Len(input)
    BY <1>1, <2>1
  <2>2. CASE \E k \in 1 .. Len(ks) : q = Len(input) + k
    BY <1>1, <2>2
  <2>3. q \in 1 .. Len(input) \/ \E k \in 1 .. Len(ks) : q = Len(input) + k
    <3>1. input \in Seq(Key) /\ q \in 1 .. Len(input \o ks)
      BY WayTypes
    <3>2. QED
      BY <3>1, ConcatFrom
  <2>4. QED
    BY <2>1, <2>2, <2>3
<1>3. CASE keys = <<>>
           /\ \E p \in 1 .. Len(input) :
                 /\ input[p].from = i /\ input[p].key = "text"
                 /\ \A q \in 1 .. Len(input) :
                       input[q].from = i /\ q # p =>
                          q > p /\ input[q].key = "enter"
  <2>1. PICK p \in 1 .. Len(input) :
              /\ input[p].from = i /\ input[p].key = "text"
              /\ \A q \in 1 .. Len(input) :
                    input[q].from = i /\ q # p =>
                       q > p /\ input[q].key = "enter"
    BY <1>3
  <2>2. p \in 1 .. Len(input') /\ input'[p] = input[p]
    BY <1>1
  <2>3. ASSUME NEW q \in 1 .. Len(input'), input'[q].from = i, q # p
        PROVE  q > p /\ input'[q].key = "enter"
    <3>1. CASE q \in 1 .. Len(input) /\ input'[q] = input[q]
      BY <2>1, <2>3, <3>1
    <3>2. CASE q > Len(input) /\ (input'[q].from = i => input'[q].key = "enter")
      <4>1. q > p
        BY <1>1, <3>2
      <4>2. QED
        BY <2>3, <3>2, <4>1
    <3>3. QED
      BY <1>2, <3>1, <3>2
  <2>4. QED
    BY <1>3, <2>1, <2>2, <2>3 DEF LineWay
<1>4. CASE Len(keys) = 1 /\ \A q \in 1 .. Len(input) :
                               input[q].from = i => input[q].key = "enter"
  BY <1>2, <1>4 DEF LineWay
<1>5. QED
  BY <1>3, <1>4 DEF LineWay

\* A write whose keys have senders.
LEMMA WriteSenders ==
    ASSUME TypeOK, Senders, NEW ks \in Seq(Key), Write(ks),
           \A f : Sender(f) => Sender(f)',
           \A k \in 1 .. Len(ks) : Sender(ks[k].from)'
    PROVE  (\A p \in 1 .. Len(input) : Sender(input[p].from))'
<1>1. CASE alive
  <2>1. input' = input \o ks
    BY <1>1 DEF Write
  <2>2. ASSUME NEW p \in 1 .. Len(input'), NEW f, f = input'[p].from
        PROVE  Sender(f)'
    <3>1. \/ p \in 1 .. Len(input) /\ input'[p] = input[p]
          \/ \E k \in 1 .. Len(ks) : input'[p] = ks[k]
      <4>1. input \in Seq(Key) /\ p \in 1 .. Len(input \o ks)
        BY <2>1, WayTypes
      <4>2. QED
        BY <2>1, <4>1, ConcatFrom
    <3>2. CASE p \in 1 .. Len(input) /\ input'[p] = input[p]
      <4>1. Sender(input[p].from)
        BY <3>2 DEF Senders
      <4>2. Sender(f)
        BY <2>2, <3>2, <4>1
      <4>3. QED
        BY <4>2
    <3>3. CASE \E k \in 1 .. Len(ks) : input'[p] = ks[k]
      BY <2>2, <3>3
    <3>4. QED
      BY <3>1, <3>2, <3>3
  <2>3. QED
    BY <2>2
<1>2. CASE ~alive
  <2>1. input' = input
    BY <1>2 DEF Write
  <2>2. QED
    BY <2>1 DEF Senders
<1>3. QED
  BY <1>1, <1>2

\* An answer is remembered, and what was asked stays what it was.
LEMMA DeliveredKept ==
    ASSUME TypeOK, Senders, Delivered, taken' = taken,
           \A i \in Ids : asked'[i] = asked[i],
           \A i : \A r \in Response : Answered(i, r) => Answered(i, r)'
    PROVE  Delivered'
<1> SUFFICES ASSUME NEW k \in 1 .. Len(taken), NEW i \in Ids',
                    Sources(taken[k]) = {i}, asked'[i].n = taken[k].prompt.n
             PROVE  \E r \in Response :
                       /\ Answered(i, r)'
                       /\ IF IsMenu(taken[k].prompt)
                          THEN r.option = taken[k].prompt.cursor
                          ELSE Len(taken[k].keys) = 2
  BY DEF Delivered
<1>1. i # Terminal
  BY DEF Ids, Terminal
<1>2. PICK j \in 1 .. Len(taken[k].keys) : taken[k].keys[j].from = i
  BY DEF Sources
<1>3. Sender(i)
  BY <1>2 DEF Senders
<1>4. i \in Ids
  <2>1. PICK r \in Response : Answered(i, r)
    BY <1>1, <1>3 DEF Sender
  <2>2. QED
    BY <2>1 DEF Answered, Senders
<1>5. PICK r \in Response :
            /\ Answered(i, r)
            /\ IF IsMenu(taken[k].prompt)
               THEN r.option = taken[k].prompt.cursor
               ELSE Len(taken[k].keys) = 2
  BY <1>4 DEF Delivered
<1>6. Answered(i, r)'
  BY <1>5
<1>7. QED
  BY <1>5, <1>6

\* Keys of the terminal, and the Enter of a text.
LEMMA WriteKeepsWay ==
    ASSUME TypeOK, WayInv, TypeOK',
           UNCHANGED <<screen, keys, prompts, taken, alive, seen, asked, replies>>,
           NEW ks \in Seq(Key), Write(ks),
           \A k \in 1 .. Len(ks) :
              /\ Sender(ks[k].from)
              /\ ks[k].from \in Ids => /\ ks[k].key = "enter"
                                       /\ ~IsMenu(asked[ks[k].from]),
           \A e \in 1 .. Len(enters') :
              /\ Sender(enters'[e])
              /\ enters'[e] \in Ids => ~IsMenu(asked[enters'[e]])
    PROVE  WayInv'
<1>1. /\ \A f : Sender(f)' <=> Sender(f)
      /\ \A i, r : Answered(i, r)' <=> Answered(i, r)
      /\ Ids' = Ids
      /\ \A i : Undisturbed(i)' <=> Undisturbed(i)
      /\ IsMenu(screen)' <=> IsMenu(screen)
  BY DEF Sender, Answered, Ids, Undisturbed, IsMenu
<1>2. Senders'
  <2>1. (\A p \in 1 .. Len(input) : Sender(input[p].from))'
    BY <1>1, WriteSenders DEF WayInv
  <2>2. QED
    BY <1>1, <2>1 DEF WayInv, Senders, Offered, IsMenu
<1>3. Numbered' /\ Origins'
  BY <1>1 DEF WayInv, Numbered, Origins
<1>4. Delivered'
  BY <1>1, DeliveredKept DEF WayInv
<1>5. ASSUME NEW i \in Ids, NEW r \in Response,
             Undisturbed(i), Answered(i, r), Writes(r)
      PROVE  IF IsMenu(screen) THEN MenuWay(i, r.option)' ELSE LineWay(i)'
  <2>1. screen # NoPrompt
    BY <1>5, UndisturbedShown DEF Undisturbed
  <2>2. input' = input \o ks
    BY <2>1 DEF WayInv, Numbered, Write
  <2>3. IsMenu(screen) <=> IsMenu(asked[i])
    BY <1>5, <2>1, AskedTyped, NoPromptIsNone
       DEF WayInv, Origins, Undisturbed, IsMenu
  <2>4. CASE IsMenu(screen)
    <3>1. MenuWay(i, r.option)
      BY <1>5, <2>4 DEF WayInv, OnTheWay
    <3>2. \A k \in 1 .. Len(ks) : ks[k].from # i
      BY <2>3, <2>4
    <3>3. QED
      BY <2>2, <2>4, <3>1, <3>2, MenuWayKept
  <2>5. CASE ~IsMenu(screen)
    <3>1. LineWay(i)
      BY <1>5, <2>5 DEF WayInv, OnTheWay
    <3>2. \A k \in 1 .. Len(ks) : ks[k].from = i => ks[k].key = "enter"
      OBVIOUS
    <3>3. QED
      BY <2>2, <2>5, <3>1, <3>2, LineWayKept
  <2>6. QED
    BY <2>4, <2>5
<1>6. OnTheWay'
  BY <1>1, <1>5 DEF OnTheWay
<1>7. QED
  BY <1>2, <1>3, <1>4, <1>6 DEF WayInv

LEMMA PressesAt ==
    ASSUME NEW key \in {"up", "down", "enter", "text"}, NEW from \in Nat,
           NEW n \in Nat
    PROVE  /\ Presses(key, n, from) \in Seq(Key)
           /\ Len(Presses(key, n, from)) = n
           /\ \A k \in 1 .. n :
                 Presses(key, n, from)[k] = [key |-> key, from |-> from]
<1>1. Presses(key, n, from) \in Seq(Key)
  BY PressesTyped
<1>2. DOMAIN Presses(key, n, from) = 1 .. n
  BY DEF Presses
<1>3. Len(Presses(key, n, from)) = n
  BY <1>1, <1>2, LenProperties
<1>4. QED
  BY <1>1, <1>3 DEF Presses

\* Way and Enter, in one piece.
Piece(key, n, i) == Append(Presses(key, n, i), [key |-> "enter", from |-> i])

LEMMA EnterAfter ==
    ASSUME NEW i \in Nat, NEW n \in Nat,
           NEW key \in {"up", "down", "enter", "text"}
    PROVE  /\ Piece(key, n, i) \in Seq(Key) /\ Len(Piece(key, n, i)) = n + 1
           /\ Piece(key, n, i)[n + 1] = [key |-> "enter", from |-> i]
           /\ \A k \in 1 .. n : Piece(key, n, i)[k] = [key |-> key, from |-> i]
<1>1. PICK s, e : /\ s = Presses(key, n, i)
                  /\ e = [key |-> "enter", from |-> i]
  OBVIOUS
<1>2. e \in Key
  BY <1>1, KeyTyped
<1>3. /\ s \in Seq(Key) /\ Len(s) = n
      /\ \A k \in 1 .. n : s[k] = [key |-> key, from |-> i]
  <2>1. /\ Presses(key, n, i) \in Seq(Key)
        /\ Len(Presses(key, n, i)) = n
        /\ \A k \in 1 .. n : Presses(key, n, i)[k] = [key |-> key, from |-> i]
    BY PressesAt
  <2>2. QED
    BY <1>1, <2>1
<1>4. PICK bytes : bytes = Piece(key, n, i) /\ bytes = Append(s, e)
  BY <1>1 DEF Piece
<1>5. /\ bytes \in Seq(Key) /\ Len(bytes) = Len(s) + 1
      /\ \A k \in 1 .. Len(s) : bytes[k] = s[k]
      /\ bytes[Len(s) + 1] = e
  <2>1. s \in Seq(Key)
    BY <1>3
  <2>2. /\ Append(s, e) \in Seq(Key) /\ Len(Append(s, e)) = Len(s) + 1
        /\ \A k \in 1 .. Len(s) : Append(s, e)[k] = s[k]
        /\ Append(s, e)[Len(s) + 1] = e
    BY <1>2, <2>1, AppendAt
  <2>3. QED
    BY <1>4, <2>2
<1>6. QED
  BY <1>1, <1>3, <1>4, <1>5

LEMMA ArrowsAndEnter ==
    ASSUME NEW i \in Nat, NEW n \in Nat, NEW arrow \in {"up", "down"}
    PROVE  /\ Len(Piece(arrow, n, i)) = n + 1
           /\ Piece(arrow, n, i)[n + 1] = [key |-> "enter", from |-> i]
           /\ \A k \in 1 .. n :
                 Piece(arrow, n, i)[k] = [key |-> arrow, from |-> i]
<1>1. arrow \in {"up", "down", "enter", "text"}
  OBVIOUS
<1>2. QED
  BY <1>1, EnterAfter

\* All of an answer is sent by the interaction it answers.
LEMMA OptionBytesFrom ==
    ASSUME TypeOK, NEW i \in Ids, NEW o \in OptionIds
    PROVE  /\ OptionBytes(i, o) \in Seq(Key)
           /\ \A k \in 1 .. Len(OptionBytes(i, o)) : OptionBytes(i, o)[k].from = i
<1>1. PICK c \in Nat : c = asked[i].cursor
  BY AskedTyped
<1>2. i \in Nat /\ o \in Nat
  BY AskedTyped, ProgramAssumption DEF OptionIds
<1>3. \E n \in Nat : \E key \in {"up", "down", "enter", "text"} :
         OptionBytes(i, o) = Piece(key, n, i)
  <2>1. CASE ~IsMenu(asked[i])
    BY <2>1 DEF OptionBytes, Piece
  <2>2. CASE IsMenu(asked[i]) /\ o > c
    <3>1. o - c \in Nat
      BY <1>1, <1>2, <2>2
    <3>2. QED
      BY <1>1, <2>2, <3>1 DEF OptionBytes, Piece
  <2>3. CASE IsMenu(asked[i]) /\ ~(o > c)
    <3>1. c - o \in Nat
      BY <1>1, <1>2, <2>3
    <3>2. QED
      BY <1>1, <2>3, <3>1 DEF OptionBytes, Piece
  <2>4. QED
    BY <2>1, <2>2, <2>3
<1>4. PICK n \in Nat, key \in {"up", "down", "enter", "text"} :
         OptionBytes(i, o) = Piece(key, n, i)
  BY <1>3
<1>5. PICK b : b = OptionBytes(i, o)
  OBVIOUS
<1>6. /\ b \in Seq(Key) /\ Len(b) = n + 1
      /\ b[n + 1] = [key |-> "enter", from |-> i]
      /\ \A k \in 1 .. n : b[k] = [key |-> key, from |-> i]
  <2>1. i \in Nat
    BY <1>2
  <2>2. /\ Piece(key, n, i) \in Seq(Key) /\ Len(Piece(key, n, i)) = n + 1
        /\ Piece(key, n, i)[n + 1] = [key |-> "enter", from |-> i]
        /\ \A k \in 1 .. n : Piece(key, n, i)[k] = [key |-> key, from |-> i]
    BY <2>1, EnterAfter
  <2>3. QED
    BY <1>4, <1>5, <2>2
<1>7. \A k \in 1 .. Len(b) : b[k].from = i
  BY <1>6
<1>8. QED
  BY <1>5, <1>6, <1>7

\* The way to option o of a menu, from where its cursor was.
LEMMA OptionBytesMenu ==
    ASSUME TypeOK, NEW i \in Ids, NEW o \in OptionIds, IsMenu(asked[i])
    PROVE  \E arrow \in {"up", "down"}, d \in Nat :
              /\ Toward(asked[i].cursor, arrow, d, o)
              /\ OptionBytes(i, o) = Piece(arrow, d, i)
<1>1. PICK c \in Nat : c = asked[i].cursor
  BY AskedTyped
<1>2. o \in Nat
  BY ProgramAssumption DEF OptionIds
<1>3. CASE o > c
  <2>1. o - c \in Nat /\ c + (o - c) = o
    BY <1>1, <1>2, <1>3
  <2>2. OptionBytes(i, o) = Piece("down", o - c, i)
    BY <1>1, <1>3 DEF OptionBytes, Piece
  <2>3. QED
    BY <1>1, <2>1, <2>2 DEF Toward
<1>4. CASE ~(o > c)
  <2>1. c - o \in Nat /\ o + (c - o) = c
    BY <1>1, <1>2, <1>4
  <2>2. OptionBytes(i, o) = Piece("up", c - o, i)
    BY <1>1, <1>4 DEF OptionBytes, Piece
  <2>3. QED
    BY <1>1, <2>1, <2>2 DEF Toward
<1>5. QED
  BY <1>3, <1>4

\* The text bound to an option of a prompt for a line.
LEMMA OptionBytesLine ==
    ASSUME TypeOK, NEW i \in Ids, NEW o \in OptionIds, ~IsMenu(asked[i])
    PROVE  /\ Len(OptionBytes(i, o)) = 2
           /\ OptionBytes(i, o)[1] = [key |-> "text", from |-> i]
           /\ OptionBytes(i, o)[2] = [key |-> "enter", from |-> i]
<1>1. i \in Nat
  BY AskedTyped
<1>2. PICK b : b = OptionBytes(i, o)
  OBVIOUS
<1>3. b = Piece("text", 1, i)
  BY <1>2 DEF OptionBytes, Piece
<1>4. /\ Len(b) = 1 + 1 /\ b[1 + 1] = [key |-> "enter", from |-> i]
      /\ \A k \in 1 .. 1 : b[k] = [key |-> "text", from |-> i]
  BY <1>1, <1>3, EnterAfter, ZenonT(40)
<1>5. QED
  BY <1>2, <1>4

\* Nobody has seen a key of what is active: it has not been answered.
LEMMA ActiveIsSilent ==
    ASSUME TypeOK, EventsTellActive, RepliesInv, WayInv,
           NEW a \in Ids, active = a
    PROVE  /\ \A r : ~Answered(a, r)
           /\ ~Sender(a)
           /\ \A p \in 1 .. Len(input) : input[p].from # a
           /\ \A k \in 1 .. Len(keys) : keys[k].from # a
           /\ Undisturbed(a) => keys = <<>> /\ asked[a].cursor = screen.cursor
<1>1. a \in Nat /\ a # None /\ a # Terminal
  BY AskedTyped DEF None, Terminal
<1>2. ~Replied(a)
  BY <1>1, ActiveIsOpen DEF RepliesInv
<1>3. \A r : ~Answered(a, r)
  BY <1>2 DEF Answered, Replied
<1>4. ~Sender(a)
  BY <1>1, <1>3 DEF Sender
<1>5. /\ \A p \in 1 .. Len(input) : input[p].from # a
      /\ \A k \in 1 .. Len(keys) : keys[k].from # a
  BY <1>4 DEF WayInv, Senders
<1>6. ASSUME Undisturbed(a)
      PROVE  keys = <<>> /\ asked[a].cursor = screen.cursor
  <2>1. keys \in Seq(Key) /\ Len(keys) \in Nat
    BY WayTypes, LenProperties
  <2>2. 1 \notin 1 .. Len(keys)
    BY <1>5, <1>6 DEF Undisturbed
  <2>3. keys = <<>>
    BY <2>1, <2>2, EmptySeq
  <2>4. screen # NoPrompt
    BY <1>6, UndisturbedShown DEF Undisturbed
  <2>5. QED
    BY <1>6, <2>3, <2>4 DEF WayInv, Origins, Undisturbed
<1>7. QED
  BY <1>3, <1>4, <1>5, <1>6

\* The answer to a menu that nobody has touched is the way to its option.
LEMMA MenuWayBegins ==
    ASSUME TypeOK, NEW a \in Ids, NEW o \in OptionIds,
           IsMenu(asked[a]), asked[a].cursor = screen.cursor,
           screen' = screen,
           \A p \in 1 .. Len(input) : input[p].from # a,
           input' = input \o OptionBytes(a, o)
    PROVE  MenuWay(a, o)'
<1> PICK arrow \in {"up", "down"}, d \in Nat :
           /\ Toward(asked[a].cursor, arrow, d, o)
           /\ OptionBytes(a, o) = Piece(arrow, d, a)
  BY OptionBytesMenu
<1> PICK n \in Nat : n = d + 1
  OBVIOUS
<1>1. PICK b \in Seq(Key) : b = OptionBytes(a, o)
  BY OptionBytesFrom
<1>2. /\ Len(b) = n /\ b[n].key = "enter"
      /\ \A k \in 1 .. n : b[k].from = a /\ (k # n => b[k].key = arrow)
  <2>1. /\ Len(b) = d + 1 /\ b[d + 1] = [key |-> "enter", from |-> a]
        /\ \A k \in 1 .. d : b[k] = [key |-> arrow, from |-> a]
    <3>1. b = Piece(arrow, d, a) /\ a \in Nat
      BY <1>1, AskedTyped
    <3>2. /\ Len(Piece(arrow, d, a)) = d + 1
          /\ Piece(arrow, d, a)[d + 1] = [key |-> "enter", from |-> a]
          /\ \A k \in 1 .. d :
                Piece(arrow, d, a)[k] = [key |-> arrow, from |-> a]
      BY <3>1, ArrowsAndEnter
    <3>3. QED
      BY <3>1, <3>2
  <2>2. ASSUME NEW k \in 1 .. n, k # n PROVE k \in 1 .. d
    BY <2>2
  <2>3. QED
    BY <2>1, <2>2
<1>3. n \in Nat /\ n >= 1
  OBVIOUS
<1>4. /\ Len(input) \in Nat
      /\ Len(input') = Len(input) + n
      /\ \A p \in 1 .. Len(input) : input'[p] = input[p]
      /\ \A k \in 1 .. n : input'[Len(input) + k] = b[k]
  <2>1. input' = input \o b
    BY <1>1
  <2>2. /\ Len(input) \in Nat
        /\ Len(input \o b) = Len(input) + Len(b)
        /\ \A p \in 1 .. Len(input) : (input \o b)[p] = input[p]
        /\ \A k \in 1 .. Len(b) : (input \o b)[Len(input) + k] = b[k]
    <3>1. input \in Seq(Key)
      BY WayTypes
    <3>2. QED
      BY <3>1, ConcatAt
  <2>3. Len(b) = n
    BY <1>2
  <2>4. QED
    BY <2>1, <2>2, <2>3
<1>5. PICK e : e = Len(input) + n
  OBVIOUS
<1>6. e \in 1 .. Len(input') /\ input'[e].key = "enter"
  BY <1>2, <1>3, <1>4, <1>5
<1>7. ASSUME NEW p \in 1 .. Len(input')
      PROVE  /\ input'[p].from = a <=> e - d <= p /\ p <= e
             /\ input'[p].from = a /\ p # e => input'[p].key = arrow
  <2>1. CASE p \in 1 .. Len(input)
    BY <1>3, <1>4, <1>5, <2>1
  <2>2. CASE p \notin 1 .. Len(input)
    <3>1. PICK k \in 1 .. n : p = Len(input) + k
      <4>1. \A m, l \in Nat : \A q \in 1 .. m + l :
               q \notin 1 .. m => q - m \in 1 .. l /\ q = m + (q - m)
        OBVIOUS
      <4>2. p - Len(input) \in 1 .. n /\ p = Len(input) + (p - Len(input))
        BY <1>3, <1>4, <2>2, <4>1
      <4>3. QED
        BY <4>2
    <3>2. input'[p] = b[k] /\ (p = e <=> k = n)
      <4>1. input'[p] = b[k]
        BY <1>4, <3>1
      <4>2. Len(input) \in Nat /\ k \in Nat /\ n \in Nat
        BY <1>3, <1>4
      <4>3. p = e <=> k = n
        BY <1>5, <3>1, <4>2
      <4>4. QED
        BY <4>1, <4>3
    <3>3. input'[p].from = a /\ (p # e => input'[p].key = arrow)
      BY <1>2, <3>2
    <3>4. e - d <= p /\ p <= e
      BY <1>3, <1>4, <1>5, <3>1
    <3>5. QED
      BY <3>3, <3>4
  <2>3. QED
    BY <2>1, <2>2
<1>8. d < e
  BY <1>4, <1>5
<1>9. Pressed(a, arrow, d)'
  BY <1>6, <1>7, <1>8 DEF Pressed
<1>10. QED
  BY <1>9 DEF MenuWay

\* The answer to a prompt for a line begins with its text.
LEMMA LineWayBegins ==
    ASSUME TypeOK, NEW a \in Ids, keys' = <<>>,
           \A p \in 1 .. Len(input) : input[p].from # a,
           NEW ks \in Seq(Key), input' = input \o ks, Len(ks) >= 1,
           ks[1].key = "text" /\ ks[1].from = a,
           \A k \in 1 .. Len(ks) : k # 1 => ks[k].key = "enter"
    PROVE  LineWay(a)'
<1>1. /\ Len(input) \in Nat /\ Len(ks) \in Nat
      /\ Len(input') = Len(input) + Len(ks)
      /\ \A p \in 1 .. Len(input) : input'[p] = input[p]
      /\ \A k \in 1 .. Len(ks) : input'[Len(input) + k] = ks[k]
  BY WayTypes, ConcatAt
<1>2. PICK p : p = Len(input) + 1
  OBVIOUS
<1>3. p \in 1 .. Len(input') /\ input'[p] = ks[1]
  BY <1>1, <1>2
<1>4. ASSUME NEW q \in 1 .. Len(input'), input'[q].from = a, q # p
      PROVE  q > p /\ input'[q].key = "enter"
  <2>1. q \notin 1 .. Len(input)
    BY <1>1, <1>4
  <2>2. PICK k \in 1 .. Len(ks) : q = Len(input) + k
    <3>1. \A m, n \in Nat : \A c \in 1 .. m + n :
             c \notin 1 .. m => c - m \in 1 .. n /\ c = m + (c - m)
      OBVIOUS
    <3>2. q - Len(input) \in 1 .. Len(ks) /\ q = Len(input) + (q - Len(input))
      BY <1>1, <2>1, <3>1
    <3>3. QED
      BY <3>2
  <2>3. k # 1 /\ q > p
    BY <1>1, <1>2, <1>4, <2>2
  <2>4. QED
    BY <1>1, <2>2, <2>3
<1>5. QED
  BY <1>3, <1>4 DEF LineWay

\* Who writes an answer, and what it is.
LEMMA RespondWrites ==
    ASSUME TypeOK, WayInv, NEW a \in Ids, NEW r \in Response, Respond(a, r)
    PROVE  \/ ~Writes(r) /\ input' = input /\ enters' = enters
           \/ /\ Writes(r)
              /\ \E ks \in Seq(Key) :
                    /\ Write(ks)
                    /\ \A k \in 1 .. Len(ks) : ks[k].from = a
                    /\ IF IsMenu(asked[a])
                       THEN r.option \in OptionIds /\ ks = OptionBytes(a, r.option)
                       ELSE /\ Len(ks) >= 1 /\ ks[1].key = "text"
                            /\ \A k \in 1 .. Len(ks) : k # 1 => ks[k].key = "enter"
              /\ \/ enters' = enters
                 \/ ~IsMenu(asked[a]) /\ enters' = Append(enters, a)
<1>1. r \in Offered(a)
  BY DEF Respond
<1>2. CASE r.type = "cancel"
  BY <1>2 DEF Respond, Writes
<1>3. CASE r.type = "options" /\ r.option = Unbound
  BY <1>3 DEF Respond, Writes
<1>4. CASE r.type = "options" /\ r.option # Unbound
  <2>1. r.option \in OptionIds
    BY <1>4 DEF Response
  <2>2. PICK o \in OptionIds : o = r.option
    BY <2>1
  <2>3. PICK ks \in Seq(Key) : ks = OptionBytes(a, o)
    BY OptionBytesFrom
  <2>4. Write(ks) /\ enters' = enters
    BY <1>4, <2>2, <2>3 DEF Respond
  <2>5. \A k \in 1 .. Len(ks) : ks[k].from = a
    BY <2>3, OptionBytesFrom
  <2>6. ASSUME ~IsMenu(asked[a])
        PROVE  /\ Len(ks) >= 1 /\ ks[1].key = "text"
               /\ \A k \in 1 .. Len(ks) : k # 1 => ks[k].key = "enter"
    <3>1. /\ Len(ks) = 2 /\ ks[1] = [key |-> "text", from |-> a]
          /\ ks[2] = [key |-> "enter", from |-> a]
      BY <2>3, <2>6, OptionBytesLine
    <3>2. QED
      BY <3>1
  <2>7. Writes(r)
    BY <1>4 DEF Writes
  <2>8. QED
    BY <2>2, <2>3, <2>4, <2>5, <2>6, <2>7
<1>5. CASE r.type = "text"
  <2>1. PICK ks : ks = <<[key |-> "text", from |-> a]>>
    OBVIOUS
  <2>2. ks \in Seq(Key) /\ Len(ks) = 1 /\ ks[1] = [key |-> "text", from |-> a]
    BY <2>1, AskedTyped, KeyTyped
  <2>3. Write(ks) /\ enters' = Append(enters, a)
    BY <1>5, <2>1 DEF Respond, DeliverText
  <2>4. ~IsMenu(asked[a])
    BY <1>1, <1>5 DEF Offered
  <2>5. Writes(r)
    BY <1>5 DEF Writes
  <2>6. QED
    BY <2>2, <2>3, <2>4, <2>5
<1>6. QED
  BY <1>2, <1>3, <1>4, <1>5 DEF Respond

\* An answer sets out on its way.
LEMMA RespondKeepsWay ==
    ASSUME TypeOK, EventsTellActive, RepliesInv, WayInv, TypeOK',
           NEW a \in Ids, NEW r \in Response, Respond(a, r)
    PROVE  WayInv'
<1>1. /\ UNCHANGED <<screen, keys, prompts, taken, alive, seen, asked>>
      /\ active = a /\ r \in Offered(a)
      /\ replies' = Append(replies, [id |-> a, response |-> r])
  BY DEF Respond, Current
<1>2. /\ \A q : ~Answered(a, q)
      /\ ~Sender(a)
      /\ \A p \in 1 .. Len(input) : input[p].from # a
      /\ \A k \in 1 .. Len(keys) : keys[k].from # a
      /\ Undisturbed(a) => keys = <<>> /\ asked[a].cursor = screen.cursor
  BY <1>1, ActiveIsSilent
<1>3. /\ Len(replies) \in Nat /\ Len(replies') = Len(replies) + 1
      /\ \A k \in 1 .. Len(replies) : replies'[k] = replies[k]
      /\ replies'[Len(replies) + 1] = [id |-> a, response |-> r]
  <2>1. [id |-> a, response |-> r] \in Reply /\ replies \in Seq(Reply)
    BY AskedTyped, WayTypes DEF Reply
  <2>2. QED
    BY <1>1, <2>1, AppendAt
<1>4. \A k : k \in 1 .. Len(replies') <=>
                k \in 1 .. Len(replies) \/ k = Len(replies) + 1
  BY <1>3
<1>5. \A i, q : Answered(i, q)' <=> Answered(i, q) \/ (i = a /\ q = r)
  BY <1>3, <1>4 DEF Answered
<1>6. \A f : Sender(f) => Sender(f)'
  BY <1>5 DEF Sender
<1>7. Writes(r) => Sender(a)'
  BY <1>5 DEF Sender
<1>8. /\ Ids' = Ids
      /\ \A i : Undisturbed(i)' <=> Undisturbed(i)
      /\ IsMenu(screen)' <=> IsMenu(screen)
  BY <1>1 DEF Ids, Undisturbed, IsMenu
<1>9. Numbered' /\ Origins'
  BY <1>1, <1>8 DEF WayInv, Numbered, Origins
<1>10. Delivered'
  <2>1. \A i : \A q \in Response : Answered(i, q) => Answered(i, q)'
    BY <1>5
  <2>2. QED
    BY <1>1, <2>1, DeliveredKept DEF WayInv
<1>11. Senders'
  <2>1. (\A p \in 1 .. Len(input) : Sender(input[p].from))'
    <3>1. CASE input' = input
      BY <1>6, <3>1 DEF WayInv, Senders
    <3>2. CASE /\ Writes(r)
               /\ \E ks \in Seq(Key) : /\ Write(ks)
                                       /\ \A k \in 1 .. Len(ks) : ks[k].from = a
      <4>1. PICK ks \in Seq(Key) : /\ Write(ks)
                                   /\ \A k \in 1 .. Len(ks) : ks[k].from = a
        BY <3>2
      <4>2. \A k \in 1 .. Len(ks) : Sender(ks[k].from)'
        BY <1>7, <3>2, <4>1
      <4>3. Senders
        BY DEF WayInv
      <4>4. QED
        BY <1>6, <4>1, <4>2, <4>3, WriteSenders
    <3>3. \/ input' = input
          \/ \E ks \in Seq(Key) : /\ Write(ks)
                                  /\ \A k \in 1 .. Len(ks) : ks[k].from = a
      BY RespondWrites
    <3>4. input' = input \/ Writes(r)
      BY RespondWrites
    <3>5. QED
      BY <3>1, <3>2, <3>3, <3>4
  <2>2. (\A e \in 1 .. Len(enters) :
            /\ Sender(enters[e])
            /\ enters[e] \in Ids => ~IsMenu(asked[enters[e]]))'
    <3>1. CASE enters' = enters
      BY <1>1, <1>6, <1>8, <3>1 DEF WayInv, Senders, IsMenu
    <3>2. CASE /\ Writes(r) /\ ~IsMenu(asked[a])
               /\ enters' = Append(enters, a)
      <4>1. /\ Len(enters) \in Nat /\ Len(enters') = Len(enters) + 1
            /\ \A e \in 1 .. Len(enters) : enters'[e] = enters[e]
            /\ enters'[Len(enters) + 1] = a
        <5>1. enters \in Seq(Nat) /\ a \in Nat
          BY WayTypes, AskedTyped
        <5>2. QED
          BY <3>2, <5>1, AppendAt
      <4>2. ASSUME NEW e \in 1 .. Len(enters'), NEW f, f = enters'[e]
            PROVE  Sender(f)' /\ (f \in Ids => ~IsMenu(asked[f]))
        <5>1. CASE e \in 1 .. Len(enters)
          <6>1. f = enters[e]
            BY <4>1, <4>2, <5>1
          <6>2. Sender(enters[e]) /\ (enters[e] \in Ids => ~IsMenu(asked[enters[e]]))
            BY <5>1 DEF WayInv, Senders
          <6>3. QED
            BY <1>6, <6>1, <6>2
        <5>2. CASE e = Len(enters) + 1
          BY <1>7, <3>2, <4>1, <4>2, <5>2
        <5>3. QED
          BY <4>1, <5>1, <5>2
      <4>3. QED
        BY <1>1, <1>8, <4>2 DEF IsMenu
    <3>3. QED
      BY <3>1, <3>2, RespondWrites
  <2>3. (/\ \A k \in 1 .. Len(keys) : Sender(keys[k].from)
         /\ \A k \in 1 .. Len(taken) :
               \A j \in 1 .. Len(taken[k].keys) : Sender(taken[k].keys[j].from))'
    BY <1>1, <1>6 DEF WayInv, Senders
  <2>4. (\A k \in 1 .. Len(replies) :
            /\ replies[k].id \in Ids
            /\ replies[k].response \in Offered(replies[k].id))'
    <3>1. \A i : Offered(i)' = Offered(i)
      BY <1>1 DEF Offered, IsMenu
    <3>2. ASSUME NEW k \in 1 .. Len(replies')
          PROVE  /\ replies'[k].id \in Ids
                 /\ replies'[k].response \in Offered(replies'[k].id)
      <4>1. CASE k \in 1 .. Len(replies)
        BY <1>3, <4>1 DEF WayInv, Senders
      <4>2. CASE k = Len(replies) + 1
        BY <1>1, <1>3, <4>2
      <4>3. QED
        BY <1>4, <4>1, <4>2
    <3>3. QED
      BY <1>1, <1>8, <3>1, <3>2 DEF Offered, IsMenu
  <2>5. QED
    BY <2>1, <2>2, <2>3, <2>4 DEF Senders
<1>12. ASSUME NEW i \in Ids, NEW q \in Response,
              Undisturbed(i), Answered(i, q)', Writes(q)
       PROVE  IF IsMenu(screen) THEN MenuWay(i, q.option)' ELSE LineWay(i)'
  <2>1. screen # NoPrompt
    BY <1>12, UndisturbedShown DEF Undisturbed
  <2>2. alive
    BY <2>1 DEF WayInv, Numbered
  <2>3. IsMenu(screen) <=> IsMenu(asked[i])
    BY <1>12, <2>1, AskedTyped, NoPromptIsNone
       DEF WayInv, Origins, Undisturbed, IsMenu
  <2>4. CASE i # a
    <3>1. Answered(i, q)
      BY <1>5, <1>12, <2>4
    <3>2. IF IsMenu(screen) THEN MenuWay(i, q.option) ELSE LineWay(i)
      BY <1>12, <3>1 DEF WayInv, OnTheWay
    <3>3. CASE input' = input
      BY <1>1, <3>2, <3>3 DEF MenuWay, Pressed, LineWay
    <3>4. CASE \E ks \in Seq(Key) : /\ Write(ks)
                                    /\ \A k \in 1 .. Len(ks) : ks[k].from = a
      <4>1. PICK ks \in Seq(Key) : /\ Write(ks)
                                   /\ \A k \in 1 .. Len(ks) : ks[k].from = a
        BY <3>4
      <4>2. input' = input \o ks
        BY <2>2, <4>1 DEF Write
      <4>3. \A k \in 1 .. Len(ks) : ks[k].from # i
        BY <2>4, <4>1
      <4>4. CASE IsMenu(screen)
        BY <1>1, <3>2, <4>2, <4>3, <4>4, MenuWayKept
      <4>5. CASE ~IsMenu(screen)
        BY <1>1, <3>2, <4>2, <4>3, <4>5, LineWayKept
      <4>6. QED
        BY <4>4, <4>5
    <3>5. QED
      BY <3>3, <3>4, RespondWrites
  <2>5. CASE i = a
    <3>1. q = r /\ Writes(r)
      BY <1>2, <1>5, <1>12, <2>5
    <3>2. keys' = <<>> /\ asked[a].cursor = screen.cursor
      BY <1>1, <1>2, <1>12, <2>5
    <3>3. PICK ks \in Seq(Key) :
             /\ Write(ks)
             /\ \A k \in 1 .. Len(ks) : ks[k].from = a
             /\ IF IsMenu(asked[a])
                THEN r.option \in OptionIds /\ ks = OptionBytes(a, r.option)
                ELSE /\ Len(ks) >= 1 /\ ks[1].key = "text"
                     /\ \A k \in 1 .. Len(ks) : k # 1 => ks[k].key = "enter"
      BY <3>1, RespondWrites
    <3>4. input' = input \o ks
      BY <2>2, <3>3 DEF Write
    <3>5. CASE IsMenu(screen)
      <4>1. PICK o \in OptionIds : o = r.option
        BY <2>3, <2>5, <3>3, <3>5
      <4>2. IsMenu(asked[a]) /\ input' = input \o OptionBytes(a, o)
        BY <2>3, <2>5, <3>3, <3>4, <3>5, <4>1
      <4>3. MenuWay(a, o)'
        BY <1>1, <1>2, <3>2, <4>2, MenuWayBegins
      <4>4. QED
        BY <2>5, <3>1, <3>5, <4>1, <4>3
    <3>6. CASE ~IsMenu(screen)
      <4>1. /\ Len(ks) >= 1 /\ ks[1].key = "text" /\ ks[1].from = a
            /\ \A k \in 1 .. Len(ks) : k # 1 => ks[k].key = "enter"
        <5>1. Len(ks) \in Nat
          BY LenProperties
        <5>2. QED
          BY <2>3, <2>5, <3>3, <3>6, <5>1
      <4>2. LineWay(a)'
        BY <1>2, <3>2, <3>4, <4>1, LineWayBegins
      <4>3. QED
        BY <2>5, <3>6, <4>2
    <3>7. QED
      BY <3>5, <3>6
  <2>6. QED
    BY <2>4, <2>5
<1>13. OnTheWay'
  BY <1>8, <1>12 DEF OnTheWay
<1>14. QED
  BY <1>9, <1>10, <1>11, <1>13 DEF WayInv

\* A step of the program, or of nobody, leaves the senders what they are.
LEMMA SendersSame ==
    ASSUME UNCHANGED <<asked, replies>>
    PROVE  /\ \A f : Sender(f)' <=> Sender(f)
           /\ \A i, r : Answered(i, r)' <=> Answered(i, r)
           /\ \A i : Offered(i)' = Offered(i)
           /\ Ids' = Ids
  BY DEF Sender, Answered, Ids, Offered, IsMenu

\* A key that is read, or dropped, had a sender.
LEMMA TailSenders ==
    ASSUME TypeOK, Senders, input # <<>>
    PROVE  /\ Head(input) = input[1] /\ Head(input) \in Key
           /\ Sender(Head(input).from)
           /\ Len(input) \in Nat /\ Len(input) >= 1
           /\ Len(Tail(input)) = Len(input) - 1
           /\ \A p \in 1 .. Len(input) - 1 : Tail(input)[p] = input[p + 1]
           /\ \A p \in 1 .. Len(Tail(input)) : Sender(Tail(input)[p].from)
<1>1. /\ Head(input) = input[1] /\ Head(input) \in Key
      /\ Len(input) \in Nat /\ Len(input) >= 1
      /\ Len(Tail(input)) = Len(input) - 1
      /\ \A p \in 1 .. Len(input) - 1 : Tail(input)[p] = input[p + 1]
  <2>1. input \in Seq(Key)
    BY WayTypes
  <2>2. QED
    BY <2>1, TailAt
<1>2. Sender(input[1].from)
  BY <1>1 DEF Senders
<1>3. ASSUME NEW p \in 1 .. Len(Tail(input))
      PROVE  Sender(Tail(input)[p].from)
  <2>1. p + 1 \in 1 .. Len(input) /\ Tail(input)[p] = input[p + 1]
    BY <1>1
  <2>2. Sender(input[p + 1].from)
    BY <2>1 DEF Senders
  <2>3. QED
    BY <2>1, <2>2
<1>4. QED
  BY <1>1, <1>2, <1>3

LEMMA AskedLater ==
    ASSUME TypeOK'
    PROVE  (\A i \in Ids : asked[i].n \in Nat \ {0})'
<1>1. PICK a : a = asked'
  OBVIOUS
<1>2. a \in Seq(Prompt)
  BY <1>1 DEF TypeOK
<1>3. \A i \in 1 .. Len(a) : a[i] \in Prompt
  BY <1>2, ElementOfSeq
<1>4. \A i \in 1 .. Len(a) : a[i].n \in Nat \ {0}
  BY <1>3 DEF Prompt
<1>5. QED
  BY <1>1, <1>4 DEF Ids

\* The prompt is gone: nothing is on its way any more.
LEMMA NoneKeepsWay ==
    ASSUME TypeOK, TypeOK', screen' = NoPrompt
    PROVE  OnTheWay'
<1>1. (\A i \in Ids : asked[i].n \in Nat \ {0})'
  BY AskedLater
<1>2. QED
  BY <1>1 DEF OnTheWay, Undisturbed, NoPrompt

\* A prompt that goes, by itself or with the program.
LEMMA GoneKeepsWay ==
    ASSUME TypeOK, WayInv, TypeOK',
           UNCHANGED <<prompts, taken, daemonVars>>,
           screen' = NoPrompt, keys' = <<>>,
           input' = input \/ input' = <<>>
    PROVE  WayInv'
<1>1. UNCHANGED <<seen, asked, enters, replies>>
  BY DEF daemonVars
<1>2. /\ \A f : Sender(f)' <=> Sender(f)
      /\ \A i, r : Answered(i, r)' <=> Answered(i, r)
      /\ \A i : Offered(i)' = Offered(i)
      /\ Ids' = Ids
  BY <1>1, SendersSame
<1>3. Senders'
  <2>1. Len(keys') = 0
    OBVIOUS
  <2>2. (\A p \in 1 .. Len(input) : Sender(input[p].from))'
    <3>1. CASE input' = input
      BY <1>2, <3>1 DEF WayInv, Senders
    <3>2. CASE input' = <<>>
      BY <3>2
    <3>3. QED
      BY <3>1, <3>2
  <2>3. (\A k \in 1 .. Len(keys) : Sender(keys[k].from))'
    BY <2>1
  <2>4. QED
    BY <1>1, <1>2, <2>2, <2>3 DEF WayInv, Senders, Offered, IsMenu
<1>4. Numbered'
  BY <1>1, <1>2 DEF WayInv, Numbered
<1>5. Origins'
  <2>1. (\A i \in Ids : asked[i].n \in Nat \ {0})'
    BY AskedLater
  <2>2. QED
    BY <2>1 DEF Origins, NoPrompt
<1>6. Delivered'
  BY <1>1, <1>2, DeliveredKept DEF WayInv
<1>7. QED
  BY <1>3, <1>4, <1>5, <1>6, NoneKeepsWay DEF WayInv

\* A new prompt has a new number.
LEMMA ShowKeepsWay ==
    ASSUME TypeOK, WayInv, TypeOK', NEW sig \in Signatures,
           NEW c \in OptionIds, ShowPrompt(sig, c), UNCHANGED daemonVars
    PROVE  WayInv'
<1>1. /\ UNCHANGED <<seen, asked, enters, replies, keys, taken, input, alive>>
      /\ alive /\ screen = NoPrompt /\ prompts' = prompts + 1
      /\ screen' = [n |-> prompts + 1, sig |-> sig, cursor |-> c, echo |-> 0]
  BY DEF ShowPrompt, daemonVars
<1>2. /\ \A f : Sender(f)' <=> Sender(f)
      /\ \A i, r : Answered(i, r)' <=> Answered(i, r)
      /\ \A i : Offered(i)' = Offered(i)
      /\ Ids' = Ids
  BY <1>1, SendersSame
<1>3. /\ prompts \in Nat
      /\ screen'.n = prompts + 1
      /\ seen.n <= prompts /\ seen.n \in Nat
      /\ \A i \in Ids : asked[i].n <= prompts /\ asked[i].n \in Nat
  <2>1. seen.n \in Nat
    BY WayTypes DEF Prompt, NoPrompt
  <2>2. QED
    BY <1>1, <2>1, WayTypes, AskedTyped DEF WayInv, Numbered
<1>4. seen.n # screen'.n /\ \A i \in Ids : asked[i].n # screen'.n
  BY <1>3
<1>5. Senders'
  BY <1>1, <1>2 DEF WayInv, Senders, Offered, IsMenu
<1>6. Numbered'
  <2>1. screen' # NoPrompt
    BY <1>3 DEF NoPrompt
  <2>2. seen.n <= prompts + 1 /\ \A i \in Ids : asked[i].n <= prompts + 1
    BY <1>3
  <2>3. QED
    BY <1>1, <1>2, <1>3, <2>1, <2>2 DEF Numbered
<1>7. Origins' /\ OnTheWay'
  BY <1>1, <1>2, <1>4 DEF Origins, OnTheWay, Undisturbed
<1>8. Delivered'
  BY <1>1, <1>2, DeliveredKept DEF WayInv
<1>9. QED
  BY <1>5, <1>6, <1>7, <1>8 DEF WayInv

\* A key nobody waits for.
LEMMA DropKeepsWay ==
    ASSUME TypeOK, WayInv, TypeOK', DropKey, UNCHANGED daemonVars
    PROVE  WayInv'
<1>1. /\ UNCHANGED <<seen, asked, enters, replies, keys, taken, alive,
                     prompts, screen>>
      /\ screen = NoPrompt /\ input # <<>> /\ input' = Tail(input)
  BY DEF DropKey, daemonVars
<1>2. /\ \A f : Sender(f)' <=> Sender(f)
      /\ \A i, r : Answered(i, r)' <=> Answered(i, r)
      /\ \A i : Offered(i)' = Offered(i)
      /\ Ids' = Ids
  BY <1>1, SendersSame
<1>3. (\A p \in 1 .. Len(input) : Sender(input[p].from))'
  BY <1>1, <1>2, TailSenders DEF WayInv
<1>4. Senders'
  BY <1>1, <1>2, <1>3 DEF WayInv, Senders, Offered, IsMenu
<1>5. Numbered' /\ Origins'
  BY <1>1, <1>2 DEF WayInv, Numbered, Origins
<1>6. Delivered'
  BY <1>1, <1>2, DeliveredKept DEF WayInv
<1>7. QED
  BY <1>1, <1>4, <1>5, <1>6, NoneKeepsWay DEF WayInv

\* What is read of the output is the screen.
LEMMA ReadKeepsWay ==
    ASSUME TypeOK, WayInv, TypeOK',
           UNCHANGED <<screen, keys, prompts, taken, input, alive, asked,
                       enters, replies>>,
           seen' = seen \/ seen' = Detectable
    PROVE  WayInv'
<1>1. /\ \A f : Sender(f)' <=> Sender(f)
      /\ \A i, r : Answered(i, r)' <=> Answered(i, r)
      /\ \A i : Offered(i)' = Offered(i)
      /\ Ids' = Ids
  BY SendersSame
<1>2. \A i : Undisturbed(i)' <=> Undisturbed(i)
  BY DEF Undisturbed
<1>3. seen' \in {seen, screen, NoPrompt}
  BY DEF Detectable
<1>4. Senders'
  BY <1>1 DEF WayInv, Senders, Offered, IsMenu
<1>5. Numbered'
  <2>1. seen'.n <= prompts
    <3>1. screen # NoPrompt => screen.n = prompts /\ prompts <= prompts
      BY WayTypes DEF WayInv, Numbered
    <3>2. NoPrompt.n = 0 /\ 0 <= prompts
      BY WayTypes DEF NoPrompt
    <3>3. QED
      BY <1>3, <3>1, <3>2 DEF WayInv, Numbered
  <2>2. QED
    BY <1>1, <2>1 DEF WayInv, Numbered
<1>6. Origins'
  <2>1. screen # NoPrompt /\ seen'.n = screen.n =>
           /\ seen'.sig = screen.sig
           /\ keys = <<>> => seen'.cursor = screen.cursor
    <3>1. screen # NoPrompt => NoPrompt.n # screen.n
      BY ScreenTyped DEF NoPrompt
    <3>2. QED
      BY <1>3, <3>1 DEF WayInv, Origins
  <2>2. QED
    BY <1>1, <2>1 DEF WayInv, Origins
<1>7. OnTheWay'
  <2>1. \A i, o : MenuWay(i, o)' <=> MenuWay(i, o)
    BY DEF MenuWay, Pressed
  <2>2. \A i : LineWay(i)' <=> LineWay(i)
    BY DEF LineWay
  <2>3. QED
    BY <1>1, <1>2, <2>1, <2>2 DEF WayInv, OnTheWay, IsMenu
<1>8. Delivered'
  BY <1>1, DeliveredKept DEF WayInv
<1>9. QED
  BY <1>4, <1>5, <1>6, <1>7, <1>8 DEF WayInv

\* A prompt is asked as it was read, and nobody has answered it yet.
LEMMA RegisterKeepsWay ==
    ASSUME TypeOK, WayInv, TypeOK',
           UNCHANGED <<programVars, seen, enters, replies>>,
           seen # NoPrompt, Register(seen)
    PROVE  WayInv'
<1>1. UNCHANGED <<screen, keys, prompts, taken, input, dirty, alive>>
  BY DEF programVars
<1>2. /\ Len(asked) \in Nat /\ Len(asked') = Len(asked) + 1
      /\ \A i \in 1 .. Len(asked) : asked'[i] = asked[i]
      /\ asked'[Len(asked) + 1] = seen
  <2>1. asked \in Seq(Prompt) /\ seen \in Prompt
    BY WayTypes
  <2>2. QED
    BY <2>1, AppendAt DEF Register
<1>3. PICK a : a = Len(asked) + 1
  OBVIOUS
<1>4. /\ \A i : i \in Ids' <=> i \in Ids \/ i = a
      /\ \A i \in Ids : asked'[i] = asked[i]
      /\ asked'[a] = seen /\ a \notin Ids /\ a # Terminal
  BY <1>2, <1>3 DEF Ids, Terminal
<1>5. /\ \A f : Sender(f)' <=> Sender(f)
      /\ \A i, r : Answered(i, r)' <=> Answered(i, r)
  BY DEF Sender, Answered
<1>6. \A r : ~Answered(a, r)
  BY <1>4 DEF WayInv, Senders, Answered
<1>7. ~Sender(a)
  BY <1>4, <1>6 DEF Sender
<1>8. Senders'
  <2>1. (\A k \in 1 .. Len(replies) :
            /\ replies[k].id \in Ids
            /\ replies[k].response \in Offered(replies[k].id))'
    <3>1. \A i \in Ids : Offered(i)' = Offered(i)
      BY <1>4 DEF Offered, IsMenu
    <3>2. \A k \in 1 .. Len(replies) :
             /\ replies[k].id \in Ids /\ replies[k].id \in Ids'
             /\ replies[k].response \in Offered(replies[k].id)
      BY <1>4 DEF WayInv, Senders
    <3>3. ASSUME NEW k \in 1 .. Len(replies), NEW i, i = replies[k].id
          PROVE  i \in Ids' /\ replies[k].response \in Offered(i)'
      BY <3>1, <3>2, <3>3
    <3>4. QED
      BY <3>3 DEF Offered, IsMenu
  <2>2. (\A e \in 1 .. Len(enters) :
            /\ Sender(enters[e])
            /\ enters[e] \in Ids => ~IsMenu(asked[enters[e]]))'
    <3>1. ASSUME NEW e \in 1 .. Len(enters), NEW f, f = enters[e]
          PROVE  /\ Sender(f)'
                 /\ f \in Ids' => ~IsMenu(asked'[f])
      <4>1. Sender(f) /\ (f \in Ids => ~IsMenu(asked[f]))
        BY <3>1 DEF WayInv, Senders
      <4>2. f # a
        BY <1>7, <4>1
      <4>3. QED
        BY <1>4, <1>5, <4>1, <4>2
    <3>2. QED
      BY <3>1
  <2>3. QED
    BY <1>1, <1>5, <2>1, <2>2 DEF WayInv, Senders
<1>9. Numbered'
  BY <1>1, <1>4 DEF WayInv, Numbered
<1>10. Origins'
  <2>1. ASSUME NEW i \in Ids', asked'[i].n = screen.n
        PROVE  /\ asked'[i].sig = screen.sig
               /\ keys = <<>> => asked'[i].cursor = screen.cursor
    <3>1. CASE i \in Ids
      BY <1>4, <2>1, <3>1 DEF WayInv, Origins
    <3>2. CASE i = a
      <4>1. seen.n = screen.n /\ seen.n # 0
        BY <1>4, <2>1, <3>2, WayTypes DEF Prompt
      <4>2. screen # NoPrompt
        BY <4>1 DEF NoPrompt
      <4>3. /\ seen.sig = screen.sig
            /\ keys = <<>> => seen.cursor = screen.cursor
        BY <4>1, <4>2 DEF WayInv, Origins
      <4>4. QED
        BY <1>4, <3>2, <4>3
    <3>3. QED
      BY <1>4, <3>1, <3>2
  <2>2. QED
    BY <1>1, <2>1 DEF WayInv, Origins
<1>11. OnTheWay'
  <2>1. /\ \A i, o : MenuWay(i, o)' <=> MenuWay(i, o)
        /\ \A i : LineWay(i)' <=> LineWay(i)
    BY <1>1 DEF MenuWay, Pressed, LineWay
  <2>2. \A i \in Ids : Undisturbed(i)' <=> Undisturbed(i)
    BY <1>1, <1>4 DEF Undisturbed
  <2>3. ASSUME NEW i \in Ids', NEW r \in Response,
               Undisturbed(i)', Answered(i, r)', Writes(r)
        PROVE  IF IsMenu(screen) THEN MenuWay(i, r.option)' ELSE LineWay(i)'
    <3>1. Answered(i, r)
      BY <1>5, <2>3
    <3>2. i \in Ids
      BY <1>4, <1>6, <3>1
    <3>3. QED
      BY <2>1, <2>2, <2>3, <3>1, <3>2 DEF WayInv, OnTheWay
  <2>4. QED
    BY <1>1, <2>3 DEF OnTheWay
<1>12. Delivered'
  BY <1>1, <1>4, <1>5, DeliveredKept DEF WayInv
<1>13. QED
  BY <1>8, <1>9, <1>10, <1>11, <1>12 DEF WayInv

\* What is read of a way leaves the rest of it.
LEMMA MenuWayGoesOn ==
    ASSUME TypeOK, NEW i \in Ids, NEW o \in OptionIds, IsMenu(screen),
           input # <<>>, input' = Tail(input),
           MenuWay(i, o), input[1].from = i, input[1].key # "enter",
           screen' = Moved(screen, input[1].key)
    PROVE  MenuWay(i, o)'
<1>1. PICK c \in Nat : c = screen.cursor
  BY ScreenTyped DEF IsMenu
<1>2. o \in Nat /\ o >= 1 /\ o <= NOptions /\ NOptions \in Nat
  BY ProgramAssumption DEF OptionIds
<1> PICK arrow \in {"up", "down"}, n \in Nat :
           Toward(c, arrow, n, o) /\ Pressed(i, arrow, n)
  BY <1>1 DEF MenuWay
<1>3. PICK e \in 1 .. Len(input) :
            /\ n < e
            /\ input[e].key = "enter"
            /\ \A p \in 1 .. Len(input) :
                  /\ input[p].from = i <=> e - n <= p /\ p <= e
                  /\ input[p].from = i /\ p # e => input[p].key = arrow
  BY DEF Pressed
<1>4. /\ Len(input) \in Nat /\ Len(input) >= 1
      /\ Len(input') = Len(input) - 1
      /\ \A p \in 1 .. Len(input) - 1 : input'[p] = input[p + 1]
  <2>1. input \in Seq(Key)
    BY WayTypes
  <2>2. QED
    BY <2>1, TailAt
<1>5. 1 \in 1 .. Len(input) /\ e # 1 /\ e \in Nat
  BY <1>3, <1>4
<1>6. input[1].key = arrow /\ e - n <= 1
  BY <1>3, <1>5
<1>7. n = e - 1 /\ e > 1
  BY <1>3, <1>5, <1>6
<1>8. Toward(screen'.cursor, arrow, n - 1, o)
  <2>1. screen \in [n : Nat \ {0}, sig : Signatures, cursor : OptionIds,
                    echo : Nat]
    BY ScreenTyped DEF Prompt, IsMenu
  <2>2. CASE arrow = "down"
    <3>1. c + n = o /\ c < NOptions
      BY <1>2, <1>5, <1>7, <2>2 DEF Toward
    <3>2. screen' = [screen EXCEPT !.cursor = @ + 1]
      BY <1>1, <1>6, <2>2, <3>1 DEF Moved
    <3>3. screen'.cursor = c + 1
      BY <1>1, <2>1, <3>2
    <3>4. (c + 1) + (n - 1) = o
      BY <3>1
    <3>5. QED
      BY <2>2, <3>3, <3>4 DEF Toward
  <2>3. CASE arrow = "up"
    <3>1. o + n = c /\ c > 1
      BY <1>2, <1>5, <1>7, <2>3 DEF Toward
    <3>2. screen' = [screen EXCEPT !.cursor = @ - 1]
      BY <1>1, <1>6, <2>3, <3>1 DEF Moved
    <3>3. screen'.cursor = c - 1
      BY <1>1, <2>1, <3>2
    <3>4. o + (n - 1) = c - 1
      BY <1>2, <3>1
    <3>5. QED
      BY <2>3, <3>3, <3>4 DEF Toward
  <2>4. QED
    BY <2>2, <2>3
<1>9. PICK d \in Nat : d = e - 1 /\ e = d + 1
  <2>1. e - 1 \in Nat /\ e = (e - 1) + 1
    BY <1>5, <1>7
  <2>2. QED
    BY <2>1
<1>10. d \in 1 .. Len(input')
  <2>1. /\ e \in Nat /\ e <= Len(input) /\ e > 1 /\ d \in Nat /\ e = d + 1
        /\ Len(input) \in Nat /\ Len(input') = Len(input) - 1
    BY <1>3, <1>4, <1>7, <1>9
  <2>2. d >= 1 /\ d <= Len(input')
    BY <2>1
  <2>3. QED
    BY <2>1, <2>2
<1>11. n - 1 \in Nat /\ n - 1 < d /\ d - (n - 1) = 1
  BY <1>5, <1>7, <1>9
<1>12. input'[d].key = "enter"
  BY <1>3, <1>4, <1>9, <1>10
<1>13. ASSUME NEW p \in 1 .. Len(input')
       PROVE  /\ input'[p].from = i <=> 1 <= p /\ p <= d
              /\ input'[p].from = i /\ p # d => input'[p].key = arrow
  <2>1. PICK q \in 1 .. Len(input) : q = p + 1
    BY <1>4
  <2>2. input'[p] = input[q] /\ p \in Nat /\ p >= 1
    BY <1>4, <2>1
  <2>3. /\ input[q].from = i <=> e - n <= q /\ q <= e
        /\ input[q].from = i /\ q # e => input[q].key = arrow
    BY <1>3
  <2>4. (e - n <= q /\ q <= e) <=> (1 <= p /\ p <= d)
    BY <1>2, <1>6, <1>7, <1>9, <2>1, <2>2
  <2>5. q # e <=> p # d
    BY <1>9, <2>1, <2>2
  <2>6. QED
    BY <2>2, <2>3, <2>4, <2>5
<1>14. Pressed(i, arrow, n - 1)'
  BY <1>10, <1>11, <1>12, <1>13 DEF Pressed
<1>15. QED
  BY <1>8, <1>11, <1>14 DEF MenuWay

LEMMA LineWayGoesOn ==
    ASSUME TypeOK, NEW i \in Ids, input # <<>>, input' = Tail(input),
           LineWay(i), input[1].from = i, input[1].key # "enter",
           keys' = Append(keys, Head(input))
    PROVE  LineWay(i)'
<1>1. /\ Len(input) \in Nat /\ Len(input) >= 1 /\ Head(input) \in Key
      /\ Len(input') = Len(input) - 1
      /\ \A p \in 1 .. Len(input) - 1 : input'[p] = input[p + 1]
  <2>1. input \in Seq(Key)
    BY WayTypes
  <2>2. QED
    BY <2>1, TailAt
<1>2. 1 \in 1 .. Len(input)
  BY <1>1
<1>3. PICK p \in 1 .. Len(input) :
            /\ keys = <<>>
            /\ \A q \in 1 .. Len(input) :
                  input[q].from = i /\ q # p => q > p /\ input[q].key = "enter"
  BY <1>2 DEF LineWay
<1>4. p = 1
  BY <1>2, <1>3
<1>5. Len(keys') = 1
  <2>1. keys \in Seq(Key) /\ Len(keys) = 0
    BY <1>3, WayTypes
  <2>2. Len(keys') = Len(keys) + 1
    BY <1>1, <2>1, AppendAt
  <2>3. QED
    BY <2>1, <2>2
<1>6. ASSUME NEW q \in 1 .. Len(input'), input'[q].from = i
      PROVE  input'[q].key = "enter"
  <2>1. PICK m \in 1 .. Len(input) : m = q + 1
    BY <1>1
  <2>2. input'[q] = input[m] /\ m # 1
    BY <1>1, <2>1
  <2>3. QED
    BY <1>3, <1>4, <1>6, <2>2
<1>7. QED
  BY <1>5, <1>6 DEF LineWay

\* Where the way ends.
LEMMA MenuWayEnds ==
    ASSUME TypeOK, NEW i \in Ids, NEW o \in OptionIds, screen # NoPrompt,
           1 \in 1 .. Len(input), input[1].from = i, input[1].key = "enter",
           MenuWay(i, o)
    PROVE  o = screen.cursor
<1>1. PICK c \in Nat : c = screen.cursor
  BY ScreenTyped
<1>2. o \in Nat
  BY ProgramAssumption DEF OptionIds
<1> PICK arrow \in {"up", "down"}, d \in Nat :
           Toward(c, arrow, d, o) /\ Pressed(i, arrow, d)
  BY <1>1 DEF MenuWay
<1>3. PICK e \in 1 .. Len(input) :
            /\ d < e
            /\ \A p \in 1 .. Len(input) :
                  /\ input[p].from = i /\ p # e => input[p].key = arrow
  BY DEF Pressed
<1>4. e = 1 /\ d = 0
  BY <1>3
<1>5. QED
  BY <1>1, <1>2, <1>4 DEF Toward

\* An answer to a menu is an option.
LEMMA MenuAnswer ==
    ASSUME TypeOK, WayInv, NEW i \in Ids, NEW r \in Response,
           Answered(i, r), Writes(r), IsMenu(asked[i])
    PROVE  r.option \in OptionIds
<1>1. r \in Offered(i)
  BY DEF Answered, WayInv, Senders
<1>2. r.type = "options" /\ r.option # Unbound
  BY <1>1 DEF Offered, Writes
<1>3. QED
  BY <1>2 DEF Response

LEMMA SameKind ==
    ASSUME TypeOK, WayInv, NEW i \in Ids, asked[i].n = screen.n
    PROVE  IsMenu(screen) <=> IsMenu(asked[i])
<1>1. screen # NoPrompt
  BY UndisturbedShown
<1>2. QED
  BY <1>1, AskedTyped, NoPromptIsNone DEF WayInv, Origins, IsMenu

\* A key that moves the cursor, or is text.
LEMMA KeyKeepsWay ==
    ASSUME TypeOK, WayInv, TypeOK', ReadKey, UNCHANGED daemonVars,
           Head(input).key # "enter"
    PROVE  WayInv'
<1>1. /\ UNCHANGED <<seen, asked, enters, replies, taken, alive, prompts>>
      /\ screen # NoPrompt /\ input # <<>> /\ input' = Tail(input)
      /\ keys' = Append(keys, Head(input))
      /\ screen' = Moved(screen, Head(input).key)
  BY DEF ReadKey, daemonVars
<1>2. /\ \A f : Sender(f)' <=> Sender(f)
      /\ \A i, r : Answered(i, r)' <=> Answered(i, r)
      /\ \A i : Offered(i)' = Offered(i)
      /\ Ids' = Ids
  BY <1>1, SendersSame
<1>3. /\ Head(input) = input[1] /\ Head(input) \in Key
      /\ Sender(Head(input).from)
      /\ Len(input) \in Nat /\ Len(input) >= 1
      /\ \A p \in 1 .. Len(Tail(input)) : Sender(Tail(input)[p].from)
  BY <1>1, TailSenders DEF WayInv
<1>4. /\ Len(keys) \in Nat /\ Len(keys') = Len(keys) + 1
      /\ \A k \in 1 .. Len(keys) : keys'[k] = keys[k]
      /\ keys'[Len(keys) + 1] = Head(input)
  <2>1. keys \in Seq(Key)
    BY WayTypes
  <2>2. QED
    BY <1>1, <1>3, <2>1, AppendAt
<1>5. keys' # <<>>
  BY <1>4
<1>6. /\ screen' # NoPrompt /\ screen'.n = screen.n /\ screen'.sig = screen.sig
      /\ IsMenu(screen)' <=> IsMenu(screen)
  <2>1. screen \in [n : Nat \ {0}, sig : Signatures, cursor : OptionIds,
                    echo : Nat]
    BY <1>1, ScreenTyped DEF Prompt
  <2>2. screen'.n = screen.n /\ screen'.sig = screen.sig
    BY <1>1, <2>1 DEF Moved
  <2>3. screen' # NoPrompt
    BY <1>1, <2>2, ScreenTyped DEF NoPrompt
  <2>4. QED
    BY <1>1, <2>2, <2>3 DEF IsMenu
<1>7. Senders'
  <2>1. (\A p \in 1 .. Len(input) : Sender(input[p].from))'
    BY <1>1, <1>2, <1>3
  <2>2. (\A k \in 1 .. Len(keys) : Sender(keys[k].from))'
    <3>1. ASSUME NEW k \in 1 .. Len(keys'), NEW f, f = keys'[k].from
          PROVE  Sender(f)
      <4>1. CASE k \in 1 .. Len(keys)
        BY <1>4, <3>1, <4>1 DEF WayInv, Senders
      <4>2. CASE k = Len(keys) + 1
        BY <1>3, <1>4, <3>1, <4>2
      <4>3. QED
        BY <1>4, <4>1, <4>2
    <3>2. QED
      BY <1>2, <3>1
  <2>3. QED
    BY <1>1, <1>2, <2>1, <2>2 DEF WayInv, Senders, Offered, IsMenu
<1>8. Numbered'
  BY <1>1, <1>2, <1>5, <1>6 DEF WayInv, Numbered
<1>9. Origins'
  BY <1>1, <1>2, <1>5, <1>6 DEF WayInv, Origins
<1>10. Delivered'
  BY <1>1, <1>2, DeliveredKept DEF WayInv
<1>11. ASSUME NEW i \in Ids, NEW r \in Response,
              Undisturbed(i)', Answered(i, r), Writes(r)
       PROVE  IF IsMenu(screen) THEN MenuWay(i, r.option)' ELSE LineWay(i)'
  <2>1. \A k \in 1 .. Len(keys') : keys'[k].from = i
    BY <1>11 DEF Undisturbed
  <2>2. asked[i].n = screen.n
    BY <1>1, <1>6, <1>11 DEF Undisturbed
  <2>3. Undisturbed(i)
    BY <1>4, <2>1, <2>2 DEF Undisturbed
  <2>4. input[1].from = i /\ input[1].key # "enter"
    BY <1>3, <1>4, <2>1
  <2>5. CASE IsMenu(screen)
    <3>1. PICK o \in OptionIds : o = r.option
      BY <1>11, <2>2, <2>5, SameKind, MenuAnswer
    <3>2. MenuWay(i, o)
      BY <1>11, <2>3, <2>5, <3>1 DEF WayInv, OnTheWay
    <3>3. MenuWay(i, o)'
      BY <1>1, <1>3, <2>4, <2>5, <3>2, MenuWayGoesOn
    <3>4. QED
      BY <2>5, <3>1, <3>3
  <2>6. CASE ~IsMenu(screen)
    <3>1. LineWay(i)
      BY <1>11, <2>3, <2>6 DEF WayInv, OnTheWay
    <3>2. LineWay(i)'
      BY <1>1, <2>4, <3>1, LineWayGoesOn
    <3>3. QED
      BY <2>6, <3>2
  <2>7. QED
    BY <2>5, <2>6
<1>12. OnTheWay'
  BY <1>2, <1>6, <1>11 DEF OnTheWay
<1>13. QED
  BY <1>7, <1>8, <1>9, <1>10, <1>12 DEF WayInv

\* Enter: what the prompt is closed with is what was answered.
LEMMA EnterKeepsWay ==
    ASSUME TypeOK, WayInv, TypeOK', ReadKey, UNCHANGED daemonVars,
           Head(input).key = "enter"
    PROVE  WayInv'
<1>1. PICK t : t = [prompt |-> screen, keys |-> Append(keys, Head(input))]
  OBVIOUS
<1>2. /\ UNCHANGED <<seen, asked, enters, replies, alive, prompts>>
      /\ screen # NoPrompt /\ input # <<>> /\ input' = Tail(input)
      /\ screen' = NoPrompt /\ keys' = <<>> /\ taken' = Append(taken, t)
  BY <1>1 DEF ReadKey, daemonVars
<1>3. /\ \A f : Sender(f)' <=> Sender(f)
      /\ \A i, r : Answered(i, r)' <=> Answered(i, r)
      /\ \A i : Offered(i)' = Offered(i)
      /\ Ids' = Ids
  BY <1>2, SendersSame
<1>4. /\ Head(input) = input[1] /\ Head(input) \in Key
      /\ Sender(Head(input).from)
      /\ Len(input) \in Nat /\ Len(input) >= 1
      /\ \A p \in 1 .. Len(Tail(input)) : Sender(Tail(input)[p].from)
  BY <1>2, TailSenders DEF WayInv
<1>5. /\ t.prompt = screen /\ t.keys \in Seq(Key)
      /\ Len(keys) \in Nat /\ Len(t.keys) = Len(keys) + 1
      /\ \A k \in 1 .. Len(keys) : t.keys[k] = keys[k]
      /\ t.keys[Len(keys) + 1] = input[1]
  <2>1. keys \in Seq(Key)
    BY WayTypes
  <2>2. t.prompt = screen /\ t.keys = Append(keys, Head(input))
    BY <1>1
  <2>3. QED
    BY <1>4, <2>1, <2>2, AppendAt
<1>6. /\ Len(taken) \in Nat /\ Len(taken') = Len(taken) + 1
      /\ \A k \in 1 .. Len(taken) : taken'[k] = taken[k]
      /\ taken'[Len(taken) + 1] = t
  <2>1. taken \in Seq(Taken) /\ screen \in Prompt
    BY <1>2, WayTypes
  <2>2. t \in Taken
    BY <1>1, <1>5, <2>1 DEF Taken
  <2>3. QED
    BY <1>2, <2>1, <2>2, AppendAt
<1>7. \A k : k \in 1 .. Len(taken') <=>
                k \in 1 .. Len(taken) \/ k = Len(taken) + 1
  BY <1>6
<1>8. \A j \in 1 .. Len(t.keys) : Sender(t.keys[j].from)
  <2>1. ASSUME NEW j \in 1 .. Len(t.keys) PROVE Sender(t.keys[j].from)
    <3>1. CASE j \in 1 .. Len(keys)
      BY <1>5, <3>1 DEF WayInv, Senders
    <3>2. CASE j = Len(keys) + 1
      BY <1>4, <1>5, <3>2
    <3>3. QED
      BY <1>5, <3>1, <3>2
  <2>2. QED
    BY <2>1
<1>9. Senders'
  <2>1. (\A p \in 1 .. Len(input) : Sender(input[p].from))'
    BY <1>2, <1>3, <1>4
  <2>2. (\A k \in 1 .. Len(keys) : Sender(keys[k].from))'
    <3>1. Len(keys') = 0
      BY <1>2
    <3>2. QED
      BY <3>1
  <2>3. (\A k \in 1 .. Len(taken) :
            \A j \in 1 .. Len(taken[k].keys) : Sender(taken[k].keys[j].from))'
    <3>1. ASSUME NEW k \in 1 .. Len(taken'), NEW s, s = taken'[k],
                 NEW j \in 1 .. Len(s.keys)
          PROVE  Sender(s.keys[j].from)
      <4>1. CASE k \in 1 .. Len(taken)
        BY <1>6, <3>1, <4>1 DEF WayInv, Senders
      <4>2. CASE k = Len(taken) + 1
        BY <1>6, <1>8, <3>1, <4>2
      <4>3. QED
        BY <1>7, <4>1, <4>2
    <3>2. QED
      BY <1>3, <3>1
  <2>4. QED
    BY <1>2, <1>3, <2>1, <2>2, <2>3 DEF WayInv, Senders, Offered, IsMenu
<1>10. Numbered'
  BY <1>2, <1>3 DEF WayInv, Numbered
<1>11. Origins'
  <2>1. (\A i \in Ids : asked[i].n \in Nat \ {0})'
    BY AskedLater
  <2>2. QED
    BY <1>2, <2>1 DEF Origins, NoPrompt
<1>12. OnTheWay'
  BY <1>2, NoneKeepsWay
<1>13. ASSUME NEW i \in Ids, Sources(t) = {i}, asked[i].n = screen.n
       PROVE  \E r \in Response :
                 /\ Answered(i, r)
                 /\ IF IsMenu(screen) THEN r.option = screen.cursor
                    ELSE Len(t.keys) = 2
  <2>1. \A j \in 1 .. Len(t.keys) : t.keys[j].from = i
    BY <1>13 DEF Sources
  <2>2. Undisturbed(i)
    BY <1>5, <1>13, <2>1 DEF Undisturbed
  <2>3. 1 \in 1 .. Len(input) /\ input[1].from = i /\ input[1].key = "enter"
    BY <1>4, <1>5, <2>1
  <2>4. PICK r \in Response : Answered(i, r) /\ Writes(r)
    <3>1. i # Terminal
      BY AskedTyped DEF Terminal
    <3>2. Sender(i)
      BY <1>4, <2>3
    <3>3. QED
      BY <3>1, <3>2 DEF Sender
  <2>5. CASE IsMenu(screen)
    <3>1. PICK o \in OptionIds : o = r.option
      BY <1>13, <2>4, <2>5, SameKind, MenuAnswer
    <3>2. MenuWay(i, o)
      BY <2>2, <2>4, <2>5, <3>1 DEF WayInv, OnTheWay
    <3>3. o = screen.cursor
      BY <1>2, <2>3, <3>2, MenuWayEnds
    <3>4. QED
      BY <2>4, <2>5, <3>1, <3>3
  <2>6. CASE ~IsMenu(screen)
    <3>1. LineWay(i)
      BY <2>2, <2>4, <2>6 DEF WayInv, OnTheWay
    <3>2. Len(keys) = 1
      BY <2>3, <3>1 DEF LineWay
    <3>3. QED
      BY <1>5, <2>4, <2>6, <3>2
  <2>7. QED
    BY <2>5, <2>6
<1>14. Delivered'
  <2>1. ASSUME NEW k \in 1 .. Len(taken'), NEW s, s = taken'[k], NEW i \in Ids,
               Sources(s) = {i}, asked[i].n = s.prompt.n
        PROVE  \E r \in Response :
                  /\ Answered(i, r)
                  /\ IF IsMenu(s.prompt) THEN r.option = s.prompt.cursor
                     ELSE Len(s.keys) = 2
    <3>1. CASE k \in 1 .. Len(taken)
      <4>1. s = taken[k]
        BY <1>6, <2>1, <3>1
      <4>2. QED
        BY <2>1, <3>1, <4>1 DEF WayInv, Delivered
    <3>2. CASE k = Len(taken) + 1
      <4>1. s = t /\ s.prompt = screen
        BY <1>5, <1>6, <2>1, <3>2
      <4>2. QED
        BY <1>13, <2>1, <4>1
    <3>3. QED
      BY <1>7, <3>1, <3>2
  <2>2. QED
    BY <1>2, <1>3, <2>1 DEF Delivered
<1>15. QED
  BY <1>9, <1>10, <1>11, <1>12, <1>14 DEF WayInv

LEMMA ProgramKeepsWay ==
    ASSUME TypeOK, WayInv, TypeOK', ProgramNext, UNCHANGED daemonVars
    PROVE  WayInv'
<1>1. CASE \E sig \in Signatures, c \in OptionIds : ShowPrompt(sig, c)
  BY <1>1, ShowKeepsWay
<1>2. CASE Withdraw
  BY <1>2, GoneKeepsWay DEF Withdraw
<1>3. CASE Redraw
  BY <1>3, ReadKeepsWay DEF Redraw, daemonVars
<1>4. CASE ReadKey
  BY <1>4, KeyKeepsWay, EnterKeepsWay
<1>5. CASE DropKey
  BY <1>5, DropKeepsWay
<1>6. CASE Quit
  <2>1. /\ UNCHANGED <<prompts, taken>> /\ screen' = NoPrompt
        /\ keys' = <<>> /\ input' = <<>>
    BY <1>6 DEF Quit
  <2>2. QED
    BY <2>1, GoneKeepsWay
<1>7. QED
  BY <1>1, <1>2, <1>3, <1>4, <1>5, <1>6 DEF ProgramNext

\* The Enter of a text, of its answer or of the terminal.
LEMMA SubmitKeepsWay ==
    ASSUME TypeOK, WayInv, TypeOK', SubmitEnter
    PROVE  WayInv'
<1>1. /\ UNCHANGED <<screen, keys, prompts, taken, alive, seen, asked, replies>>
      /\ enters # <<>> /\ enters' = Tail(enters)
  BY DEF SubmitEnter
<1>2. /\ Head(enters) = enters[1] /\ Head(enters) \in Nat
      /\ Len(enters) \in Nat /\ Len(enters) >= 1
      /\ Len(enters') = Len(enters) - 1
      /\ \A k \in 1 .. Len(enters) - 1 : enters'[k] = enters[k + 1]
  <2>1. enters \in Seq(Nat)
    BY WayTypes
  <2>2. QED
    BY <1>1, <2>1, TailAt
<1>3. ASSUME NEW k \in 1 .. Len(enters), NEW f, f = enters[k]
      PROVE  Sender(f) /\ (f \in Ids => ~IsMenu(asked[f]))
  BY <1>3 DEF WayInv, Senders
<1>4. \A e \in 1 .. Len(enters') :
         /\ Sender(enters'[e])
         /\ enters'[e] \in Ids => ~IsMenu(asked[enters'[e]])
  <2>1. ASSUME NEW e \in 1 .. Len(enters'), NEW f, f = enters'[e]
        PROVE  Sender(f) /\ (f \in Ids => ~IsMenu(asked[f]))
    <3>1. e + 1 \in 1 .. Len(enters) /\ f = enters[e + 1]
      BY <1>2, <2>1
    <3>2. QED
      BY <1>3, <3>1
  <2>2. QED
    BY <2>1
<1>5. CASE running
  <2>1. PICK f \in Nat : f = Head(enters)
    BY <1>2
  <2>2. Sender(f) /\ (f \in Ids => ~IsMenu(asked[f]))
    BY <1>2, <1>3, <2>1
  <2>3. PICK ks : ks = <<[key |-> "enter", from |-> f]>>
    OBVIOUS
  <2>4. ks \in Seq(Key)
    BY <2>3, KeyTyped
  <2>5. Len(ks) = 1 /\ ks[1].key = "enter" /\ ks[1].from = f
    BY <2>3
  <2>6. Write(ks)
    BY <1>5, <2>1, <2>3 DEF SubmitEnter
  <2>7. \A k \in 1 .. Len(ks) :
           /\ Sender(ks[k].from)
           /\ ks[k].from \in Ids => /\ ks[k].key = "enter"
                                    /\ ~IsMenu(asked[ks[k].from])
    BY <2>2, <2>5
  <2>8. QED
    BY <1>1, <1>4, <2>4, <2>6, <2>7, WriteKeepsWay
<1>6. CASE ~running
  <2>1. input' = input
    BY <1>6 DEF SubmitEnter
  <2>2. <<>> \in Seq(Key) /\ input \o <<>> = input
    BY WayTypes, EmptySeq, ConcatEmptySeq
  <2>3. Write(<<>>) /\ Len(<<>>) = 0
    BY <2>1, <2>2 DEF Write
  <2>4. QED
    <3>1. PICK ks \in Seq(Key) : Write(ks) /\ Len(ks) = 0
      BY <2>2, <2>3
    <3>2. \A k \in 1 .. Len(ks) :
             /\ Sender(ks[k].from)
             /\ ks[k].from \in Ids => /\ ks[k].key = "enter"
                                      /\ ~IsMenu(asked[ks[k].from])
      BY <3>1
    <3>3. QED
      BY <1>1, <1>4, <3>1, <3>2, WriteKeepsWay
<1>7. QED
  BY <1>5, <1>6

\* What is typed at the terminal is the terminal's.
LEMMA TypedKeepsWay ==
    ASSUME TypeOK, WayInv, TypeOK',
           UNCHANGED <<screen, keys, prompts, taken, alive, seen, asked, replies>>,
           NEW key \in {"up", "down", "enter", "text"},
           Write(<<[key |-> key, from |-> Terminal]>>),
           enters' = enters \/ enters' = Append(enters, Terminal)
    PROVE  WayInv'
<1>1. PICK ks : ks = <<[key |-> key, from |-> Terminal]>>
  OBVIOUS
<1>2. ks \in Seq(Key)
  BY <1>1, KeyTyped DEF Terminal
<1>3. Len(ks) = 1 /\ ks[1].from = Terminal
  BY <1>1
<1>4. Sender(Terminal) /\ Terminal \notin Ids
  BY DEF Sender, Terminal, Ids
<1>5. \A k \in 1 .. Len(ks) :
         /\ Sender(ks[k].from)
         /\ ks[k].from \in Ids => /\ ks[k].key = "enter"
                                  /\ ~IsMenu(asked[ks[k].from])
  BY <1>3, <1>4
<1>6. \A e \in 1 .. Len(enters') :
         /\ Sender(enters'[e])
         /\ enters'[e] \in Ids => ~IsMenu(asked[enters'[e]])
  <2>1. CASE enters' = enters
    BY <2>1 DEF WayInv, Senders
  <2>2. CASE enters' = Append(enters, Terminal)
    <3>1. enters \in Seq(Nat) /\ Terminal \in Nat
      BY WayTypes DEF Terminal
    <3>2. /\ Len(enters) \in Nat /\ Len(enters') = Len(enters) + 1
          /\ \A k \in 1 .. Len(enters) : enters'[k] = enters[k]
          /\ enters'[Len(enters) + 1] = Terminal
      BY <2>2, <3>1, AppendAt
    <3>3. ASSUME NEW e \in 1 .. Len(enters'), NEW f, f = enters'[e]
          PROVE  Sender(f) /\ (f \in Ids => ~IsMenu(asked[f]))
      <4>1. CASE e \in 1 .. Len(enters)
        <5>1. f = enters[e]
          BY <3>2, <3>3, <4>1
        <5>2. QED
          BY <4>1, <5>1 DEF WayInv, Senders
      <4>2. CASE e = Len(enters) + 1
        BY <1>4, <3>2, <3>3, <4>2
      <4>3. QED
        BY <3>2, <4>1, <4>2
    <3>4. QED
      BY <3>3
  <2>3. QED
    BY <2>1, <2>2
<1>7. Write(ks)
  BY <1>1
<1>8. QED
  BY <1>2, <1>5, <1>6, <1>7, WriteKeepsWay

LEMMA DetectKeepsWay ==
    ASSUME TypeOK, WayInv, TypeOK', Detect
    PROVE  WayInv'
<1>1. UNCHANGED <<programVars, seen, enters, replies>>
  BY DEF Detect
<1>2. asked' = asked \/ (seen # NoPrompt /\ Register(seen))
  BY DEF Detect
<1>3. CASE asked' = asked
  BY <1>1, <1>3, ReadKeepsWay DEF programVars
<1>4. CASE seen # NoPrompt /\ Register(seen)
  BY <1>1, <1>4, RegisterKeepsWay
<1>5. QED
  BY <1>2, <1>3, <1>4

LEMMA WayStep ==
    ASSUME TypeOK, EventsTellActive, RepliesInv, WayInv, TypeOK', [Next]_vars
    PROVE  WayInv'
<1>1. CASE ProgramNext /\ UNCHANGED <<daemonVars, typed>>
  BY <1>1, ProgramKeepsWay
<1>2. CASE ReadOutput
  BY <1>2, ReadKeepsWay DEF ReadOutput
<1>3. CASE Detect
  BY <1>3, DetectKeepsWay
<1>4. CASE SubmitEnter
  BY <1>4, SubmitKeepsWay
<1>5. CASE NoticeExit
  BY <1>5, ReadKeepsWay DEF NoticeExit, programVars
<1>6. CASE InputText
  BY <1>6, TypedKeepsWay DEF InputText, DeliverText
<1>7. ASSUME NEW key \in TypedKeys, Type(key) PROVE WayInv'
  <2>1. key \in {"up", "down", "enter", "text"}
    BY InteractionsAssumption
  <2>2. QED
    BY <1>7, <2>1, TypedKeepsWay DEF Type, daemonVars
<1>8. ASSUME NEW i \in Ids, NEW r \in Response, Respond(i, r) PROVE WayInv'
  BY <1>8, RespondKeepsWay
<1>9. CASE UNCHANGED vars
  BY <1>9, ReadKeepsWay DEF vars, programVars, daemonVars
<1>10. QED
  BY <1>1, <1>2, <1>3, <1>4, <1>5, <1>6, <1>7, <1>8, <1>9 DEF Next

LEMMA WayInit == Init => WayInv
<1> SUFFICES ASSUME Init PROVE WayInv
  OBVIOUS
<1>1. /\ screen = NoPrompt /\ keys = <<>> /\ prompts = 0 /\ taken = <<>>
      /\ input = <<>> /\ seen = NoPrompt /\ asked = <<>> /\ enters = <<>>
      /\ replies = <<>>
  BY DEF Init, ProgramInit
<1>2. /\ 1 .. Len(input) = {} /\ 1 .. Len(keys) = {} /\ 1 .. Len(enters) = {}
      /\ 1 .. Len(taken) = {} /\ 1 .. Len(replies) = {} /\ Ids = {}
  BY <1>1 DEF Ids
<1>3. Senders /\ OnTheWay /\ Delivered
  BY <1>2 DEF Senders, OnTheWay, Delivered
<1>4. Numbered /\ Origins
  BY <1>1, <1>2 DEF Numbered, Origins, NoPrompt
<1>5. QED
  BY <1>3, <1>4 DEF WayInv

\* The only answer to i is the one that was given.
LEMMA AnswerIsUnique ==
    ASSUME RepliesInv, NEW i, NEW r, Answered(i, r)
    PROVE  AnswerOf(i) = r
<1>1. PICK k \in 1 .. Len(replies) : replies[k].id = i /\ replies[k].response = r
  BY DEF Answered
<1>2. \A j \in 1 .. Len(replies) : replies[j].id = i => j = k
  BY <1>1 DEF RepliesInv
<1>3. (CHOOSE j \in 1 .. Len(replies) : replies[j].id = i) = k
  BY <1>1, <1>2
<1>4. QED
  BY <1>1, <1>3 DEF AnswerOf

\* An answer that has its prompt to itself closes it as answered: with the
\* option chosen on the phone, wherever the cursor was when the interaction was
\* made, or with the one text (option_bytes, _deliver_text, _submit_enter).
THEOREM AnswerIsTaken == Spec => []AnswersTaken
<1>1. Init => TypeOK /\ EventsTellActive /\ RepliesInv /\ WayInv
  BY TypesInit, TellsInit, RepliesInit, WayInit
<1>2. TypeOK /\ EventsTellActive /\ RepliesInv /\ WayInv /\ [Next]_vars
         => (TypeOK /\ EventsTellActive /\ RepliesInv /\ WayInv)'
  BY TypesStep, TellsStep, RepliesStep, WayStep
<1>3. RepliesInv /\ WayInv => AnswersTaken
  BY AnswerIsUnique DEF WayInv, Delivered, AnswersTaken
<1>4. QED
  BY <1>1, <1>2, <1>3, PTL DEF Spec
=============================================================================
