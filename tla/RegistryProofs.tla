---------------------------- MODULE RegistryProofs ----------------------------
(***************************************************************************)
(* Theorems about SessionRegistry for every set of sessions, every size of *)
(* the buffers and any number of outputs, interactions and restarts.       *)
(***************************************************************************)
EXTENDS SessionRegistry, SequenceTheorems, TLAPS

\* Emitting typed events keeps the queue typed.
LEMMA EventsTyped ==
    ASSUME NEW name \in EventNames, NEW s \in Sessions, NEW n \in Nat,
           NEW st \in Status
    PROVE  Ev(name, s, n, st) \in Event
  BY DEF Ev, Event

LEMMA EmitTyped ==
    ASSUME NEW evs \in Seq(Event), events \in Seq(Event), Emit(evs)
    PROVE  events' \in Seq(Event)
  BY ConcatProperties DEF Emit

LEMMA OneEvent ==
    ASSUME NEW e \in Event
    PROVE  <<e>> \in Seq(Event)
  OBVIOUS

LEMMA StatusValues ==
    /\ {"absent", "gone", "starting", "running", "waiting", "stopped"} = Status
    /\ Live = {"starting", "running", "waiting", "stopped"}
  BY DEF Status, Live

LEMMA ResolvedEventsTyped ==
    ASSUME RegistryTypeOK, NEW s \in Sessions
    PROVE  ResolvedEvents(s) \in Seq(Event)
<1>1. /\ Ev("interaction.resolved", s, active[s], status[s]) \in Event
      /\ Ev("session.updated", s, 0, "running") \in Event
  BY EventsTyped, StatusValues DEF RegistryTypeOK, EventNames
<1>2. QED
  BY <1>1 DEF ResolvedEvents

LEMMA RequestedEventsTyped ==
    ASSUME RegistryTypeOK, NEW s \in Sessions
    PROVE  RequestedEvents(s) \in Seq(Event)
<1>1. /\ Ev("interaction.requested", s, lastId + 1, "waiting") \in Event
      /\ Ev("session.updated", s, 0, "waiting") \in Event
  BY EventsTyped, StatusValues DEF RegistryTypeOK, EventNames
<1>2. QED
  BY <1>1 DEF RequestedEvents

LEMMA RetainedTyped ==
    ASSUME NEW b \in Seq(Nat), NEW n \in Nat
    PROVE  Retained(Append(b, n)) \in Seq(Nat)
<1>1. Append(b, n) \in Seq(Nat) /\ Append(b, n) # <<>>
  BY AppendProperties
<1>2. Tail(Append(b, n)) \in Seq(Nat)
  BY <1>1, HeadTailProperties
<1>3. QED
  BY <1>1, <1>2 DEF Retained

\* Every step of the daemon keeps the types.
LEMMA RegistryTypeStep ==
    ASSUME RegistryTypeOK, DaemonStep \/ DaemonRestart
    PROVE  RegistryTypeOK'
<1> USE StatusValues DEF RegistryTypeOK
<1>1. ASSUME NEW s \in Sessions, Launch(s) PROVE RegistryTypeOK'
  BY <1>1 DEF Launch
<1>2. ASSUME NEW s \in Sessions, Announce(s) PROVE RegistryTypeOK'
  <2>1. Ev("session.created", s, 0, status[s]) \in Event
    BY EventsTyped DEF EventNames
  <2>2. events' \in Seq(Event)
    BY <1>2, <2>1, OneEvent, EmitTyped DEF Announce
  <2>3. QED
    BY <1>2, <2>2 DEF Announce
<1>3. ASSUME NEW s \in Sessions, LaunchFails(s) PROVE RegistryTypeOK'
  BY <1>3 DEF LaunchFails
<1>4. ASSUME NEW s \in Sessions, Cleanup(s) PROVE RegistryTypeOK'
  BY <1>4 DEF Cleanup
<1>5. ASSUME NEW s \in Sessions, Output(s) PROVE RegistryTypeOK'
  <2>1. Ev("terminal.output", s, seq + 1, status[s]) \in Event
    BY EventsTyped DEF EventNames
  <2>2. events' \in Seq(Event)
    BY <1>5, <2>1, OneEvent, EmitTyped DEF Output
  <2>3. buffer' \in [Sessions -> Seq(Nat)]
    <3>1. Retained(Append(buffer[s], seq + 1)) \in Seq(Nat)
      BY RetainedTyped
    <3>2. QED
      BY <1>5, <3>1 DEF Output
  <2>4. written' \in [Sessions -> Seq(Nat)]
    <3>1. Append(written[s], seq + 1) \in Seq(Nat)
      BY AppendProperties
    <3>2. QED
      BY <1>5, <3>1 DEF Output
  <2>5. QED
    BY <1>5, <2>2, <2>3, <2>4 DEF Output
<1>6. ASSUME NEW s \in Sessions, Resolve(s) PROVE RegistryTypeOK'
  <2>1. events' \in Seq(Event)
    BY <1>6, ResolvedEventsTyped, EmitTyped DEF Resolve
  <2>2. QED
    BY <1>6, <2>1 DEF Resolve
<1>7. ASSUME NEW s \in Sessions, Detect(s) PROVE RegistryTypeOK'
  <2>1. (IF active[s] = 0 THEN <<>> ELSE ResolvedEvents(s)) \in Seq(Event)
    BY ResolvedEventsTyped
  <2>2. (IF active[s] = 0 THEN <<>> ELSE ResolvedEvents(s))
           \o RequestedEvents(s) \in Seq(Event)
    BY <2>1, RequestedEventsTyped, ConcatProperties
  <2>3. events' \in Seq(Event)
    BY <1>7, <2>2, EmitTyped DEF Detect
  <2>4. QED
    BY <1>7, <2>3 DEF Detect
<1>8. ASSUME NEW s \in Sessions, Exit(s) PROVE RegistryTypeOK'
  <2>1. /\ Ev("interaction.resolved", s, active[s], status[s]) \in Event
        /\ Ev("session.ended", s, 0, "stopped") \in Event
    BY EventsTyped DEF EventNames
  <2>2. (IF active[s] = 0 THEN <<>>
         ELSE <<Ev("interaction.resolved", s, active[s], status[s])>>)
           \in Seq(Event)
    BY <2>1
  <2>3. (IF active[s] = 0 THEN <<>>
         ELSE <<Ev("interaction.resolved", s, active[s], status[s])>>)
           \o <<Ev("session.ended", s, 0, "stopped")>> \in Seq(Event)
    BY <2>1, <2>2, OneEvent, ConcatProperties
  <2>4. events' \in Seq(Event)
    BY <1>8, <2>3, EmitTyped DEF Exit
  <2>5. QED
    BY <1>8, <2>4 DEF Exit
<1>9. CASE DaemonRestart
  BY <1>9 DEF DaemonRestart
<1>10. QED
  BY <1>1, <1>2, <1>3, <1>4, <1>5, <1>6, <1>7, <1>8, <1>9 DEF DaemonStep

\* Types of the registry and of the events it emits.
THEOREM RegistryTyped == RegistrySpec => []RegistryTypeOK
<1>1. RegistryInit => RegistryTypeOK
  BY DEF RegistryInit, RegistryTypeOK, Status
<1>2. RegistryTypeOK /\ [RegistryNext]_daemonVars => RegistryTypeOK'
  <2>1. CASE RegistryNext
    BY <2>1, RegistryTypeStep DEF RegistryNext
  <2>2. CASE UNCHANGED daemonVars
    BY <2>2 DEF daemonVars, RegistryTypeOK
  <2>3. QED
    BY <2>1, <2>2
<1>3. QED
  BY <1>1, <1>2, PTL DEF RegistrySpec

-----------------------------------------------------------------------------
(* The buffer is a suffix of the history, pointwise, and seqs rise.        *)

Window(b, w) ==
    /\ Len(b) = IF Len(w) < MaxBuffer THEN Len(w) ELSE MaxBuffer
    /\ \A i \in 1 .. Len(b) : b[i] = w[Len(w) - Len(b) + i]

Rising(w, top) ==
    /\ \A i \in 1 .. Len(w) : w[i] <= top
    /\ \A i, j \in 1 .. Len(w) : i < j => w[i] < w[j]

Started(s) == status[s] \in {"running", "waiting", "stopped"}

\* A session that never started has put nothing out; a started one has a
\* window of what it put out, in the order of seq.
BufferInv ==
    /\ \A s \in Sessions : status[s] \in {"absent", "starting"} =>
            buffer[s] = <<>> /\ written[s] = <<>>
    /\ \A s \in Sessions : Started(s) =>
            Window(buffer[s], written[s]) /\ Rising(written[s], seq)

RegistryInv == RegistryTypeOK /\ WaitingHasInteraction /\ BufferInv

LEMMA EmptyWindow == Window(<<>>, <<>>) /\ \A n \in Nat : Rising(<<>>, n)
  BY RegistryAssumption DEF Window, Rising

\* Append on seqs, at the one type it is used with.
LEMMA AppendNat ==
    ASSUME NEW b \in Seq(Nat), NEW n \in Nat
    PROVE  /\ Append(b, n) \in Seq(Nat) /\ Append(b, n) # <<>>
           /\ Len(b) \in Nat /\ Len(Append(b, n)) = Len(b) + 1
           /\ \A i \in 1 .. Len(b) : Append(b, n)[i] = b[i]
           /\ Append(b, n)[Len(b) + 1] = n
  BY AppendProperties, LenProperties

\* append_output keeps the window.
LEMMA WindowAppend ==
    ASSUME NEW b \in Seq(Nat), NEW w \in Seq(Nat), NEW n \in Nat, Window(b, w)
    PROVE  Window(Retained(Append(b, n)), Append(w, n))
<1>0. PICK c, v : c = Append(b, n) /\ v = Append(w, n)
  OBVIOUS
<1>1. /\ c \in Seq(Nat) /\ c # <<>> /\ Len(c) = Len(b) + 1
      /\ \A i \in 1 .. Len(b) : c[i] = b[i]
      /\ c[Len(b) + 1] = n
  BY <1>0, AppendNat
<1>2. /\ v \in Seq(Nat) /\ Len(v) = Len(w) + 1
      /\ \A i \in 1 .. Len(w) : v[i] = w[i]
      /\ v[Len(w) + 1] = n
  BY <1>0, AppendNat
<1>3. /\ Len(Tail(c)) = Len(c) - 1
      /\ \A i \in 1 .. Len(Tail(c)) : Tail(c)[i] = c[i + 1]
  BY <1>1, HeadTailProperties
<1>4. /\ Len(b) \in Nat /\ Len(w) \in Nat /\ Len(b) <= Len(w)
      /\ Len(b) <= MaxBuffer
  BY LenProperties, RegistryAssumption DEF Window
<1>5. \A i \in 1 .. Len(c) : c[i] = v[Len(v) - Len(c) + i]
  <2> SUFFICES ASSUME NEW i \in 1 .. Len(c)
               PROVE  c[i] = v[Len(v) - Len(c) + i]
    OBVIOUS
  <2>1. CASE i = Len(c)
    BY <2>1, <1>1, <1>2, <1>4
  <2>2. CASE i # Len(c)
    <3>1. i \in 1 .. Len(b)
      BY <2>2, <1>1, <1>4
    <3>2. c[i] = w[Len(w) - Len(b) + i]
      BY <3>1, <1>1 DEF Window
    <3>3. Len(w) - Len(b) + i \in 1 .. Len(w)
      BY <3>1, <1>4
    <3>4. Len(v) - Len(c) + i = Len(w) - Len(b) + i
      BY <3>1, <1>1, <1>2, <1>4
    <3>5. QED
      BY <3>2, <3>3, <3>4, <1>2
  <2>3. QED
    BY <2>1, <2>2
<1>6. CASE Len(c) > MaxBuffer
  <2>1. Retained(c) = Tail(c)
    BY <1>6 DEF Retained
  <2>2. Len(b) = MaxBuffer /\ Len(w) >= MaxBuffer
    BY <1>6, <1>1, <1>4, RegistryAssumption DEF Window
  <2>3. PICK t : t = Tail(c)
    OBVIOUS
  <2>4. /\ Len(t) = Len(b)
        /\ \A i \in 1 .. Len(t) : t[i] = c[i + 1]
    BY <2>3, <1>1, <1>3, <1>4
  <2>5. ASSUME NEW i \in 1 .. Len(t)
        PROVE  t[i] = v[Len(v) - Len(t) + i]
    <3>1. t[i] = c[i + 1] /\ i + 1 \in 1 .. Len(c)
      BY <2>4, <1>1, <1>4
    <3>2. c[i + 1] = v[Len(v) - Len(c) + (i + 1)]
      BY <3>1, <1>5
    <3>3. Len(v) - Len(c) + (i + 1) = Len(v) - Len(t) + i
      BY <2>4, <1>1, <1>2, <1>4
    <3>4. QED
      BY <3>1, <3>2, <3>3
  <2>6. Len(t) = IF Len(v) < MaxBuffer THEN Len(v) ELSE MaxBuffer
    BY <2>2, <2>4, <1>2, <1>4, RegistryAssumption
  <2>7. Window(t, v)
    BY <2>5, <2>6 DEF Window
  <2>8. QED
    BY <2>1, <2>3, <2>7, <1>0
<1>7. CASE ~(Len(c) > MaxBuffer)
  <2>1. Retained(c) = c
    BY <1>7 DEF Retained
  <2>2. Len(c) = IF Len(v) < MaxBuffer THEN Len(v) ELSE MaxBuffer
    BY <1>7, <1>1, <1>2, <1>4, RegistryAssumption DEF Window
  <2>3. Window(c, v)
    BY <2>2, <1>5 DEF Window
  <2>4. QED
    BY <2>1, <2>3, <1>0
<1>8. QED
  BY <1>6, <1>7

\* The next seq is above all earlier ones.
LEMMA RisingAppend ==
    ASSUME NEW w \in Seq(Nat), NEW n \in Nat, Rising(w, n)
    PROVE  Rising(Append(w, n + 1), n + 1) /\ Rising(w, n + 1)
<1>0. PICK v : v = Append(w, n + 1)
  OBVIOUS
<1>1. /\ Len(v) = Len(w) + 1 /\ Len(w) \in Nat
      /\ \A i \in 1 .. Len(w) : v[i] = w[i] /\ w[i] \in Nat
      /\ v[Len(w) + 1] = n + 1
  BY <1>0, AppendNat, ElementOfSeq
<1>2. \A i \in 1 .. Len(w) : w[i] <= n
  BY DEF Rising
<1>3. \A i \in 1 .. Len(v) : v[i] <= n + 1
  BY <1>1, <1>2
<1>4. ASSUME NEW i \in 1 .. Len(v), NEW j \in 1 .. Len(v), i < j
      PROVE  v[i] < v[j]
  <2>1. i \in 1 .. Len(w)
    BY <1>4, <1>1
  <2>2. CASE j = Len(w) + 1
    BY <2>1, <2>2, <1>1, <1>2
  <2>3. CASE j # Len(w) + 1
    <3>1. j \in 1 .. Len(w)
      BY <2>3, <1>1
    <3>2. QED
      BY <2>1, <3>1, <1>1, <1>4 DEF Rising
  <2>4. QED
    BY <2>2, <2>3
<1>5. Rising(v, n + 1)
  BY <1>3, <1>4 DEF Rising
<1>6. Rising(w, n + 1)
  BY <1>1, <1>2 DEF Rising
<1>7. QED
  BY <1>5, <1>6, <1>0

\* A step that leaves the buffer and the history of a session alone and does
\* not start it.
BufferSame(s) ==
    /\ buffer'[s] = buffer[s] /\ written'[s] = written[s]
    /\ Started(s)' => Started(s)
    /\ status'[s] \in {"absent", "starting"} =>
           status[s] \in {"absent", "starting"}

\* Every step of the daemon keeps the invariant.
LEMMA BufferStep ==
    ASSUME RegistryTypeOK, BufferInv, DaemonStep \/ DaemonRestart
    PROVE  BufferInv'
<1>0. ASSUME seq' = seq, \A s \in Sessions : BufferSame(s)
      PROVE  BufferInv'
  BY <1>0 DEF BufferInv, BufferSame, Started
<1>1. ASSUME NEW s \in Sessions, Launch(s) PROVE BufferInv'
  <2>1. /\ status'[s] = "running"
        /\ buffer'[s] = <<>> /\ written'[s] = <<>>
        /\ seq' = seq
    BY <1>1 DEF Launch, RegistryTypeOK, BufferInv
  <2>2. \A x \in Sessions \ {s} :
            status'[x] = status[x] /\ buffer'[x] = buffer[x]
            /\ written'[x] = written[x]
    BY <1>1 DEF Launch, RegistryTypeOK
  <2>3. Window(buffer'[s], written'[s]) /\ Rising(written'[s], seq')
    BY <2>1, EmptyWindow DEF RegistryTypeOK
  <2>4. QED
    BY <2>1, <2>2, <2>3 DEF BufferInv, Started
<1>2. ASSUME NEW s \in Sessions, Announce(s) PROVE BufferInv'
  BY <1>0, <1>2 DEF Announce, BufferSame, Started
<1>3. ASSUME NEW s \in Sessions, LaunchFails(s) PROVE BufferInv'
  BY <1>0, <1>3 DEF LaunchFails, BufferSame, Started, RegistryTypeOK
<1>4. ASSUME NEW s \in Sessions, Cleanup(s) PROVE BufferInv'
  BY <1>0, <1>4 DEF Cleanup, BufferSame, Started, RegistryTypeOK
<1>5. ASSUME NEW s \in Sessions, Output(s) PROVE BufferInv'
  <2>1. /\ seq' = seq + 1 /\ status' = status /\ Started(s)
        /\ buffer'[s] = Retained(Append(buffer[s], seq + 1))
        /\ written'[s] = Append(written[s], seq + 1)
    BY <1>5 DEF Output, RegistryTypeOK, Started
  <2>2. \A x \in Sessions \ {s} :
            buffer'[x] = buffer[x] /\ written'[x] = written[x]
    BY <1>5 DEF Output, RegistryTypeOK
  <2>3. /\ buffer[s] \in Seq(Nat) /\ seq \in Nat
        /\ \A x \in Sessions : written[x] \in Seq(Nat)
    BY DEF RegistryTypeOK
  <2>4. /\ Window(buffer[s], written[s])
        /\ \A x \in Sessions : Started(x) => Rising(written[x], seq)
    BY <2>1 DEF BufferInv
  <2>5. Window(buffer'[s], written'[s])
    BY <2>1, <2>3, <2>4, WindowAppend
  <2>6. Rising(written'[s], seq')
    BY <2>1, <2>3, <2>4, RisingAppend
  <2>7. \A x \in Sessions \ {s} : Started(x) => Rising(written'[x], seq')
    BY <2>1, <2>2, <2>3, <2>4, RisingAppend
  <2>8. \A x \in Sessions : Started(x)' <=> Started(x)
    BY <2>1 DEF Started
  <2>9. ASSUME NEW x \in Sessions
        PROVE  /\ status'[x] \in {"absent", "starting"} =>
                      buffer'[x] = <<>> /\ written'[x] = <<>>
               /\ Started(x)' => /\ Window(buffer'[x], written'[x])
                                 /\ Rising(written'[x], seq')
    <3>1. CASE x = s
      BY <3>1, <2>1, <2>5, <2>6 DEF Started
    <3>2. CASE x # s
      BY <3>2, <2>1, <2>2, <2>7, <2>8 DEF BufferInv
    <3>3. QED
      BY <3>1, <3>2
  <2>10. QED
    BY <2>9 DEF BufferInv
<1>6. ASSUME NEW s \in Sessions, Resolve(s) PROVE BufferInv'
  BY <1>0, <1>6 DEF Resolve, BufferSame, Started, RegistryTypeOK
<1>7. ASSUME NEW s \in Sessions, Detect(s) PROVE BufferInv'
  BY <1>0, <1>7 DEF Detect, BufferSame, Started, RegistryTypeOK
<1>8. ASSUME NEW s \in Sessions, Exit(s) PROVE BufferInv'
  BY <1>0, <1>8 DEF Exit, BufferSame, Started, RegistryTypeOK
<1>9. CASE DaemonRestart
  <2>1. \A s \in Sessions :
            /\ buffer'[s] = <<>> /\ written'[s] = written[s]
            /\ status'[s] \in {"absent", "gone"}
            /\ status'[s] = "absent" => status[s] = "absent"
    BY <1>9 DEF DaemonRestart
  <2>2. QED
    BY <2>1 DEF BufferInv, Started
<1>10. QED
  BY <1>1, <1>2, <1>3, <1>4, <1>5, <1>6, <1>7, <1>8, <1>9 DEF DaemonStep

\* The status and the active interaction of a session change together.
LEMMA WaitingStep ==
    ASSUME RegistryTypeOK, WaitingHasInteraction, DaemonStep \/ DaemonRestart
    PROVE  WaitingHasInteraction'
<1> USE DEF WaitingHasInteraction, RegistryTypeOK
<1>1. ASSUME NEW s \in Sessions, Launch(s) PROVE WaitingHasInteraction'
  BY <1>1 DEF Launch
<1>2. ASSUME NEW s \in Sessions, Announce(s) \/ Output(s)
      PROVE  WaitingHasInteraction'
  BY <1>2 DEF Announce, Output
<1>3. ASSUME NEW s \in Sessions, LaunchFails(s) \/ Cleanup(s)
      PROVE  WaitingHasInteraction'
  BY <1>3 DEF LaunchFails, Cleanup
<1>4. ASSUME NEW s \in Sessions, Resolve(s) PROVE WaitingHasInteraction'
  BY <1>4 DEF Resolve
<1>5. ASSUME NEW s \in Sessions, Detect(s) PROVE WaitingHasInteraction'
  BY <1>5 DEF Detect
<1>6. ASSUME NEW s \in Sessions, Exit(s) PROVE WaitingHasInteraction'
  BY <1>6 DEF Exit
<1>7. CASE DaemonRestart
  BY <1>7 DEF DaemonRestart
<1>8. QED
  BY <1>1, <1>2, <1>3, <1>4, <1>5, <1>6, <1>7 DEF DaemonStep

LEMMA RegistryInvariant == RegistrySpec => []RegistryInv
<1>1. RegistryInit => RegistryInv
  <2>1. RegistryInit => RegistryTypeOK
    BY DEF RegistryInit, RegistryTypeOK, Status
  <2>2. RegistryInit => WaitingHasInteraction
    BY DEF RegistryInit, WaitingHasInteraction
  <2>3. RegistryInit => BufferInv
    BY DEF RegistryInit, BufferInv, Started
  <2>4. QED
    BY <2>1, <2>2, <2>3 DEF RegistryInv
<1>2. RegistryInv /\ [RegistryNext]_daemonVars => RegistryInv'
  <2>1. CASE RegistryNext
    BY <2>1, RegistryTypeStep, WaitingStep, BufferStep
       DEF RegistryNext, RegistryInv
  <2>2. CASE UNCHANGED daemonVars
    BY <2>2 DEF daemonVars, RegistryInv, RegistryTypeOK, BufferInv, Started,
                WaitingHasInteraction
  <2>3. QED
    BY <2>1, <2>2
<1>3. QED
  BY <1>1, <1>2, PTL DEF RegistrySpec

\* In a started session the buffer is what BufferIsRecent says.
LEMMA EntriesStarted ==
    ASSUME RegistryTypeOK, BufferInv, NEW s \in Entries
    PROVE  /\ s \in Sessions
           /\ buffer[s] \in Seq(Nat) /\ written[s] \in Seq(Nat) /\ seq \in Nat
           /\ Window(buffer[s], written[s]) /\ Rising(written[s], seq)
<1>1. s \in Sessions /\ status[s] \in Live
  BY DEF Entries
<1>2. buffer[s] \in Seq(Nat) /\ written[s] \in Seq(Nat) /\ seq \in Nat
  BY <1>1 DEF RegistryTypeOK
<1>3. CASE status[s] = "starting"
  BY <1>1, <1>2, <1>3, EmptyWindow DEF BufferInv
<1>4. CASE status[s] # "starting"
  BY <1>1, <1>2, <1>4 DEF BufferInv, Started, Live
<1>5. QED
  BY <1>3, <1>4

\* A window is a run of the history, pointwise or as a sequence.
LEMMA WindowIsRun ==
    ASSUME NEW b \in Seq(Nat), NEW w \in Seq(Nat), Window(b, w)
    PROVE  b = SubSeq(w, Len(w) - Len(b) + 1, Len(w))
<1>1. /\ Len(b) \in Nat /\ Len(w) \in Nat /\ Len(b) <= Len(w)
      /\ \A i \in 1 .. Len(w) : w[i] \in Nat
  BY LenProperties, ElementOfSeq, RegistryAssumption DEF Window
<1>2. PICK k \in Nat : k = Len(w) - Len(b)
  BY <1>1
<1>3. /\ SubSeq(w, k + 1, Len(w)) \in Seq(Nat)
      /\ Len(SubSeq(w, k + 1, Len(w))) =
             IF k + 1 <= Len(w) THEN Len(w) - (k + 1) + 1 ELSE 0
      /\ \A i \in 1 .. Len(w) - (k + 1) + 1 :
             SubSeq(w, k + 1, Len(w))[i] = w[(k + 1) + i - 1]
  <2>1. \A i \in k + 1 .. Len(w) : w[i] \in Nat
    BY <1>1, <1>2
  <2>2. k + 1 \in Int /\ Len(w) \in Int
    BY <1>1, <1>2
  <2>3. QED
    BY <2>1, <2>2, SubSeqProperties
<1>4. PICK u : u = SubSeq(w, k + 1, Len(w))
  OBVIOUS
<1>5. /\ u \in Seq(Nat) /\ Len(u) = Len(b)
      /\ \A i \in 1 .. Len(b) : u[i] = w[k + i]
  <2>1. /\ u \in Seq(Nat)
        /\ Len(u) = IF k + 1 <= Len(w) THEN Len(w) - (k + 1) + 1 ELSE 0
        /\ \A i \in 1 .. Len(w) - (k + 1) + 1 : u[i] = w[(k + 1) + i - 1]
    BY <1>3, <1>4
  <2>2. Len(w) - (k + 1) + 1 = Len(b)
    BY <1>1, <1>2
  <2>3. Len(u) = Len(b)
    BY <2>1, <2>2, <1>1, <1>2
  <2>4. ASSUME NEW i \in 1 .. Len(b) PROVE u[i] = w[k + i]
    <3>1. u[i] = w[(k + 1) + i - 1]
      BY <2>1, <2>2
    <3>2. (k + 1) + i - 1 = k + i
      BY <1>2
    <3>3. QED
      BY <3>1, <3>2
  <2>5. QED
    BY <2>1, <2>3, <2>4
<1>6. \A i \in 1 .. Len(b) : b[i] = u[i]
  BY <1>2, <1>5 DEF Window
<1>7. b = u
  BY <1>5, <1>6, SeqEqual
<1>8. QED
  BY <1>2, <1>4, <1>7

\* append_output keeps the most recent outputs, in order, and drops none while
\* they fit.
THEOREM BufferRecent == RegistrySpec => []BufferIsRecent
<1>1. RegistryInv => BufferIsRecent
  <2>1. SUFFICES ASSUME RegistryInv, NEW s \in Entries
                 PROVE  /\ Len(buffer[s]) = IF Len(written[s]) < MaxBuffer
                                            THEN Len(written[s]) ELSE MaxBuffer
                        /\ buffer[s] = SubSeq(written[s],
                               Len(written[s]) - Len(buffer[s]) + 1,
                               Len(written[s]))
    BY DEF BufferIsRecent
  <2>2. /\ buffer[s] \in Seq(Nat) /\ written[s] \in Seq(Nat)
        /\ Window(buffer[s], written[s])
    BY <2>1, EntriesStarted DEF RegistryInv
  <2>3. QED
    BY <2>2, WindowIsRun DEF Window
<1>2. QED
  BY <1>1, RegistryInvariant, PTL

\* A session waits exactly while it has an active interaction.
THEOREM Waiting == RegistrySpec => []WaitingHasInteraction
<1>1. RegistryInv => WaitingHasInteraction
  BY DEF RegistryInv
<1>2. QED
  BY <1>1, RegistryInvariant, PTL

\* What the modes mean for a window b of the history w.
LEMMA ModesAreComplete ==
    ASSUME NEW b \in Seq(Nat), NEW w \in Seq(Nat), NEW top \in Nat,
           Window(b, w), Rising(w, top),
           NEW after \in {NoSeq} \cup Nat
    PROVE  /\ Mode(b, after) = "live" => Newer(w, after) = {}
           /\ Mode(b, after) = "replay" => Newer(b, after) = Newer(w, after)
<1>1. /\ Len(b) \in Nat /\ Len(w) \in Nat /\ Len(b) <= Len(w)
      /\ \A i \in 1 .. Len(w) : w[i] \in Nat
      /\ \A i \in 1 .. Len(b) : b[i] \in Nat
      /\ b = <<>> <=> Len(b) = 0
      /\ b = <<>> => Len(w) = 0
      /\ after \in Int
  BY LenProperties, ElementOfSeq, EmptySeq, RegistryAssumption
     DEF Window, NoSeq
<1>2. PICK k \in Nat : k = Len(w) - Len(b)
  <2>1. Len(w) - Len(b) \in Nat
    BY <1>1
  <2>2. QED
    BY <2>1
<1>3. \A i \in 1 .. Len(b) : b[i] = w[k + i] /\ k + i \in 1 .. Len(w)
  BY <1>1, <1>2, SMTT(20) DEF Window
<1>4. ASSUME Mode(b, after) = "live" PROVE Newer(w, after) = {}
  <2>1. CASE b = <<>>
    BY <2>1, <1>1 DEF Newer
  <2>2. CASE b # <<>> /\ after # NoSeq /\ after >= Last(b)
    <3>1. b[Len(b)] = w[Len(w)] /\ Len(w) \in 1 .. Len(w)
      BY <2>2, <1>1, <1>2, <1>3, SMTT(20)
    <3>2. ASSUME NEW j \in 1 .. Len(w) PROVE w[j] <= w[Len(w)]
      <4>1. CASE j = Len(w)
        BY <4>1, <1>1
      <4>2. CASE j < Len(w)
        BY <4>2, <3>1, <1>1 DEF Rising
      <4>3. QED
        BY <4>1, <4>2, <1>1
    <3>3. \A j \in 1 .. Len(w) : ~(w[j] > after)
      BY <3>1, <3>2, <2>2, <1>1 DEF Last
    <3>4. QED
      BY <3>3 DEF Newer
  <2>3. QED
    BY <1>4, <2>1, <2>2 DEF Mode
<1>5. ASSUME Mode(b, after) = "replay"
      PROVE  Newer(b, after) = Newer(w, after)
  <2>1. b # <<>> /\ after >= b[1] - 1
    BY <1>5 DEF Mode
  <2>2. 1 \in 1 .. Len(b) /\ b[1] = w[k + 1] /\ k + 1 \in 1 .. Len(w)
    BY <2>1, <1>1, <1>3
  <2>3. \A x : x \in Newer(b, after) => x \in Newer(w, after)
    BY <1>3 DEF Newer
  <2>4. ASSUME NEW j \in 1 .. Len(w), w[j] > after
        PROVE  \E i \in 1 .. Len(b) : b[i] = w[j] /\ b[i] > after
    <3>1. w[j] >= w[k + 1]
      BY <2>1, <2>2, <2>4, <1>1, SMTT(20)
    <3>2. j >= k + 1
      <4>1. SUFFICES ASSUME j < k + 1 PROVE FALSE
        BY <1>2
      <4>2. w[j] < w[k + 1]
        BY <4>1, <2>2 DEF Rising
      <4>3. QED
        BY <4>2, <3>1, <2>2, <1>1
    <3>3. j - k \in 1 .. Len(b) /\ k + (j - k) = j
      BY <3>2, <1>1, <1>2
    <3>4. b[j - k] = w[j]
      BY <3>3, <1>3
    <3>5. QED
      BY <3>3, <3>4, <2>4
  <2>5. \A x : x \in Newer(w, after) => x \in Newer(b, after)
    BY <2>4 DEF Newer
  <2>6. QED
    BY <2>3, <2>5
<1>6. QED
  BY <1>4, <1>5

\* subscribe_view never claims that a phone is up to date, or complete after a
\* replay, when an output of the session is missing.
THEOREM ViewsComplete == RegistrySpec => []ViewsAreComplete
<1>1. RegistryInv => ViewsAreComplete
  <2>1. SUFFICES ASSUME RegistryInv, NEW s \in Entries,
                        NEW after \in {NoSeq} \cup 0 .. seq
                 PROVE  LET v == SubscribeView(s, after)
                        IN  /\ v.mode = "live" => Newer(written[s], after) = {}
                            /\ v.mode = "replay" =>
                                   v.missed = Newer(written[s], after)
    BY DEF ViewsAreComplete
  <2>2. /\ buffer[s] \in Seq(Nat) /\ written[s] \in Seq(Nat) /\ seq \in Nat
        /\ Window(buffer[s], written[s]) /\ Rising(written[s], seq)
    BY <2>1, EntriesStarted DEF RegistryInv
  <2>3. after \in {NoSeq} \cup Nat
    BY <2>1, <2>2
  <2>4. /\ SubscribeView(s, after).mode = Mode(buffer[s], after)
        /\ Mode(buffer[s], after) = "replay" =>
              SubscribeView(s, after).missed = Newer(buffer[s], after)
    BY DEF SubscribeView
  <2>5. QED
    BY <2>2, <2>3, <2>4, ModesAreComplete
<1>2. QED
  BY <1>1, RegistryInvariant, PTL
=============================================================================
