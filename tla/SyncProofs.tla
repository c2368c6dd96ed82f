------------------------------ MODULE SyncProofs ------------------------------
(***************************************************************************)
(* Theorems about SessionSync for every set of sessions, every size of the *)
(* buffers and any number of outputs, losses and reconnections.            *)
(***************************************************************************)
EXTENDS SessionSync, RegistryProofs, FiniteSetTheorems

-----------------------------------------------------------------------------
(* Sequences of numbers.                                                   *)

\* What a run of w is, element by element.
LEMMA RunElements ==
    ASSUME NEW w \in Seq(Nat), NEW i \in 1 .. Len(w) + 1, NEW j \in 0 .. Len(w)
    PROVE  /\ SubSeq(w, i, j) \in Seq(Nat)
           /\ Len(SubSeq(w, i, j)) = IF i <= j THEN j - i + 1 ELSE 0
           /\ \A k \in 1 .. j - i + 1 : SubSeq(w, i, j)[k] = w[i + k - 1]
<1>1. Len(w) \in Nat /\ i \in Int /\ j \in Int
  BY LenProperties
<1>2. \A k \in i .. j : w[k] \in Nat
  BY <1>1, ElementOfSeq
<1>3. QED
  BY <1>1, <1>2, SubSeqProperties

\* Appending to w keeps its runs.
LEMMA RunsGrow ==
    ASSUME NEW w \in Seq(Nat), NEW n \in Nat, NEW r \in Terminal!Runs(w)
    PROVE  r \in Terminal!Runs(Append(w, n))
<1>0. PICK v : v = Append(w, n)
  OBVIOUS
<1>1. /\ v \in Seq(Nat) /\ Len(w) \in Nat /\ Len(v) = Len(w) + 1
      /\ \A k \in 1 .. Len(w) : v[k] = w[k]
  BY <1>0, AppendNat
<1>2. PICK i \in 1 .. Len(w) + 1, j \in 0 .. Len(w) : r = SubSeq(w, i, j)
  BY DEF Terminal!Runs
<1>3. i \in 1 .. Len(v) + 1 /\ j \in 0 .. Len(v)
  BY <1>1
<1>4. PICK x, y : x = SubSeq(w, i, j) /\ y = SubSeq(v, i, j)
  OBVIOUS
<1>5. /\ x \in Seq(Nat) /\ Len(x) = IF i <= j THEN j - i + 1 ELSE 0
      /\ \A k \in 1 .. j - i + 1 : x[k] = w[i + k - 1]
  BY <1>4, RunElements
<1>6. /\ y \in Seq(Nat) /\ Len(y) = IF i <= j THEN j - i + 1 ELSE 0
      /\ \A k \in 1 .. j - i + 1 : y[k] = v[i + k - 1]
  BY <1>1, <1>3, <1>4, RunElements
<1>7. ASSUME NEW k \in 1 .. Len(x) PROVE x[k] = y[k]
  <2>1. k \in 1 .. j - i + 1 /\ i + k - 1 \in 1 .. Len(w)
    BY <1>1, <1>5
  <2>2. QED
    BY <2>1, <1>1, <1>5, <1>6
<1>8. x = y
  BY <1>5, <1>6, <1>7, SeqEqual
<1>9. r = SubSeq(v, i, j)
  BY <1>2, <1>4, <1>8
<1>10. r \in Terminal!Runs(v)
  BY <1>3, <1>9 DEF Terminal!Runs
<1>11. QED
  BY <1>0, <1>10

\* The elements of a run of w are elements of w.
LEMMA RunIsPart ==
    ASSUME NEW w \in Seq(Nat), NEW r \in Terminal!Runs(w)
    PROVE  r \in Seq(Nat) /\ PartOf(r, w)
<1>1. PICK i \in 1 .. Len(w) + 1, j \in 0 .. Len(w) : r = SubSeq(w, i, j)
  BY DEF Terminal!Runs
<1>2. /\ r \in Seq(Nat) /\ Len(r) = IF i <= j THEN j - i + 1 ELSE 0
      /\ \A k \in 1 .. j - i + 1 : r[k] = w[i + k - 1]
  BY <1>1, RunElements
<1>3. ASSUME NEW k \in 1 .. Len(r)
      PROVE  \E l \in 1 .. Len(w) : r[k] = w[l]
  <2>1. k \in 1 .. j - i + 1 /\ i + k - 1 \in 1 .. Len(w)
    BY <1>2, LenProperties
  <2>2. QED
    BY <2>1, <1>2
<1>4. QED
  BY <1>2, <1>3 DEF PartOf

\* Trimming keeps the newest chunks: their order, their origin and the last.
LEMMA TrimKeeps ==
    ASSUME NEW t \in Seq(Nat), NEW w \in Seq(Nat), Increasing(t), PartOf(t, w)
    PROVE  /\ Trim(t) \in Seq(Nat) /\ Increasing(Trim(t)) /\ PartOf(Trim(t), w)
           /\ t # <<>> => Trim(t) # <<>> /\ Last(Trim(t)) = Last(t)
<1>1. CASE Len(t) > MaxText
  <2>1. Len(t) \in Nat /\ MaxText \in Nat /\ MaxText >= 1
    BY LenProperties, PhoneAssumption
  <2>2. PICK k \in Nat : k = Len(t) - MaxText
    BY <1>1, <2>1
  <2>3. Trim(t) = SubSeq(t, k + 1, Len(t))
    BY <1>1, <2>2 DEF Trim
  <2>4. PICK u : u = SubSeq(t, k + 1, Len(t))
    OBVIOUS
  <2>5. k + 1 \in 1 .. Len(t) + 1 /\ Len(t) \in 0 .. Len(t)
    BY <2>1, <2>2
  <2>6. /\ u \in Seq(Nat) /\ Len(u) = MaxText
        /\ \A i \in 1 .. MaxText : u[i] = t[k + i] /\ k + i \in 1 .. Len(t)
    <3>1. /\ u \in Seq(Nat)
          /\ Len(u) = IF k + 1 <= Len(t) THEN Len(t) - (k + 1) + 1 ELSE 0
          /\ \A i \in 1 .. Len(t) - (k + 1) + 1 : u[i] = t[(k + 1) + i - 1]
      BY <2>4, <2>5, RunElements
    <3>2. QED
      BY <3>1, <2>1, <2>2, SMTT(20)
  <2>7. Increasing(u)
    <3>1. SUFFICES ASSUME NEW i \in 1 .. MaxText, NEW j \in 1 .. MaxText, i < j
                   PROVE  u[i] < u[j]
      BY <2>6 DEF Increasing
    <3>2. k + i < k + j
      BY <3>1, <2>1
    <3>3. QED
      BY <3>2, <2>6 DEF Increasing
  <2>8. PartOf(u, w)
    BY <2>6 DEF PartOf
  <2>9. u # <<>> /\ Last(u) = Last(t)
    <3>1. u[MaxText] = t[k + MaxText] /\ k + MaxText = Len(t)
      BY <2>1, <2>2, <2>6
    <3>2. u # <<>>
      BY <2>1, <2>6
    <3>3. QED
      BY <3>1, <3>2, <2>6 DEF Last
  <2>10. QED
    BY <2>3, <2>4, <2>6, <2>7, <2>8, <2>9
<1>2. CASE ~(Len(t) > MaxText)
  BY <1>2 DEF Trim
<1>3. QED
  BY <1>1, <1>2

\* The last of an increasing sequence is its largest.
LEMMA LastIsLargest ==
    ASSUME NEW t \in Seq(Nat), Increasing(t), t # <<>>
    PROVE  Last(t) \in Nat /\ \A i \in 1 .. Len(t) : t[i] <= Last(t)
<1>1. Len(t) \in Nat \ {0} /\ \A i \in 1 .. Len(t) : t[i] \in Nat
  BY EmptySeq, ElementOfSeq
<1>2. ASSUME NEW i \in 1 .. Len(t) PROVE t[i] <= t[Len(t)]
  <2>1. CASE i = Len(t)
    BY <2>1, <1>1
  <2>2. CASE i < Len(t)
    BY <2>2, <1>1 DEF Increasing
  <2>3. QED
    BY <2>1, <2>2, <1>1
<1>3. QED
  BY <1>1, <1>2 DEF Last

\* appendTerminalOutput: a chunk newer than the last keeps the order.
LEMMA AppendKeeps ==
    ASSUME NEW t \in Seq(Nat), NEW w \in Seq(Nat), NEW n \in Nat,
           Increasing(t), PartOf(t, w), NEW l \in 1 .. Len(w), n = w[l],
           t # <<>> => n > Last(t)
    PROVE  /\ Append(t, n) \in Seq(Nat) /\ Append(t, n) # <<>>
           /\ Increasing(Append(t, n)) /\ PartOf(Append(t, n), w)
           /\ Last(Append(t, n)) = n
           /\ \A i \in 1 .. Len(t) : n > t[i]
<1>0. PICK v : v = Append(t, n)
  OBVIOUS
<1>1. /\ v \in Seq(Nat) /\ v # <<>> /\ Len(t) \in Nat /\ Len(v) = Len(t) + 1
      /\ \A i \in 1 .. Len(t) : v[i] = t[i]
      /\ v[Len(t) + 1] = n
  BY <1>0, AppendNat
<1>2. \A i \in 1 .. Len(t) : n > t[i]
  <2>1. SUFFICES ASSUME NEW i \in 1 .. Len(t) PROVE n > t[i]
    OBVIOUS
  <2>2. t # <<>>
    BY EmptySeq, <1>1
  <2>3. t[i] <= Last(t) /\ Last(t) \in Nat /\ t[i] \in Nat
    BY <2>2, LastIsLargest, ElementOfSeq
  <2>4. QED
    BY <2>2, <2>3
<1>3. Increasing(v)
  <2>1. SUFFICES ASSUME NEW i \in 1 .. Len(v), NEW j \in 1 .. Len(v), i < j
                 PROVE  v[i] < v[j]
    BY DEF Increasing
  <2>2. i \in 1 .. Len(t)
    BY <2>1, <1>1
  <2>3. CASE j = Len(t) + 1
    BY <2>2, <2>3, <1>1, <1>2
  <2>4. CASE j # Len(t) + 1
    <3>1. j \in 1 .. Len(t)
      BY <2>4, <1>1
    <3>2. t[i] < t[j]
      BY <2>1, <2>2, <3>1 DEF Increasing
    <3>3. QED
      BY <3>1, <3>2, <2>2, <1>1
  <2>5. QED
    BY <2>3, <2>4
<1>4. PartOf(v, w)
  <2>1. SUFFICES ASSUME NEW i \in 1 .. Len(v)
                 PROVE  \E j \in 1 .. Len(w) : v[i] = w[j]
    BY DEF PartOf
  <2>2. CASE i = Len(t) + 1
    BY <2>2, <1>1
  <2>3. CASE i # Len(t) + 1
    <3>1. i \in 1 .. Len(t)
      BY <2>3, <1>1
    <3>2. QED
      BY <3>1, <1>1 DEF PartOf
  <2>4. QED
    BY <2>2, <2>3
<1>5. QED
  BY <1>0, <1>1, <1>2, <1>3, <1>4 DEF Last

-----------------------------------------------------------------------------
(* What may be on its way: the types of the channels, sharpened until they *)
(* are inductive.                                                          *)

\* An output event carries an output of its session.
SoundEvent ==
    {e \in Event : e.event = "terminal.output" =>
        \E i \in 1 .. Len(written[e.session]) : e.n = written[e.session][i]}

\* A snapshot is a stretch of the history of its session.
SoundView ==
    {v \in View : v.mode = "snapshot" =>
        /\ v.text # <<>> /\ Increasing(v.text)
        /\ v.text \in Terminal!Runs(written[v.session])}

SoundMessage ==
    {m \in Message : /\ m.kind = "event" => m.event \in SoundEvent
                     /\ m.kind = "view" => m.view \in SoundView}

SyncInv ==
    /\ TypeOK /\ BufferInv
    /\ events \in Seq(SoundEvent) /\ toPhone \in Seq(SoundMessage)
    /\ TranscriptOrdered

QuietEvent == {e \in Event : e.event # "terminal.output"}

LEMMA QuietIsSound == QuietEvent \subseteq SoundEvent
  BY DEF QuietEvent, SoundEvent

LEMMA QuietEvents ==
    ASSUME NEW name \in EventNames \ {"terminal.output"}, NEW s \in Sessions,
           NEW n \in Nat, NEW st \in Status
    PROVE  Ev(name, s, n, st) \in QuietEvent
  BY DEF Ev, Event, QuietEvent

\* The history of one session, or of none, has grown by one output.
Grown(s) ==
    \E n \in Nat : written' = [written EXCEPT ![s] = Append(@, n)]

\* Growing keeps the outputs and the runs of every history.
LEMMA HistoryGrows ==
    ASSUME RegistryTypeOK, NEW s \in Sessions, UNCHANGED written \/ Grown(s),
           NEW x \in Sessions
    PROVE  /\ \A i \in 1 .. Len(written[x]) :
                 i \in 1 .. Len(written'[x]) /\ written'[x][i] = written[x][i]
           /\ \A r \in Terminal!Runs(written[x]) :
                 r \in Terminal!Runs(written'[x])
<1>1. written \in [Sessions -> Seq(Nat)]
  BY DEF RegistryTypeOK
<1>2. CASE written'[x] = written[x]
  BY <1>2
<1>3. CASE written'[x] # written[x]
  <2>1. PICK n \in Nat : written'[x] = Append(written[x], n)
    BY <1>3, <1>1 DEF Grown
  <2>2. written[x] \in Seq(Nat)
    BY <1>1
  <2>3. /\ Len(written[x]) \in Nat /\ Len(written'[x]) = Len(written[x]) + 1
        /\ \A i \in 1 .. Len(written[x]) : written'[x][i] = written[x][i]
    BY <2>1, <2>2, AppendNat
  <2>4. \A r \in Terminal!Runs(written[x]) : r \in Terminal!Runs(written'[x])
    BY <2>1, <2>2, RunsGrow
  <2>5. QED
    BY <2>3, <2>4
<1>4. QED
  BY <1>2, <1>3

\* What was sound stays sound while histories grow.
LEMMA SoundGrows ==
    ASSUME RegistryTypeOK, NEW s \in Sessions, UNCHANGED written \/ Grown(s)
    PROVE  SoundEvent \subseteq SoundEvent' /\ SoundMessage \subseteq SoundMessage'
<1>1. ASSUME NEW x \in Sessions
      PROVE  /\ \A i \in 1 .. Len(written[x]) :
                   i \in 1 .. Len(written'[x]) /\ written'[x][i] = written[x][i]
             /\ \A r \in Terminal!Runs(written[x]) :
                   r \in Terminal!Runs(written'[x])
  BY HistoryGrows
<1>2. ASSUME NEW e \in SoundEvent PROVE e \in SoundEvent'
  <2>1. e \in Event /\ e.session \in Sessions
    BY DEF SoundEvent, Event
  <2>2. QED
    BY <2>1, <1>1 DEF SoundEvent
<1>3. ASSUME NEW v \in SoundView PROVE v \in SoundView'
  <2>1. v \in View /\ v.session \in Sessions
    BY DEF SoundView, View
  <2>2. QED
    BY <2>1, <1>1 DEF SoundView
<1>4. ASSUME NEW m \in SoundMessage PROVE m \in SoundMessage'
  BY <1>2, <1>3 DEF SoundMessage
<1>5. QED
  BY <1>2, <1>4

\* A step of the daemon writes at most one output, and tells of nothing else.
LEMMA DaemonStepEvents ==
    ASSUME RegistryTypeOK, DaemonStep
    PROVE  \/ /\ UNCHANGED written
              /\ events' = events \/
                 \E evs \in Seq(QuietEvent) : events' = events \o evs
           \/ \E s \in Sessions : Output(s)
<1> USE StatusValues DEF RegistryTypeOK
<1>1. ASSUME NEW s \in Sessions, Launch(s) \/ LaunchFails(s) \/ Cleanup(s)
      PROVE  UNCHANGED <<written, events>>
  BY <1>1 DEF Launch, LaunchFails, Cleanup
<1>2. ASSUME NEW s \in Sessions, Announce(s)
      PROVE  /\ UNCHANGED written
             /\ \E evs \in Seq(QuietEvent) : events' = events \o evs
  <2>1. <<Ev("session.created", s, 0, status[s])>> \in Seq(QuietEvent)
    BY QuietEvents DEF EventNames
  <2>2. QED
    BY <1>2, <2>1 DEF Announce, Emit
<1>3. ASSUME NEW s \in Sessions
      PROVE  /\ ResolvedEvents(s) \in Seq(QuietEvent)
             /\ RequestedEvents(s) \in Seq(QuietEvent)
  <2>1. /\ Ev("interaction.resolved", s, active[s], status[s]) \in QuietEvent
        /\ Ev("session.updated", s, 0, "running") \in QuietEvent
        /\ Ev("interaction.requested", s, lastId + 1, "waiting") \in QuietEvent
        /\ Ev("session.updated", s, 0, "waiting") \in QuietEvent
    BY QuietEvents DEF EventNames
  <2>2. QED
    BY <2>1 DEF ResolvedEvents, RequestedEvents
<1>4. ASSUME NEW s \in Sessions, Resolve(s)
      PROVE  /\ UNCHANGED written
             /\ \E evs \in Seq(QuietEvent) : events' = events \o evs
  BY <1>3, <1>4 DEF Resolve, Emit
<1>5. ASSUME NEW s \in Sessions, Detect(s)
      PROVE  /\ UNCHANGED written
             /\ \E evs \in Seq(QuietEvent) : events' = events \o evs
  <2>1. (IF active[s] = 0 THEN <<>> ELSE ResolvedEvents(s)) \in Seq(QuietEvent)
    BY <1>3
  <2>2. (IF active[s] = 0 THEN <<>> ELSE ResolvedEvents(s))
           \o RequestedEvents(s) \in Seq(QuietEvent)
    BY <2>1, <1>3, ConcatProperties
  <2>3. QED
    BY <1>5, <2>2 DEF Detect, Emit
<1>6. ASSUME NEW s \in Sessions, Exit(s)
      PROVE  /\ UNCHANGED written
             /\ \E evs \in Seq(QuietEvent) : events' = events \o evs
  <2>1. /\ Ev("interaction.resolved", s, active[s], status[s]) \in QuietEvent
        /\ Ev("session.ended", s, 0, "stopped") \in QuietEvent
    BY QuietEvents DEF EventNames
  <2>2. /\ (IF active[s] = 0 THEN <<>>
            ELSE <<Ev("interaction.resolved", s, active[s], status[s])>>)
              \in Seq(QuietEvent)
        /\ <<Ev("session.ended", s, 0, "stopped")>> \in Seq(QuietEvent)
    BY <2>1
  <2>3. (IF active[s] = 0 THEN <<>>
         ELSE <<Ev("interaction.resolved", s, active[s], status[s])>>)
           \o <<Ev("session.ended", s, 0, "stopped")>> \in Seq(QuietEvent)
    BY <2>2, ConcatProperties
  <2>4. QED
    BY <1>6, <2>3 DEF Exit, Emit
<1>7. QED
  BY <1>1, <1>2, <1>4, <1>5, <1>6 DEF DaemonStep

\* What the phone shows is of the history as long as it is left alone.
LEMMA TranscriptKept ==
    ASSUME RegistryTypeOK, TranscriptOrdered, UNCHANGED <<text, last>>,
           NEW s \in Sessions, UNCHANGED written \/ Grown(s)
    PROVE  TranscriptOrdered'
<1>1. ASSUME NEW x \in Sessions PROVE PartOf(text'[x], written'[x])
  <2>1. text'[x] = text[x] /\ PartOf(text[x], written[x])
    BY DEF TranscriptOrdered
  <2>2. \A i \in 1 .. Len(written[x]) :
            i \in 1 .. Len(written'[x]) /\ written'[x][i] = written[x][i]
    BY HistoryGrows
  <2>3. QED
    BY <2>1, <2>2 DEF PartOf
<1>2. QED
  BY <1>1 DEF TranscriptOrdered

\* A terminal that shows an ordered stretch of the history keeps doing so.
LEMMA TextReplaced ==
    ASSUME PhoneTypeOK, RegistryTypeOK, TranscriptOrdered, UNCHANGED written,
           NEW s \in Sessions, NEW t \in Seq(Nat), t # <<>>, Increasing(t),
           PartOf(t, written[s]),
           text' = [text EXCEPT ![s] = Trim(t)],
           last' = [last EXCEPT ![s] = Last(t)]
    PROVE  /\ TranscriptOrdered'
           /\ text' \in [Sessions -> Seq(Nat)]
           /\ last' \in [Sessions -> Nat \cup {NoSeq}]
<1>1. written[s] \in Seq(Nat)
  BY DEF RegistryTypeOK
<1>2. /\ Trim(t) \in Seq(Nat) /\ Increasing(Trim(t))
      /\ PartOf(Trim(t), written[s])
      /\ Trim(t) # <<>> /\ Last(Trim(t)) = Last(t)
  BY <1>1, TrimKeeps
<1>3. Last(t) \in Nat
  BY LastIsLargest
<1>4. /\ text'[s] = Trim(t) /\ last'[s] = Last(t)
      /\ \A x \in Sessions \ {s} : text'[x] = text[x] /\ last'[x] = last[x]
  BY DEF PhoneTypeOK
<1>5. TranscriptOrdered'
  BY <1>2, <1>4 DEF TranscriptOrdered
<1>6. QED
  BY <1>2, <1>3, <1>5 DEF PhoneTypeOK

\* A buffer is an ordered run of the history.
LEMMA WindowIsSound ==
    ASSUME NEW b \in Seq(Nat), NEW w \in Seq(Nat), NEW top \in Nat,
           Window(b, w), Rising(w, top)
    PROVE  Increasing(b) /\ b \in Terminal!Runs(w)
<1>1. /\ Len(b) \in Nat /\ Len(w) \in Nat /\ Len(b) <= Len(w)
  BY LenProperties, RegistryAssumption DEF Window
<1>2. b = SubSeq(w, Len(w) - Len(b) + 1, Len(w))
  BY WindowIsRun
<1>3. PICK f, t : f = Len(w) - Len(b) + 1 /\ t = Len(w)
  OBVIOUS
<1>4. b \in Terminal!Runs(w)
  <2>1. f \in 1 .. Len(w) + 1 /\ t \in 0 .. Len(w)
    BY <1>1, <1>3
  <2>2. b = SubSeq(w, f, t)
    BY <1>2, <1>3
  <2>3. QED
    BY <2>1, <2>2 DEF Terminal!Runs
<1>5. Increasing(b)
  <2>1. SUFFICES ASSUME NEW i \in 1 .. Len(b), NEW j \in 1 .. Len(b), i < j
                 PROVE  b[i] < b[j]
    BY DEF Increasing
  <2>2. b[i] = w[Len(w) - Len(b) + i] /\ b[j] = w[Len(w) - Len(b) + j]
    BY DEF Window
  <2>3. /\ Len(w) - Len(b) + i \in 1 .. Len(w)
        /\ Len(w) - Len(b) + j \in 1 .. Len(w)
        /\ Len(w) - Len(b) + i < Len(w) - Len(b) + j
    BY <2>1, <1>1
  <2>4. QED
    BY <2>2, <2>3 DEF Rising
<1>6. QED
  BY <1>4, <1>5

-----------------------------------------------------------------------------
(* The daemon's end.                                                       *)

LEMMA ListingsTyped ==
    ASSUME NEW S, NEW max \in Nat, NEW f \in Listings(S, max)
    PROVE  f \in Seq(S)
<1>1. PICK n \in 0 .. max : f \in [1 .. n -> S]
  BY DEF Listings
<1>2. QED
  BY <1>1, SeqDef

LEMMA EraTyped == TypeOK => Era \in Nat
  BY DEF TypeOK, RegistryTypeOK, Era

\* The answers of the daemon are sound.
LEMMA AnswerSound ==
    ASSUME TypeOK, BufferInv, NEW q \in Request
    PROVE  Answer(q) \in SoundMessage /\ Refusal(q) \in SoundMessage
<1>1. Refusal(q) \in SoundMessage
  BY DEF Refusal, Request, Message, SoundMessage
<1>2. CASE q.method = "list"
  <2>1. SessionList \in [Sessions -> Status]
    BY StatusValues DEF SessionList, TypeOK, RegistryTypeOK
  <2>2. [kind |-> "list", list |-> SessionList] \in SoundMessage
    BY <2>1 DEF Message, SoundMessage
  <2>3. QED
    BY <1>1, <1>2, <2>2 DEF Answer
<1>3. CASE q.method # "list" /\ q.session \in Entries
  <2>1. PICK s, after, b, w :
            s = q.session /\ after = q.after /\ b = buffer[s] /\ w = written[s]
    OBVIOUS
  <2>2. /\ s \in Sessions /\ b \in Seq(Nat) /\ w \in Seq(Nat) /\ seq \in Nat
        /\ Window(b, w) /\ Rising(w, seq)
    BY <1>3, <2>1, EntriesStarted DEF TypeOK
  <2>3. Increasing(b) /\ b \in Terminal!Runs(w)
    BY <2>2, WindowIsSound
  <2>4. Mode(b, after) = "snapshot" => b # <<>>
    BY DEF Mode
  <2>5. Newer(b, after) \subseteq Nat
    BY <2>2, ElementOfSeq DEF Newer
  <2>6. SubscribeView(s, after) \in View
    <3>1. status[s] \in Status /\ active[s] \in Nat
      BY <2>2 DEF TypeOK, RegistryTypeOK
    <3>2. Mode(b, after) \in {"live", "replay", "snapshot"}
      BY DEF Mode
    <3>3. QED
      BY <2>1, <2>2, <2>5, <3>1, <3>2 DEF SubscribeView, View
  <2>7. SubscribeView(s, after) \in SoundView
    BY <2>1, <2>3, <2>4, <2>6 DEF SubscribeView, SoundView
  <2>8. [kind |-> "view", view |-> SubscribeView(s, after), by |-> q.by,
         era |-> Era] \in SoundMessage
    BY <2>6, <2>7, EraTyped DEF Message, SoundMessage, Request
  <2>9. QED
    BY <1>1, <1>3, <2>1, <2>8 DEF Answer
<1>4. CASE q.method # "list" /\ q.session \notin Entries
  <2>1. [kind |-> "notFound", session |-> q.session, by |-> q.by]
            \in SoundMessage
    BY DEF Request, Message, SoundMessage
  <2>2. QED
    BY <1>1, <1>4, <2>1 DEF Answer
<1>5. QED
  BY <1>2, <1>3, <1>4

\* Nothing unsound comes of a lost connection.
LEMMA LoseLinkSound ==
    ASSUME TypeOK, toPhone \in Seq(SoundMessage), LoseLink
    PROVE  /\ toPhone' \in Seq(SoundMessage) /\ toDaemon' \in Seq(Request)
           /\ linkUp' \in BOOLEAN /\ intact' \subseteq Sessions
<1>1. ASSUME NEW m \in Message, m.kind # "event"
      PROVE  RefusalOf(m) \in SoundMessage
  <2>1. CASE m.kind = "list"
    BY <2>1 DEF RefusalOf, Message, SoundMessage
  <2>2. CASE m.kind = "view"
    <3>1. m.view \in View /\ m.by \in {"sync", "open"}
      BY <2>2 DEF Message
    <3>2. m.view.session \in Sessions
      BY <3>1 DEF View
    <3>3. RefusalOf(m) = [kind |-> "offline", session |-> m.view.session,
                          by |-> m.by]
      BY <2>2 DEF RefusalOf
    <3>4. QED
      BY <3>1, <3>2, <3>3 DEF Message, SoundMessage
  <2>3. CASE m.kind \in {"notFound", "offline"}
    <3>1. m.session \in Sessions \cup {None} /\ m.by \in {"sync", "open"}
      BY <2>3 DEF Message
    <3>2. RefusalOf(m) = [kind |-> "offline", session |-> m.session,
                          by |-> m.by]
      BY <2>3 DEF RefusalOf
    <3>3. QED
      BY <3>1, <3>2 DEF Message, SoundMessage
  <2>4. QED
    BY <1>1, <2>1, <2>2, <2>3 DEF Message
<1>2. ASSUME NEW q \in Request PROVE Refusal(q) \in SoundMessage
  BY DEF Refusal, Request, Message, SoundMessage
<1>3. PICK kept \in 0 .. Len(toPhone) :
          \E rejected \in Listings(Refusals(kept), Len(toPhone) + Len(toDaemon)) :
              toPhone' = SubSeq(toPhone, 1, kept) \o rejected
  BY DEF LoseLink
<1>4. PICK rejected \in Listings(Refusals(kept), Len(toPhone) + Len(toDaemon)) :
          toPhone' = SubSeq(toPhone, 1, kept) \o rejected
  BY <1>3
<1>5. /\ Len(toPhone) \in Nat /\ Len(toDaemon) \in Nat
      /\ \A i \in 1 .. Len(toPhone) :
             toPhone[i] \in SoundMessage /\ toPhone[i] \in Message
      /\ \A i \in 1 .. Len(toDaemon) : toDaemon[i] \in Request
  BY LenProperties, ElementOfSeq DEF TypeOK
<1>6. Refusals(kept) \subseteq SoundMessage
  BY <1>1, <1>2, <1>5 DEF Refusals
<1>7. rejected \in Seq(SoundMessage)
  <2>1. rejected \in Seq(Refusals(kept))
    BY <1>5, ListingsTyped
  <2>2. QED
    BY <2>1, <1>6, SeqMonotonic
<1>8. SubSeq(toPhone, 1, kept) \in Seq(SoundMessage)
  BY <1>5, SubSeqProperties
<1>9. toPhone' \in Seq(SoundMessage)
  BY <1>4, <1>7, <1>8, ConcatProperties
<1>10. linkUp' = FALSE /\ toDaemon' = <<>> /\ intact' = {}
  BY DEF LoseLink
<1>11. toDaemon' \in Seq(Request)
  BY <1>10, EmptySeq
<1>12. QED
  BY <1>9, <1>10, <1>11

\* The registry's part of the invariant, for a step that leaves the sessions
\* alone and emits nothing unsound.
LEMMA SessionsSame ==
    ASSUME TypeOK, BufferInv,
           UNCHANGED <<status, announced, seq, buffer, active, lastId, restarts,
                       written>>,
           events' \in Seq(SoundEvent)
    PROVE  /\ RegistryTypeOK' /\ BufferInv'
           /\ SoundEvent' = SoundEvent /\ SoundMessage' = SoundMessage
<1>1. SoundEvent \subseteq Event
  BY DEF SoundEvent
<1>2. events' \in Seq(Event)
  BY <1>1, SeqMonotonic
<1>3. RegistryTypeOK'
  BY <1>2 DEF TypeOK, RegistryTypeOK
<1>4. BufferInv'
  BY DEF BufferInv, Started
<1>5. SoundEvent' = SoundEvent
  BY DEF SoundEvent
<1>6. SoundView' = SoundView
  BY DEF SoundView
<1>7. SoundMessage' = SoundMessage
  BY <1>5, <1>6 DEF SoundMessage
<1>8. QED
  BY <1>3, <1>4, <1>5, <1>7

LEMMA SoundTyped == SoundEvent \subseteq Event /\ SoundMessage \subseteq Message
  BY DEF SoundEvent, SoundMessage

\* The daemon works on its sessions.
LEMMA DaemonActsStep ==
    ASSUME SyncInv, DaemonActs
    PROVE  SyncInv'
<1>1. /\ DaemonStep /\ UNCHANGED <<phoneVars, linkVars, historyVars>>
      /\ TypeOK /\ BufferInv /\ RegistryTypeOK /\ TranscriptOrdered
      /\ events \in Seq(SoundEvent) /\ toPhone \in Seq(SoundMessage)
  BY DEF DaemonActs, SyncInv, TypeOK
<1>2. RegistryTypeOK' /\ BufferInv'
  BY <1>1, RegistryTypeStep, BufferStep
<1>3. TypeOK'
  BY <1>1, <1>2 DEF TypeOK, PhoneTypeOK, phoneVars, linkVars, historyVars
<1>4. UNCHANGED <<text, last, toPhone>>
  BY <1>1 DEF phoneVars, linkVars
<1>5. CASE \E s \in Sessions : Output(s)
  <2>1. PICK s \in Sessions : Output(s)
    BY <1>5
  <2>2. /\ seq \in Nat /\ status[s] \in Status /\ written[s] \in Seq(Nat)
        /\ written \in [Sessions -> Seq(Nat)]
    BY <1>1 DEF RegistryTypeOK
  <2>3. /\ events' = events \o <<Ev("terminal.output", s, seq + 1, status[s])>>
        /\ written' = [written EXCEPT ![s] = Append(@, seq + 1)]
        /\ seq + 1 \in Nat
    BY <2>1, <2>2 DEF Output, Emit
  <2>4. Grown(s)
    BY <2>3 DEF Grown
  <2>5. Ev("terminal.output", s, seq + 1, status[s]) \in SoundEvent'
    <3>1. Ev("terminal.output", s, seq + 1, status[s]) \in Event
      BY <2>2, <2>3, EventsTyped DEF EventNames
    <3>2. written'[s] = Append(written[s], seq + 1)
      BY <2>2, <2>3
    <3>3. /\ Len(written'[s]) \in 1 .. Len(written'[s])
          /\ written'[s][Len(written'[s])] = seq + 1
      BY <3>2, <2>2, <2>3, AppendNat
    <3>4. QED
      BY <3>1, <3>3 DEF SoundEvent, Ev
  <2>6. SoundEvent \subseteq SoundEvent' /\ SoundMessage \subseteq SoundMessage'
    BY <2>4, <1>1, SoundGrows
  <2>7. events \in Seq(SoundEvent') /\ toPhone \in Seq(SoundMessage')
    BY <2>6, <1>1, SeqMonotonic
  <2>8. <<Ev("terminal.output", s, seq + 1, status[s])>> \in Seq(SoundEvent')
    BY <2>5
  <2>9. events' \in Seq(SoundEvent') /\ toPhone' \in Seq(SoundMessage')
    BY <2>3, <2>7, <2>8, <1>4, ConcatProperties
  <2>10. TranscriptOrdered'
    BY <2>4, <1>1, <1>4, TranscriptKept
  <2>11. QED
    BY <1>2, <1>3, <2>9, <2>10 DEF SyncInv
<1>6. CASE /\ UNCHANGED written
           /\ events' = events \/
              \E evs \in Seq(QuietEvent) : events' = events \o evs
  <2>1. PICK s \in Sessions : TRUE
    BY <1>1 DEF DaemonStep
  <2>2. SoundEvent \subseteq SoundEvent' /\ SoundMessage \subseteq SoundMessage'
    BY <2>1, <1>1, <1>6, SoundGrows
  <2>3. events' \in Seq(SoundEvent)
    <3>1. \A evs \in Seq(QuietEvent) : evs \in Seq(SoundEvent)
      BY QuietIsSound, SeqMonotonic
    <3>2. QED
      BY <3>1, <1>1, <1>6, ConcatProperties
  <2>4. events' \in Seq(SoundEvent') /\ toPhone' \in Seq(SoundMessage')
    BY <2>2, <2>3, <1>1, <1>4, SeqMonotonic
  <2>5. TranscriptOrdered'
    BY <2>1, <1>1, <1>4, <1>6, TranscriptKept
  <2>6. QED
    BY <1>2, <1>3, <2>4, <2>5 DEF SyncInv
<1>7. QED
  BY <1>1, <1>5, <1>6, DaemonStepEvents

\* A step that sends or receives: the sessions stay as they are.
LEMMA ChannelStep ==
    ASSUME SyncInv,
           UNCHANGED <<status, announced, seq, buffer, active, lastId, restarts,
                       written>>,
           events' \in Seq(SoundEvent), toPhone' \in Seq(SoundMessage),
           TranscriptOrdered', TypeOK'
    PROVE  SyncInv'
  BY SessionsSame DEF SyncInv

LEMMA TerminalSame ==
    ASSUME TranscriptOrdered, UNCHANGED <<written, text, last>>
    PROVE  TranscriptOrdered'
  BY DEF TranscriptOrdered

\* What Head and Tail of a channel are.
LEMMA Received1 ==
    ASSUME toPhone \in Seq(SoundMessage), Received
    PROVE  Head(toPhone) \in SoundMessage /\ toPhone' \in Seq(SoundMessage)
  BY HeadTailProperties DEF Received

LEMMA SendEventStep ==
    ASSUME SyncInv, SendEvent
    PROVE  SyncInv'
<1>1. /\ TypeOK /\ TranscriptOrdered
      /\ events \in Seq(SoundEvent) /\ toPhone \in Seq(SoundMessage)
  BY DEF SyncInv
<1>2. events # <<>> /\ events' = Tail(events)
  BY DEF SendEvent
<1>3. Head(events) \in SoundEvent /\ events' \in Seq(SoundEvent)
  BY <1>1, <1>2, HeadTailProperties
<1>4. [kind |-> "event", event |-> Head(events)] \in SoundMessage
  BY <1>3 DEF SoundMessage, Message, SoundEvent
<1>5. Append(toPhone, [kind |-> "event", event |-> Head(events)])
          \in Seq(SoundMessage)
  BY <1>1, <1>4, AppendProperties
<1>6. toPhone' \in Seq(SoundMessage)
  BY <1>1, <1>5 DEF SendEvent
<1>7. events' \in Seq(Event) /\ toPhone' \in Seq(Message)
  BY <1>3, <1>6, SoundTyped, SeqMonotonic
<1>8. /\ UNCHANGED <<status, announced, seq, buffer, active, lastId, restarts,
                      written, phoneVars, linkUp, phase, opening, latest,
                      toDaemon, phoneDrops, daemonDrops, historyVars>>
  BY DEF SendEvent
<1>9. TypeOK'
  BY <1>1, <1>7, <1>8
     DEF TypeOK, RegistryTypeOK, PhoneTypeOK, phoneVars, historyVars
<1>10. TranscriptOrdered'
  BY <1>1, <1>8, TerminalSame DEF phoneVars
<1>11. QED
  BY <1>3, <1>6, <1>8, <1>9, <1>10, ChannelStep

LEMMA HandleRequestStep ==
    ASSUME SyncInv, HandleRequest
    PROVE  SyncInv'
<1>1. /\ TypeOK /\ BufferInv /\ TranscriptOrdered
      /\ events \in Seq(SoundEvent) /\ toPhone \in Seq(SoundMessage)
      /\ toDaemon \in Seq(Request)
  BY DEF SyncInv, TypeOK
<1>2. toDaemon # <<>> /\ toDaemon' = Tail(toDaemon)
  BY DEF HandleRequest
<1>3. Head(toDaemon) \in Request /\ toDaemon' \in Seq(Request)
  BY <1>1, <1>2, HeadTailProperties
<1>4. PICK m \in SoundMessage : toPhone' = Append(toPhone, m)
  BY <1>1, <1>3, AnswerSound DEF HandleRequest
<1>5. toPhone' \in Seq(SoundMessage)
  BY <1>1, <1>4, AppendProperties
<1>6. toPhone' \in Seq(Message)
  BY <1>5, SoundTyped, SeqMonotonic
<1>7. UNCHANGED <<daemonVars, phoneVars, linkUp, phase, opening, latest,
                  phoneDrops, daemonDrops, historyVars>>
  BY DEF HandleRequest
<1>8. TypeOK'
  BY <1>1, <1>3, <1>6, <1>7
     DEF TypeOK, RegistryTypeOK, PhoneTypeOK, daemonVars, phoneVars, historyVars
<1>9. TranscriptOrdered'
  BY <1>1, <1>7, TerminalSame DEF phoneVars, daemonVars
<1>10. QED
  BY <1>1, <1>5, <1>7, <1>8, <1>9, ChannelStep DEF daemonVars

LEMMA DaemonDropStep ==
    ASSUME SyncInv, DaemonDrop
    PROVE  SyncInv'
<1>1. /\ TypeOK /\ TranscriptOrdered
      /\ events \in Seq(SoundEvent) /\ toPhone \in Seq(SoundMessage)
  BY DEF SyncInv
<1>2. LoseLink
  BY DEF DaemonDrop
<1>3. /\ toPhone' \in Seq(SoundMessage) /\ toDaemon' \in Seq(Request)
      /\ linkUp' \in BOOLEAN /\ intact' \subseteq Sessions
  BY <1>1, <1>2, LoseLinkSound
<1>4. toPhone' \in Seq(Message)
  BY <1>3, SoundTyped, SeqMonotonic
<1>5. /\ UNCHANGED <<daemonVars, phoneVars>>
      /\ daemonDrops' = daemonDrops + 1
  BY DEF DaemonDrop
<1>6. UNCHANGED <<phase, opening, latest, phoneDrops, skipped>>
  BY <1>2 DEF LoseLink
<1>7. TypeOK'
  <2>1. RegistryTypeOK'
    BY <1>1, <1>5 DEF TypeOK, RegistryTypeOK, daemonVars
  <2>2. PhoneTypeOK'
    BY <1>1, <1>5 DEF TypeOK, PhoneTypeOK, phoneVars
  <2>3. daemonDrops' \in Nat
    BY <1>1, <1>5 DEF TypeOK
  <2>4. QED
    BY <2>1, <2>2, <2>3, <1>1, <1>3, <1>4, <1>6 DEF TypeOK
<1>8. TranscriptOrdered'
  BY <1>1, <1>5, TerminalSame DEF phoneVars, daemonVars
<1>9. QED
  BY <1>1, <1>3, <1>5, <1>7, <1>8, ChannelStep DEF daemonVars

LEMMA DaemonCrashStep ==
    ASSUME SyncInv, DaemonCrash
    PROVE  SyncInv'
<1>1. /\ TypeOK /\ RegistryTypeOK /\ BufferInv /\ TranscriptOrdered
      /\ toPhone \in Seq(SoundMessage)
  BY DEF SyncInv, TypeOK
<1>2. DaemonRestart /\ LoseLink /\ UNCHANGED <<phoneVars, daemonDrops>>
  BY DEF DaemonCrash
<1>3. /\ toPhone' \in Seq(SoundMessage) /\ toDaemon' \in Seq(Request)
      /\ linkUp' \in BOOLEAN /\ intact' \subseteq Sessions
  BY <1>1, <1>2, LoseLinkSound
<1>4. toPhone' \in Seq(Message)
  BY <1>3, SoundTyped, SeqMonotonic
<1>5. RegistryTypeOK' /\ BufferInv'
  BY <1>1, <1>2, RegistryTypeStep, BufferStep
<1>6. UNCHANGED <<phase, opening, latest, phoneDrops, skipped>>
  BY <1>2 DEF LoseLink
<1>7. events' = <<>> /\ written' = written
  BY <1>2 DEF DaemonRestart
<1>8. TypeOK'
  BY <1>1, <1>2, <1>3, <1>4, <1>5, <1>6 DEF TypeOK, PhoneTypeOK, phoneVars
<1>9. TranscriptOrdered'
  BY <1>1, <1>2, <1>7, TerminalSame DEF phoneVars
<1>10. SoundMessage' = SoundMessage
  <2>1. SoundEvent' = SoundEvent
    BY <1>7 DEF SoundEvent
  <2>2. SoundView' = SoundView
    BY <1>7 DEF SoundView
  <2>3. QED
    BY <2>1, <2>2 DEF SoundMessage
<1>11. events' \in Seq(SoundEvent')
  BY <1>7, EmptySeq
<1>12. QED
  BY <1>3, <1>5, <1>8, <1>9, <1>10, <1>11 DEF SyncInv

LEMMA DaemonRegisterStep ==
    ASSUME SyncInv, DaemonRegister
    PROVE  SyncInv'
<1>1. /\ TypeOK /\ TranscriptOrdered
      /\ events \in Seq(SoundEvent) /\ toPhone \in Seq(SoundMessage)
  BY DEF SyncInv
<1>2. PICK order \in Listings(Entries, Cardinality(Sessions)) :
          Emit([i \in DOMAIN order |->
                   Ev("session.updated", order[i], 0, status[order[i]])])
  BY DEF DaemonRegister
<1>3. order \in Seq(Entries)
  BY SyncAssumption, FS_CardinalityType, ListingsTyped
<1>4. [i \in DOMAIN order |->
          Ev("session.updated", order[i], 0, status[order[i]])]
              \in Seq(SoundEvent)
  <2>1. PICK n \in Nat : order \in [1 .. n -> Entries]
    BY <1>3, LenProperties
  <2>2. \A i \in 1 .. n : order[i] \in Sessions /\ status[order[i]] \in Status
    BY <2>1, <1>1 DEF Entries, TypeOK, RegistryTypeOK
  <2>3. \A i \in 1 .. n :
            Ev("session.updated", order[i], 0, status[order[i]]) \in SoundEvent
    BY <2>2, QuietEvents, QuietIsSound DEF EventNames
  <2>4. [i \in 1 .. n |-> Ev("session.updated", order[i], 0, status[order[i]])]
            \in [1 .. n -> SoundEvent]
    BY <2>3
  <2>5. QED
    BY <2>1, <2>4, SeqDef
<1>5. events' \in Seq(SoundEvent)
  BY <1>1, <1>2, <1>4, ConcatProperties DEF Emit
<1>6. events' \in Seq(Event)
  BY <1>5, SoundTyped, SeqMonotonic
<1>7. /\ linkUp' = TRUE
      /\ UNCHANGED <<status, announced, seq, buffer, active, lastId, restarts,
                      written, phoneVars, phase, opening, latest, toDaemon,
                      toPhone, phoneDrops, daemonDrops, historyVars>>
  BY DEF DaemonRegister
<1>8. TypeOK'
  BY <1>1, <1>6, <1>7
     DEF TypeOK, RegistryTypeOK, PhoneTypeOK, phoneVars, historyVars
<1>9. TranscriptOrdered'
  BY <1>1, <1>7, TerminalSame DEF phoneVars
<1>10. QED
  BY <1>1, <1>5, <1>7, <1>8, <1>9, ChannelStep

-----------------------------------------------------------------------------
(* The phone's end.                                                        *)

LinkTypeOK ==
    /\ linkUp \in BOOLEAN /\ phase \in Phases
    /\ opening \subseteq Sessions /\ latest \in Sessions \cup {None}
    /\ toDaemon \in Seq(Request)
    /\ phoneDrops \in Nat /\ daemonDrops \in Nat
    /\ intact \subseteq Sessions /\ skipped \subseteq Sessions

\* A step of the phone: the daemon stays as it is.
LEMMA PhoneStep ==
    ASSUME SyncInv, UNCHANGED daemonVars, toPhone' \in Seq(SoundMessage),
           PhoneTypeOK', LinkTypeOK', TranscriptOrdered'
    PROVE  SyncInv'
<1>1. /\ TypeOK /\ events' \in Seq(SoundEvent)
      /\ UNCHANGED <<status, announced, seq, buffer, active, lastId, restarts,
                      written>>
  BY DEF SyncInv, daemonVars
<1>2. toPhone' \in Seq(Message)
  BY SoundTyped, SeqMonotonic
<1>3. RegistryTypeOK'
  BY <1>1, SessionsSame DEF SyncInv
<1>4. TypeOK'
  BY <1>2, <1>3 DEF TypeOK, LinkTypeOK
<1>5. QED
  BY <1>1, <1>4, ChannelStep

\* A step that changes nothing the phone shows.
LEMMA LinkStep ==
    ASSUME SyncInv, UNCHANGED <<daemonVars, phoneVars>>,
           toPhone' \in Seq(SoundMessage), LinkTypeOK'
    PROVE  SyncInv'
<1>1. PhoneTypeOK'
  BY DEF SyncInv, TypeOK, PhoneTypeOK, phoneVars
<1>2. TranscriptOrdered'
  BY TerminalSame DEF SyncInv, phoneVars, daemonVars
<1>3. QED
  BY <1>1, <1>2, PhoneStep

LEMMA LinkTyped == SyncInv => LinkTypeOK /\ PhoneTypeOK /\ RegistryTypeOK
  BY DEF SyncInv, TypeOK, LinkTypeOK

LEMMA SynchronizeStep ==
    ASSUME SyncInv, Synchronize
    PROVE  SyncInv'
<1>1. toPhone' \in Seq(SoundMessage)
  BY EmptySeq DEF Synchronize
<1>2. <<[method |-> "list", session |-> None, after |-> NoSeq, by |-> "sync"]>>
          \in Seq(Request)
  BY DEF Request
<1>3. LinkTypeOK'
  BY <1>2, LinkTyped DEF Synchronize, LinkTypeOK, Phases, historyVars
<1>4. QED
  BY <1>1, <1>3, LinkStep DEF Synchronize

LEMMA LoseSocketStep ==
    ASSUME SyncInv, Disconnect \/ Retry
    PROVE  SyncInv'
<1>1. LoseSocket /\ opening' \subseteq Sessions
  BY LinkTyped DEF Disconnect, Retry, LinkTypeOK
<1>2. /\ phase' = "away" /\ toDaemon' = <<>> /\ toPhone' = <<>> /\ intact' = {}
      /\ phoneDrops' = phoneDrops + 1
      /\ UNCHANGED <<daemonVars, phoneVars, linkUp, latest, daemonDrops, skipped>>
  BY <1>1 DEF LoseSocket
<1>3. toPhone' \in Seq(SoundMessage) /\ toDaemon' \in Seq(Request)
  BY <1>2, EmptySeq
<1>4. LinkTypeOK'
  BY <1>1, <1>2, <1>3, LinkTyped DEF LinkTypeOK, Phases
<1>5. QED
  BY <1>2, <1>3, <1>4, LinkStep

\* receiveEvent keeps what the phone shows in order.
LEMMA EventReduced ==
    ASSUME SyncInv, UNCHANGED daemonVars, NEW e \in SoundEvent, ReceiveEvent(e)
    PROVE  PhoneTypeOK' /\ TranscriptOrdered'
<1>1. /\ PhoneTypeOK /\ RegistryTypeOK /\ TranscriptOrdered
      /\ UNCHANGED written /\ UNCHANGED open
  BY LinkTyped DEF SyncInv, daemonVars, ReceiveEvent
<1>2. e \in Event /\ e.session \in Sessions /\ e.n \in Nat /\ e.status \in Status
  BY DEF SoundEvent, Event
<1>3. CASE e.event = "terminal.output" /\ ReduceOutput(e)
  <2>1. PICK s \in Sessions, n \in Nat : s = e.session /\ n = e.n
    BY <1>2
  <2>2. UNCHANGED <<known, shown>>
    BY <1>3 DEF ReduceOutput
  <2>3. CASE /\ n > last[s]
             /\ text' = [text EXCEPT ![s] = Trim(Append(@, n))]
             /\ last' = [last EXCEPT ![s] = n]
    <3>1. text[s] \in Seq(Nat) /\ written[s] \in Seq(Nat)
      BY <1>1 DEF PhoneTypeOK, RegistryTypeOK
    <3>2. PICK l \in 1 .. Len(written[s]) : n = written[s][l]
      BY <1>3, <2>1 DEF SoundEvent
    <3>3. /\ Increasing(text[s]) /\ PartOf(text[s], written[s])
          /\ text[s] # <<>> => n > Last(text[s])
      BY <2>3, <1>1 DEF TranscriptOrdered
    <3>4. /\ Append(text[s], n) \in Seq(Nat) /\ Append(text[s], n) # <<>>
          /\ Increasing(Append(text[s], n))
          /\ PartOf(Append(text[s], n), written[s])
          /\ Last(Append(text[s], n)) = n
      BY <3>1, <3>2, <3>3, AppendKeeps, SMTT(20)
    <3>5. /\ text' = [text EXCEPT ![s] = Trim(Append(text[s], n))]
          /\ last' = [last EXCEPT ![s] = Last(Append(text[s], n))]
      BY <2>3, <3>4
    <3>6. /\ TranscriptOrdered' /\ text' \in [Sessions -> Seq(Nat)]
          /\ last' \in [Sessions -> Nat \cup {NoSeq}]
      BY <3>4, <3>5, <1>1, TextReplaced
    <3>7. QED
      BY <3>6, <2>2, <1>1 DEF PhoneTypeOK
  <2>4. CASE UNCHANGED <<text, last>>
    BY <2>4, <2>2, <1>1, TerminalSame DEF PhoneTypeOK
  <2>5. QED
    BY <1>3, <2>1, <2>3, <2>4 DEF ReduceOutput, IsNew
<1>4. CASE ReduceSession(e) \/ ReduceEnded(e) \/ ReduceInteraction(e)
  <2>1. UNCHANGED <<text, last>>
    BY <1>4 DEF ReduceSession, ReduceEnded, ReduceInteraction
  <2>2. known' \in [Sessions -> Status] /\ shown' \in [Sessions -> Nat]
    <3>1. CASE ReduceSession(e)
      BY <3>1, <1>1, <1>2 DEF ReduceSession, PhoneTypeOK
    <3>2. CASE ReduceEnded(e)
      BY <3>2, <1>1, <1>2, StatusValues DEF ReduceEnded, PhoneTypeOK
    <3>3. CASE ReduceInteraction(e)
      BY <3>3, <1>1, <1>2 DEF ReduceInteraction, PhoneTypeOK
    <3>4. QED
      BY <3>1, <3>2, <3>3, <1>4
  <2>3. QED
    BY <2>1, <2>2, <1>1, TerminalSame DEF PhoneTypeOK
<1>5. QED
  BY <1>3, <1>4 DEF ReceiveEvent

\* session/subscribeReceived keeps what the phone shows in order.
LEMMA ViewReduced ==
    ASSUME SyncInv, UNCHANGED daemonVars, NEW v \in SoundView,
           SubscribeReceived(v)
    PROVE  PhoneTypeOK' /\ TranscriptOrdered'
<1>1. /\ PhoneTypeOK /\ RegistryTypeOK /\ TranscriptOrdered
      /\ UNCHANGED written
  BY LinkTyped DEF SyncInv, daemonVars
<1>2. /\ v.session \in Sessions /\ v.status \in Status /\ v.active \in Nat
      /\ v.text \in Seq(Nat)
  BY DEF SoundView, View
<1>3. /\ known' \in [Sessions -> Status] /\ shown' \in [Sessions -> Nat]
      /\ open' \in Sessions \cup {None}
  BY <1>1, <1>2 DEF SubscribeReceived, PhoneTypeOK
<1>4. CASE /\ v.mode = "snapshot"
           /\ text' = [text EXCEPT ![v.session] = SnapshotOf(v)]
           /\ last' = [last EXCEPT ![v.session] = Last(v.text)]
  <2>1. /\ v.text # <<>> /\ Increasing(v.text)
        /\ v.text \in Terminal!Runs(written[v.session])
    BY <1>4 DEF SoundView
  <2>2. written[v.session] \in Seq(Nat)
    BY <1>1, <1>2 DEF RegistryTypeOK
  <2>3. PartOf(v.text, written[v.session])
    BY <2>1, <2>2, RunIsPart
  <2>4. /\ TranscriptOrdered' /\ text' \in [Sessions -> Seq(Nat)]
        /\ last' \in [Sessions -> Nat \cup {NoSeq}]
    BY <1>1, <1>2, <1>4, <2>1, <2>3, TextReplaced DEF SnapshotOf
  <2>5. QED
    BY <2>4, <1>3 DEF PhoneTypeOK
<1>5. CASE UNCHANGED <<text, last>>
  BY <1>5, <1>3, <1>1, TerminalSame DEF PhoneTypeOK
<1>6. QED
  BY <1>4, <1>5 DEF SubscribeReceived

LEMMA ReceivePushedStep ==
    ASSUME SyncInv, ReceivePushed
    PROVE  SyncInv'
<1>1. /\ toPhone \in Seq(SoundMessage)
      /\ LinkTypeOK /\ PhoneTypeOK /\ RegistryTypeOK /\ TranscriptOrdered
  BY LinkTyped DEF SyncInv
<1>2. /\ Received /\ Head(toPhone).kind = "event"
      /\ UNCHANGED <<daemonVars, linkUp, phase, opening, latest, toDaemon,
                     phoneDrops, daemonDrops, intact>>
  BY DEF ReceivePushed
<1>3. PICK e : e = Head(toPhone).event
  OBVIOUS
<1>4. e \in SoundEvent /\ toPhone' \in Seq(SoundMessage)
  BY <1>1, <1>2, <1>3, Received1 DEF SoundMessage
<1>5. e.session \in Sessions
  BY <1>4 DEF SoundEvent, Event
<1>6. CASE ReceiveEvent(e) /\ UNCHANGED skipped
  <2>1. PhoneTypeOK' /\ TranscriptOrdered'
    BY <1>2, <1>4, <1>6, EventReduced
  <2>2. LinkTypeOK'
    BY <1>1, <1>2, <1>6 DEF LinkTypeOK
  <2>3. QED
    BY <2>1, <2>2, <1>2, <1>4, PhoneStep
<1>7. CASE /\ skipped' \in {skipped, skipped \cup {e.session}}
           /\ UNCHANGED phoneVars
  <2>1. LinkTypeOK'
    BY <1>1, <1>2, <1>5, <1>7 DEF LinkTypeOK
  <2>2. QED
    BY <2>1, <1>2, <1>4, <1>7, LinkStep
<1>8. QED
  BY <1>3, <1>6, <1>7 DEF ReceivePushed

LEMMA ReceiveListStep ==
    ASSUME SyncInv, ReceiveList
    PROVE  SyncInv'
<1>1. /\ toPhone \in Seq(SoundMessage)
      /\ LinkTypeOK /\ PhoneTypeOK /\ TranscriptOrdered
  BY LinkTyped DEF SyncInv
<1>2. /\ Received /\ Head(toPhone).kind = "list" /\ skipped' = {}
      /\ ListReceived(Head(toPhone).list)
      /\ UNCHANGED <<daemonVars, linkUp, opening, latest, phoneDrops,
                     daemonDrops, intact>>
  BY DEF ReceiveList
<1>3. PICK list : list = Head(toPhone).list
  OBVIOUS
<1>4. list \in [Sessions -> Status] /\ toPhone' \in Seq(SoundMessage)
  BY <1>1, <1>2, <1>3, Received1 DEF SoundMessage, Message
<1>5. known' = list /\ UNCHANGED <<text, last, shown, open>>
  BY <1>2, <1>3 DEF ListReceived
<1>6. PhoneTypeOK' /\ TranscriptOrdered'
  BY <1>1, <1>2, <1>4, <1>5, TerminalSame DEF PhoneTypeOK, daemonVars
<1>7. phase' \in Phases /\ toDaemon' \in Seq(Request)
  <2>1. CASE phase' = "online" /\ UNCHANGED toDaemon
    BY <2>1, <1>1 DEF LinkTypeOK, Phases
  <2>2. CASE /\ open # None /\ phase' = "subscribing"
             /\ toDaemon' = Append(toDaemon,
                   [method |-> "subscribe", session |-> open,
                    after |-> last[open], by |-> "sync"])
    <3>1. [method |-> "subscribe", session |-> open,
           after |-> last[open], by |-> "sync"] \in Request
      BY <2>2, <1>1 DEF Request, PhoneTypeOK
    <3>2. QED
      BY <3>1, <2>2, <1>1, AppendProperties DEF LinkTypeOK, Phases
  <2>3. QED
    BY <2>1, <2>2 DEF ReceiveList
<1>8. LinkTypeOK'
  BY <1>1, <1>2, <1>7 DEF LinkTypeOK
<1>9. QED
  BY <1>2, <1>4, <1>6, <1>8, PhoneStep

\* A view taken off the channel, by either of the two that ask for one.
LEMMA ViewTaken ==
    ASSUME SyncInv, Received, Head(toPhone).kind = "view"
    PROVE  /\ Head(toPhone).view \in SoundView
           /\ Head(toPhone).view.session \in Sessions
           /\ toPhone' \in Seq(SoundMessage)
<1>1. Head(toPhone) \in SoundMessage /\ toPhone' \in Seq(SoundMessage)
  BY Received1 DEF SyncInv
<1>2. Head(toPhone).view \in SoundView
  BY <1>1 DEF SoundMessage
<1>3. QED
  BY <1>1, <1>2 DEF SoundView, View

LEMMA ReceiveSyncStep ==
    ASSUME SyncInv, ReceiveSync
    PROVE  SyncInv'
<1>1. PICK v : v = Head(toPhone).view
  OBVIOUS
<1>2. /\ Received /\ Head(toPhone).kind = "view" /\ phase' = "online"
      /\ SubscribeReceived(v) /\ Viewed(Head(toPhone))
      /\ UNCHANGED <<daemonVars, linkUp, opening, latest, toDaemon, phoneDrops,
                     daemonDrops, skipped>>
  BY <1>1 DEF ReceiveSync
<1>3. v \in SoundView /\ v.session \in Sessions /\ toPhone' \in Seq(SoundMessage)
  BY <1>1, <1>2, ViewTaken
<1>4. intact' \subseteq Sessions
  BY <1>1, <1>2, <1>3, LinkTyped DEF Viewed, LinkTypeOK
<1>5. LinkTypeOK'
  BY <1>2, <1>4, LinkTyped DEF LinkTypeOK, Phases
<1>6. PhoneTypeOK' /\ TranscriptOrdered'
  BY <1>2, <1>3, ViewReduced
<1>7. QED
  BY <1>2, <1>3, <1>5, <1>6, PhoneStep

LEMMA ReceiveOpenedStep ==
    ASSUME SyncInv, ReceiveOpened
    PROVE  SyncInv'
<1>1. PICK v : v = Head(toPhone).view
  OBVIOUS
<1>2. /\ Received /\ Head(toPhone).kind = "view"
      /\ opening' = opening \ {v.session}
      /\ UNCHANGED <<daemonVars, linkUp, phase, latest, toDaemon, phoneDrops,
                     daemonDrops, skipped>>
      /\ \/ SubscribeReceived(v) /\ Viewed(Head(toPhone))
         \/ UNCHANGED <<phoneVars, intact>>
  BY <1>1 DEF ReceiveOpened
<1>3. v \in SoundView /\ v.session \in Sessions /\ toPhone' \in Seq(SoundMessage)
  BY <1>1, <1>2, ViewTaken
<1>4. intact' \subseteq Sessions
  BY <1>1, <1>2, <1>3, LinkTyped DEF Viewed, LinkTypeOK
<1>5. LinkTypeOK'
  BY <1>2, <1>4, LinkTyped DEF LinkTypeOK
<1>6. CASE SubscribeReceived(v)
  <2>1. PhoneTypeOK' /\ TranscriptOrdered'
    BY <1>2, <1>3, <1>6, ViewReduced
  <2>2. QED
    BY <2>1, <1>2, <1>3, <1>5, PhoneStep
<1>7. CASE UNCHANGED phoneVars
  BY <1>2, <1>3, <1>5, <1>7, LinkStep
<1>8. QED
  BY <1>2, <1>6, <1>7

LEMMA ReceiveErrorStep ==
    ASSUME SyncInv, ReceiveError
    PROVE  SyncInv'
<1>1. /\ Received /\ phase' \in {phase, "recovery", "away"}
      /\ opening' \subseteq opening
      /\ UNCHANGED <<daemonVars, phoneVars, linkUp, latest, toDaemon, phoneDrops,
                     daemonDrops, historyVars>>
  BY DEF ReceiveError
<1>2. toPhone' \in Seq(SoundMessage)
  BY <1>1, Received1 DEF SyncInv
<1>3. LinkTypeOK'
  BY <1>1, LinkTyped DEF LinkTypeOK, Phases, historyVars
<1>4. QED
  BY <1>1, <1>2, <1>3, LinkStep

LEMMA OpenSessionStep ==
    ASSUME SyncInv, NEW s \in Sessions, OpenSession(s)
    PROVE  SyncInv'
<1>1. LinkTypeOK /\ PhoneTypeOK /\ TranscriptOrdered /\ toPhone \in Seq(SoundMessage)
  BY LinkTyped DEF SyncInv
<1>2. /\ latest' = s /\ Opened(s)
      /\ UNCHANGED <<daemonVars, linkUp, phase, toPhone, phoneDrops, daemonDrops,
                     historyVars>>
  BY DEF OpenSession
<1>3. PhoneTypeOK' /\ TranscriptOrdered'
  BY <1>1, <1>2, TerminalSame DEF Opened, PhoneTypeOK, daemonVars
<1>4. opening' \subseteq Sessions /\ toDaemon' \in Seq(Request)
  <2>1. CASE UNCHANGED <<opening, toDaemon>>
    BY <2>1, <1>1 DEF LinkTypeOK
  <2>2. CASE /\ opening' = opening \cup {s}
             /\ toDaemon' = Append(toDaemon,
                   [method |-> "subscribe", session |-> s,
                    after |-> IF open = s THEN last[s] ELSE NoSeq,
                    by |-> "open"])
    <3>1. [method |-> "subscribe", session |-> s,
           after |-> IF open = s THEN last[s] ELSE NoSeq, by |-> "open"]
              \in Request
      BY <1>1 DEF Request, PhoneTypeOK
    <3>2. QED
      BY <3>1, <2>2, <1>1, AppendProperties DEF LinkTypeOK
  <2>3. QED
    BY <2>1, <2>2 DEF OpenSession
<1>5. LinkTypeOK'
  BY <1>1, <1>2, <1>4 DEF LinkTypeOK, historyVars
<1>6. QED
  BY <1>1, <1>2, <1>3, <1>5, PhoneStep

-----------------------------------------------------------------------------
(* The theorems.                                                           *)

LEMMA SyncInvInit == Init => SyncInv
<1> SUFFICES ASSUME Init PROVE SyncInv
  OBVIOUS
<1>1. RegistryInit /\ PhoneInit
  BY DEF Init
<1>2. RegistryTypeOK
  BY <1>1, EmptySeq DEF RegistryInit, RegistryTypeOK, Status
<1>3. BufferInv
  BY <1>1 DEF RegistryInit, BufferInv, Started
<1>4. PhoneTypeOK
  BY <1>1, EmptySeq DEF PhoneInit, PhoneTypeOK, Status
<1>5. events \in Seq(SoundEvent) /\ toPhone \in Seq(SoundMessage)
  BY <1>1, EmptySeq DEF Init, RegistryInit
<1>6. TypeOK
  BY <1>2, <1>4, EmptySeq DEF Init, TypeOK, Phases
<1>7. TranscriptOrdered
  <2>1. Increasing(<<>>) /\ \A w : PartOf(<<>>, w)
    BY DEF Increasing, PartOf
  <2>2. \A s \in Sessions : text[s] = <<>> /\ last[s] = NoSeq
    BY <1>1 DEF PhoneInit
  <2>3. QED
    BY <2>1, <2>2 DEF TranscriptOrdered
<1>8. QED
  BY <1>3, <1>5, <1>6, <1>7 DEF SyncInv

LEMMA SyncInvStep == SyncInv /\ [Next]_syncVars => SyncInv'
<1> SUFFICES ASSUME SyncInv, [Next]_syncVars PROVE SyncInv'
  OBVIOUS
<1>1. CASE UNCHANGED syncVars
  BY <1>1, LinkStep, LinkTyped
     DEF syncVars, linkVars, historyVars, LinkTypeOK, SyncInv
<1>2. CASE Next
  BY <1>2, DaemonActsStep, SendEventStep, HandleRequestStep, DaemonDropStep,
     DaemonCrashStep, DaemonRegisterStep, SynchronizeStep, LoseSocketStep,
     ReceivePushedStep, ReceiveListStep, ReceiveSyncStep, ReceiveOpenedStep,
     ReceiveErrorStep, OpenSessionStep
     DEF Next, Receive
<1>3. QED
  BY <1>1, <1>2

LEMMA SyncInvariant == Spec => []SyncInv
BY SyncInvInit, SyncInvStep, PTL DEF Spec

\* Types of the phone, the daemon and the channels between them.
THEOREM SyncTyped == Spec => []TypeOK
<1>1. SyncInv => TypeOK
  BY DEF SyncInv
<1>2. QED
  BY <1>1, SyncInvariant, PTL

\* The terminal of the phone shows outputs of its session, in order, each once.
THEOREM Ordered == Spec => []TranscriptOrdered
<1>1. SyncInv => TranscriptOrdered
  BY DEF SyncInv
<1>2. QED
  BY <1>1, SyncInvariant, PTL

-----------------------------------------------------------------------------
(* The phone's terminal implements Transcript.                             *)

TerminalStep == [Terminal!Next]_<<written, text>>

LEMMA TrimIsKept == \A t : Trim(t) = Terminal!Kept(t)
  BY DEF Trim, Terminal!Kept

LEMMA OutputWrites ==
    ASSUME SyncInv, NEW s \in Sessions, Output(s), UNCHANGED text
    PROVE  TerminalStep
<1>1. /\ seq \in Nat /\ seq < MaxSeq
      /\ written' = [written EXCEPT ![s] = Append(@, seq + 1)]
      /\ written[s] \in Seq(Nat)
  BY LinkTyped DEF Output, RegistryTypeOK
<1>2. Rising(written[s], seq)
  BY DEF SyncInv, BufferInv, Started, Output
<1>3. \A i \in 1 .. Len(written[s]) : seq + 1 > written[s][i]
  BY <1>1, <1>2, ElementOfSeq DEF Rising
<1>4. Terminal!Write(s, seq + 1)
  BY <1>1, <1>3 DEF Terminal!Write
<1>5. seq + 1 \in 1 .. MaxSeq
  BY <1>1, RegistryAssumption
<1>6. QED
  BY <1>4, <1>5 DEF TerminalStep, Terminal!Next

LEMMA EventShows ==
    ASSUME SyncInv, UNCHANGED written, NEW e \in SoundEvent, ReceiveEvent(e)
    PROVE  TerminalStep
<1>1. PhoneTypeOK /\ RegistryTypeOK /\ TranscriptOrdered
  BY LinkTyped DEF SyncInv
<1>2. PICK s \in Sessions, n \in Nat : s = e.session /\ n = e.n
  BY DEF SoundEvent, Event
<1>3. CASE /\ e.event = "terminal.output" /\ n > last[s]
           /\ text' = [text EXCEPT ![s] = Trim(Append(@, n))]
  <2>1. text[s] \in Seq(Nat) /\ written[s] \in Seq(Nat)
    BY <1>1 DEF PhoneTypeOK, RegistryTypeOK
  <2>2. PICK l \in 1 .. Len(written[s]) : n = written[s][l]
    BY <1>2, <1>3 DEF SoundEvent
  <2>3. /\ Increasing(text[s]) /\ PartOf(text[s], written[s])
        /\ text[s] # <<>> => n > Last(text[s])
    BY <1>1, <1>3 DEF TranscriptOrdered
  <2>4. \A i \in 1 .. Len(text[s]) : n > text[s][i]
    BY <2>1, <2>2, <2>3, AppendKeeps
  <2>5. text' = [text EXCEPT ![s] = Terminal!Kept(Append(@, written[s][l]))]
    BY <1>3, <2>2, TrimIsKept
  <2>6. Terminal!Show(s, l)
    BY <2>2, <2>4, <2>5 DEF Terminal!Show
  <2>7. QED
    BY <2>6 DEF TerminalStep, Terminal!Next
<1>4. CASE UNCHANGED text
  BY <1>4 DEF TerminalStep
<1>5. QED
  BY <1>2, <1>3, <1>4
     DEF ReceiveEvent, ReduceOutput, IsNew, ReduceSession, ReduceEnded,
         ReduceInteraction

LEMMA ViewShows ==
    ASSUME UNCHANGED written, NEW v \in SoundView, SubscribeReceived(v)
    PROVE  TerminalStep
<1>1. CASE /\ v.mode = "snapshot"
           /\ text' = [text EXCEPT ![v.session] = Trim(v.text)]
  <2>1. PICK s, run : s \in Sessions /\ s = v.session /\ run = v.text
    BY DEF SoundView, View
  <2>2. run \in Terminal!Runs(written[s])
    BY <1>1, <2>1 DEF SoundView
  <2>3. text' = [text EXCEPT ![s] = Terminal!Kept(run)]
    BY <1>1, <2>1, TrimIsKept
  <2>4. Terminal!Replace(s, run)
    BY <2>3 DEF Terminal!Replace
  <2>5. QED
    BY <2>1, <2>2, <2>4 DEF TerminalStep, Terminal!Next
<1>2. CASE UNCHANGED text
  BY <1>2 DEF TerminalStep
<1>3. QED
  BY <1>1, <1>2 DEF SubscribeReceived, SnapshotOf

LEMMA NextShows ==
    ASSUME SyncInv, Next
    PROVE  TerminalStep
<1>1. CASE DaemonActs
  <2>1. DaemonStep /\ UNCHANGED text
    BY <1>1 DEF DaemonActs, phoneVars
  <2>2. UNCHANGED written \/ \E s \in Sessions : Output(s)
    BY <2>1, LinkTyped, DaemonStepEvents
  <2>3. QED
    BY <2>1, <2>2, OutputWrites DEF TerminalStep
<1>2. CASE ReceivePushed
  <2>1. /\ UNCHANGED written
        /\ ReceiveEvent(Head(toPhone).event) \/ UNCHANGED text
    BY <1>2 DEF ReceivePushed, daemonVars, phoneVars
  <2>2. Head(toPhone).event \in SoundEvent
    BY <1>2, Received1 DEF ReceivePushed, SyncInv, SoundMessage
  <2>3. QED
    BY <2>1, <2>2, EventShows DEF TerminalStep
<1>3. CASE ReceiveSync \/ ReceiveOpened
  <2>1. /\ UNCHANGED written
        /\ SubscribeReceived(Head(toPhone).view) \/ UNCHANGED text
    BY <1>3 DEF ReceiveSync, ReceiveOpened, daemonVars, phoneVars
  <2>2. Head(toPhone).view \in SoundView
    BY <1>3, ViewTaken DEF ReceiveSync, ReceiveOpened
  <2>3. QED
    BY <2>1, <2>2, ViewShows DEF TerminalStep
<1>4. ASSUME UNCHANGED <<written, text>> PROVE TerminalStep
  BY <1>4 DEF TerminalStep
<1>5. CASE SendEvent \/ HandleRequest \/ DaemonRegister
  BY <1>4, <1>5
     DEF SendEvent, HandleRequest, DaemonRegister, daemonVars, phoneVars
<1>6. CASE DaemonDrop \/ DaemonCrash
  BY <1>4, <1>6
     DEF DaemonDrop, DaemonCrash, DaemonRestart, daemonVars, phoneVars
<1>7. CASE Synchronize \/ Disconnect \/ Retry
  BY <1>4, <1>7
     DEF Synchronize, Disconnect, Retry, LoseSocket, daemonVars, phoneVars
<1>8. CASE ReceiveList \/ ReceiveError
  BY <1>4, <1>8
     DEF ReceiveList, ReceiveError, ListReceived, daemonVars, phoneVars
<1>9. CASE \E s \in Sessions : OpenSession(s)
  BY <1>4, <1>9 DEF OpenSession, Opened, daemonVars
<1>10. QED
  BY <1>1, <1>2, <1>3, <1>5, <1>6, <1>7, <1>8, <1>9 DEF Next, Receive

\* Whatever is lost, overtaken or sent twice, the phone's terminal changes only
\* as Transcript allows.
THEOREM TerminalImplementsTranscript == Spec => RefinesTranscript
<1>1. Init => Terminal!Init
  BY DEF Init, RegistryInit, PhoneInit, Terminal!Init
<1>2. SyncInv /\ [Next]_syncVars => TerminalStep
  <2>1. SyncInv /\ Next => TerminalStep
    BY NextShows
  <2>2. UNCHANGED syncVars => TerminalStep
    BY DEF TerminalStep, syncVars, daemonVars, phoneVars
  <2>3. QED
    BY <2>1, <2>2
<1>3. QED
  BY <1>1, <1>2, SyncInvariant, PTL
     DEF Spec, RefinesTranscript, TerminalStep, Terminal!Spec

\* Only the user, the answer to what the user opened last, and a
\* resynchronisation change the session the phone has open.
THEOREM Reopening == Spec => OnlyResyncReopens
<1> DEFINE A == open' # open => open' = latest' \/ phase = "subscribing"
<1>1. [Next]_syncVars => [A]_syncVars
  <2>1. SUFFICES ASSUME Next PROVE A
    OBVIOUS
  <2>2. CASE ReceiveSync
    BY <2>2 DEF ReceiveSync
  <2>3. CASE ReceiveOpened
    BY <2>3 DEF ReceiveOpened, IsLatest, SubscribeReceived, phoneVars
  <2>4. CASE \E s \in Sessions : OpenSession(s)
    BY <2>4 DEF OpenSession, Opened
  <2>5. CASE ReceivePushed \/ ReceiveList \/ ReceiveError
    BY <2>5 DEF ReceivePushed, ReceiveEvent, ReceiveList, ListReceived,
                ReceiveError, phoneVars
  <2>6. CASE DaemonActs \/ SendEvent \/ HandleRequest \/ DaemonRegister
    BY <2>6 DEF DaemonActs, SendEvent, HandleRequest, DaemonRegister, phoneVars
  <2>7. CASE DaemonDrop \/ DaemonCrash
    BY <2>7 DEF DaemonDrop, DaemonCrash, phoneVars
  <2>8. CASE Synchronize \/ Disconnect \/ Retry
    BY <2>8 DEF Synchronize, Disconnect, Retry, LoseSocket, phoneVars
  <2>9. QED
    BY <2>1, <2>2, <2>3, <2>4, <2>5, <2>6, <2>7, <2>8 DEF Next, Receive
<1>2. QED
  BY <1>1, PTL DEF Spec, OnlyResyncReopens
=============================================================================
