----------------------------- MODULE ChannelProofs -----------------------------
(***************************************************************************)
(* Theorems about what is on its way between the phone and the daemon of   *)
(* SessionSync: that whoever waits is answered, that the terminal misses   *)
(* nothing, and that what the phone shows is right once all has arrived.   *)
(***************************************************************************)
EXTENDS SyncProofs

-----------------------------------------------------------------------------
(* Sequences.                                                              *)

LEMMA AppendAt ==
    ASSUME NEW S, NEW t \in Seq(S), NEW x \in S
    PROVE  /\ Append(t, x) \in Seq(S)
           /\ Len(t) \in Nat /\ Len(Append(t, x)) = Len(t) + 1
           /\ \A i \in 1 .. Len(t) : Append(t, x)[i] = t[i]
           /\ Append(t, x)[Len(t) + 1] = x
  BY AppendProperties, LenProperties

LEMMA TailAt ==
    ASSUME NEW S, NEW t \in Seq(S), t # <<>>
    PROVE  /\ Head(t) = t[1] /\ Head(t) \in S /\ Tail(t) \in Seq(S)
           /\ Len(t) \in Nat \ {0} /\ Len(Tail(t)) = Len(t) - 1
           /\ \A i \in 1 .. Len(t) - 1 : Tail(t)[i] = t[i + 1]
  BY HeadTailProperties, LenProperties, EmptySeq

LEMMA ConcatAt ==
    ASSUME NEW S, NEW t \in Seq(S), NEW u \in Seq(S)
    PROVE  /\ t \o u \in Seq(S)
           /\ Len(t) \in Nat /\ Len(u) \in Nat /\ Len(t \o u) = Len(t) + Len(u)
           /\ \A i \in 1 .. Len(t) : (t \o u)[i] = t[i]
           /\ \A i \in 1 .. Len(u) : (t \o u)[Len(t) + i] = u[i]
  BY ConcatProperties, LenProperties

LEMMA PrefixAt ==
    ASSUME NEW S, NEW t \in Seq(S), NEW k \in 0 .. Len(t)
    PROVE  /\ SubSeq(t, 1, k) \in Seq(S) /\ Len(SubSeq(t, 1, k)) = k
           /\ \A i \in 1 .. k : SubSeq(t, 1, k)[i] = t[i]
<1>1. Len(t) \in Nat /\ \A i \in 1 .. Len(t) : t[i] \in S
  BY LenProperties, ElementOfSeq
<1>2. QED
  BY <1>1, SubSeqProperties

-----------------------------------------------------------------------------
(* Who waits for what.                                                     *)

Pushed(m) == m.kind = "event"

\* Between connections nothing is asked.
IdleAsksNothing ==
    phase \in {"away", "recovery"} =>
        toDaemon = <<>> /\ \A i \in 1 .. Len(toPhone) : Pushed(toPhone[i])

\* Online the coordinator waits for nothing: all requests are openSession's.
OnlineOpens ==
    phase = "online" =>
        /\ \A i \in 1 .. Len(toDaemon) :
               toDaemon[i].by = "open" /\ toDaemon[i].method = "subscribe"
        /\ \A i \in 1 .. Len(toPhone) :
               Pushed(toPhone[i]) \/ (toPhone[i].kind # "list"
                                         /\ toPhone[i].by = "open")

\* In between it has sent one request, and there is no other.
SyncAsksOnce ==
    phase \in {"listing", "subscribing"} =>
        /\ Len(toDaemon) <= 1
        /\ \A i \in 1 .. Len(toDaemon) : toDaemon[i].by = "sync"
        /\ \A i \in 1 .. Len(toPhone) : ~Pushed(toPhone[i]) =>
               /\ toPhone[i].kind = "list" \/ toPhone[i].by = "sync"
               /\ toDaemon = <<>>
               /\ \A j \in 1 .. Len(toPhone) : ~Pushed(toPhone[j]) => i = j

Alone == IdleAsksNothing /\ OnlineOpens /\ SyncAsksOnce

AskedInv == SyncInv /\ Alone

LEMMA PhaseValues ==
    ASSUME SyncInv
    PROVE  /\ phase \in {"away", "recovery", "listing", "subscribing", "online"}
           /\ toDaemon \in Seq(Request) /\ toPhone \in Seq(Message)
           /\ Len(toDaemon) \in Nat /\ Len(toPhone) \in Nat
           /\ \A i \in 1 .. Len(toDaemon) : toDaemon[i] \in Request
           /\ \A i \in 1 .. Len(toPhone) : toPhone[i] \in Message
<1>1. phase \in Phases /\ toDaemon \in Seq(Request) /\ toPhone \in Seq(Message)
  BY DEF SyncInv, TypeOK
<1>2. QED
  BY <1>1, LenProperties, ElementOfSeq DEF Phases

LEMMA MessageKinds ==
    ASSUME NEW m \in Message
    PROVE  /\ m.kind \in {"event", "list", "view", "notFound", "offline"}
           /\ m.kind = "view" => m.view \in View /\ m.view.session \in Sessions
           /\ m.kind \in {"view", "notFound", "offline"} => m.by \in {"sync", "open"}
  BY DEF Message, View

\* What a lost connection of the daemon leaves on its way: what had passed,
\* and one refusal of each request that has not been answered.
LostAfter(kept) ==
    /\ kept <= Len(toPhone') /\ Len(toPhone') \in Nat
    /\ \A i \in 1 .. kept : toPhone'[i] = toPhone[i]
    /\ \A i \in kept + 1 .. Len(toPhone') : toPhone'[i] \in Refusals(kept)
    /\ \A i, j \in kept + 1 .. Len(toPhone') : toPhone'[i] = toPhone'[j] => i = j
    /\ \A x \in Refusals(kept) :
           \E i \in kept + 1 .. Len(toPhone') : toPhone'[i] = x

LEMMA LinkLost ==
    ASSUME SyncInv, LoseLink
    PROVE  /\ toDaemon' = <<>> /\ linkUp' = FALSE /\ intact' = {}
           /\ UNCHANGED <<phase, opening, latest, phoneDrops, skipped>>
           /\ \E kept \in 0 .. Len(toPhone) : LostAfter(kept)
<1>1. PICK kept \in 0 .. Len(toPhone) :
          \E rejected \in Listings(Refusals(kept), Len(toPhone) + Len(toDaemon)) :
              toPhone' = SubSeq(toPhone, 1, kept) \o rejected
  BY DEF LoseLink
<1>2. PICK rejected \in Listings(Refusals(kept), Len(toPhone) + Len(toDaemon)) :
          toPhone' = SubSeq(toPhone, 1, kept) \o rejected
  BY <1>1
<1>3. PICK S : S = Refusals(kept) \cup Message
  OBVIOUS
<1>4. /\ toPhone \in Seq(S) /\ Len(toPhone) \in Nat /\ Len(toDaemon) \in Nat
  BY <1>3, PhaseValues, SeqMonotonic
<1>5. PICK n \in 0 .. Len(toPhone) + Len(toDaemon) :
          rejected \in [1 .. n -> Refusals(kept)]
  BY DEF Listings
<1>6. /\ \A x \in Refusals(kept) : \E i \in DOMAIN rejected : rejected[i] = x
      /\ \A i, k \in DOMAIN rejected : rejected[i] = rejected[k] => i = k
  BY DEF Listings
<1>7. n \in Nat /\ DOMAIN rejected = 1 .. n
  BY <1>4, <1>5
<1>8. rejected \in Seq(Refusals(kept)) /\ Len(rejected) = n
  BY <1>5, <1>7, SeqDef, LenProperties
<1>9. rejected \in Seq(S)
  BY <1>3, <1>8, SeqMonotonic
<1>10. PICK p : p = SubSeq(toPhone, 1, kept)
  OBVIOUS
<1>11. p \in Seq(S) /\ Len(p) = kept /\ \A i \in 1 .. kept : p[i] = toPhone[i]
  BY <1>4, <1>10, PrefixAt
<1>12. toPhone' = p \o rejected
  BY <1>2, <1>10
<1>13. /\ Len(toPhone') = kept + n
       /\ \A i \in 1 .. kept : toPhone'[i] = p[i]
       /\ \A i \in 1 .. n : toPhone'[kept + i] = rejected[i]
  <2>1. p \in Seq(S)
    BY <1>11
  <2>2. /\ Len(p \o rejected) = Len(p) + Len(rejected)
        /\ \A i \in 1 .. Len(p) : (p \o rejected)[i] = p[i]
        /\ \A i \in 1 .. Len(rejected) : (p \o rejected)[Len(p) + i] = rejected[i]
    BY <2>1, <1>9, ConcatAt
  <2>3. QED
    BY <2>2, <1>8, <1>11, <1>12
<1>14. kept \in Nat
  BY <1>4
<1>15. \A i \in kept + 1 .. Len(toPhone') :
           i - kept \in 1 .. n /\ toPhone'[i] = rejected[i - kept]
  BY <1>7, <1>13, <1>14
<1>16. \A i \in 1 .. n : kept + i \in kept + 1 .. Len(toPhone')
  BY <1>7, <1>13, <1>14
<1>17. /\ \A i \in kept + 1 .. Len(toPhone') : toPhone'[i] \in Refusals(kept)
       /\ \A i, j \in kept + 1 .. Len(toPhone') :
              toPhone'[i] = toPhone'[j] => i = j
  <2>1. ASSUME NEW i \in kept + 1 .. Len(toPhone')
        PROVE  toPhone'[i] \in Refusals(kept)
    BY <1>5, <1>15
  <2>2. ASSUME NEW i \in kept + 1 .. Len(toPhone'),
               NEW j \in kept + 1 .. Len(toPhone'), toPhone'[i] = toPhone'[j]
        PROVE  i = j
    <3>1. i - kept = j - kept
      BY <2>2, <1>6, <1>7, <1>15
    <3>2. QED
      BY <3>1, <1>13, <1>14
  <2>3. QED
    BY <2>1, <2>2
<1>18. ASSUME NEW x \in Refusals(kept)
       PROVE  \E i \in kept + 1 .. Len(toPhone') : toPhone'[i] = x
  BY <1>6, <1>7, <1>13, <1>16
<1>19. kept <= Len(toPhone') /\ Len(toPhone') \in Nat
  BY <1>7, <1>13, <1>14
<1>20. \A i \in 1 .. kept : toPhone'[i] = toPhone[i]
  BY <1>11, <1>13
<1>21. /\ toDaemon' = <<>> /\ linkUp' = FALSE /\ intact' = {}
       /\ UNCHANGED <<phase, opening, latest, phoneDrops, skipped>>
  BY DEF LoseLink
<1>22. LostAfter(kept)
  BY <1>17, <1>18, <1>19, <1>20 DEF LostAfter
<1>23. QED
  BY <1>21, <1>22

\* A refusal is of a request, or of the request of an answer.
LEMMA RefusalsAnswer ==
    ASSUME SyncInv, NEW kept \in 0 .. Len(toPhone), NEW x \in Refusals(kept)
    PROVE  /\ x.kind = "offline"
           /\ \/ \E i \in kept + 1 .. Len(toPhone) :
                    /\ ~Pushed(toPhone[i]) /\ x = RefusalOf(toPhone[i])
                    /\ x.by = IF toPhone[i].kind = "list" THEN "sync"
                              ELSE toPhone[i].by
              \/ \E i \in 1 .. Len(toDaemon) :
                    x = Refusal(toDaemon[i]) /\ x.by = toDaemon[i].by
  BY DEF Refusals, RefusalOf, Refusal, Pushed

\* What is left when the first has been received.
LEMMA ReceivedAt ==
    ASSUME SyncInv, Received
    PROVE  /\ Head(toPhone) = toPhone[1] /\ Head(toPhone) \in Message
           /\ Len(toPhone) \in Nat \ {0} /\ Len(toPhone') = Len(toPhone) - 1
           /\ 1 \in 1 .. Len(toPhone)
           /\ \A i \in 1 .. Len(toPhone') :
                  i + 1 \in 1 .. Len(toPhone) /\ toPhone'[i] = toPhone[i + 1]
<1>1. toPhone \in Seq(Message) /\ toPhone # <<>> /\ toPhone' = Tail(toPhone)
  BY PhaseValues DEF Received
<1>2. QED
  BY <1>1, TailAt

\* Receiving an event, or anything else without a change of phase or requests,
\* leaves who waits for what.
LEMMA AloneReceived ==
    ASSUME AskedInv, Received, UNCHANGED <<phase, toDaemon>>
    PROVE  Alone'
<1>1. /\ SyncInv /\ IdleAsksNothing /\ OnlineOpens /\ SyncAsksOnce
      /\ Len(toPhone) \in Nat
      /\ \A i \in 1 .. Len(toPhone') :
             i + 1 \in 1 .. Len(toPhone) /\ toPhone'[i] = toPhone[i + 1]
  BY ReceivedAt, PhaseValues DEF AskedInv, Alone
<1>2. IdleAsksNothing'
  BY <1>1 DEF IdleAsksNothing, Pushed
<1>3. OnlineOpens'
  BY <1>1 DEF OnlineOpens, Pushed
<1>4. SyncAsksOnce'
  <2>1. SUFFICES ASSUME phase' \in {"listing", "subscribing"}
                 PROVE  /\ Len(toDaemon') <= 1
                        /\ \A i \in 1 .. Len(toDaemon') : toDaemon'[i].by = "sync"
                        /\ \A i \in 1 .. Len(toPhone') : ~Pushed(toPhone'[i]) =>
                             /\ toPhone'[i].kind = "list" \/ toPhone'[i].by = "sync"
                             /\ toDaemon' = <<>>
                             /\ \A j \in 1 .. Len(toPhone') :
                                    ~Pushed(toPhone'[j]) => i = j
    BY DEF SyncAsksOnce, Pushed
  <2>2. ASSUME NEW i \in 1 .. Len(toPhone'), ~Pushed(toPhone'[i]),
               NEW j \in 1 .. Len(toPhone'), ~Pushed(toPhone'[j])
        PROVE  i = j
    <3>1. i + 1 = j + 1
      BY <2>1, <2>2, <1>1 DEF SyncAsksOnce
    <3>2. QED
      BY <3>1
  <2>3. QED
    BY <2>1, <2>2, <1>1 DEF SyncAsksOnce
<1>5. QED
  BY <1>2, <1>3, <1>4 DEF Alone

\* The answer to the coordinator's request is the last of it.
LEMMA SyncAnswered ==
    ASSUME AskedInv, Received, phase \in {"listing", "subscribing"},
           ~Pushed(Head(toPhone))
    PROVE  toDaemon = <<>> /\ \A i \in 1 .. Len(toPhone') : Pushed(toPhone'[i])
<1>1. /\ SyncInv /\ SyncAsksOnce
      /\ Head(toPhone) = toPhone[1] /\ 1 \in 1 .. Len(toPhone)
      /\ \A i \in 1 .. Len(toPhone') :
             i + 1 \in 1 .. Len(toPhone) /\ toPhone'[i] = toPhone[i + 1]
  BY ReceivedAt DEF AskedInv, Alone
<1>2. ASSUME NEW i \in 1 .. Len(toPhone'), ~Pushed(toPhone'[i])
      PROVE  FALSE
  <2>1. i + 1 = 1
    BY <1>1, <1>2 DEF SyncAsksOnce
  <2>2. QED
    BY <2>1
<1>3. QED
  BY <1>1, <1>2 DEF SyncAsksOnce

\* Nothing but events on the way, and what is asked suits the phase.
LEMMA AloneAfresh ==
    ASSUME \A i \in 1 .. Len(toPhone') : Pushed(toPhone'[i]),
           phase' \in {"away", "recovery", "online"} => toDaemon' = <<>>,
           \/ toDaemon' = <<>>
           \/ \E q : toDaemon' = <<q>> /\ q.by = "sync"
    PROVE  Alone'
<1>1. Len(toDaemon') <= 1 /\ \A i \in 1 .. Len(toDaemon') : toDaemon'[i].by = "sync"
  <2>1. CASE toDaemon' = <<>>
    BY <2>1
  <2>2. CASE \E q : toDaemon' = <<q>> /\ q.by = "sync"
    BY <2>2
  <2>3. QED
    BY <2>1, <2>2
<1>2. IdleAsksNothing' /\ OnlineOpens' /\ SyncAsksOnce'
  BY <1>1 DEF IdleAsksNothing, OnlineOpens, SyncAsksOnce, Pushed
<1>3. QED
  BY <1>2 DEF Alone

\* A task of the daemon has sent an event, or dropped it.
LEMMA AloneSent ==
    ASSUME AskedInv, SendEvent
    PROVE  Alone'
<1>1. /\ UNCHANGED <<phase, toDaemon>>
      /\ toPhone' = toPhone \/ \E m : Pushed(m) /\ toPhone' = Append(toPhone, m)
  BY DEF SendEvent, Pushed
<1>2. /\ IdleAsksNothing /\ OnlineOpens /\ SyncAsksOnce
      /\ toPhone \in Seq(Message)
  BY PhaseValues DEF AskedInv, Alone
<1>3. ASSUME NEW i \in 1 .. Len(toPhone')
      PROVE  Pushed(toPhone'[i]) \/ (i \in 1 .. Len(toPhone) /\ toPhone'[i] = toPhone[i])
  <2>1. CASE toPhone' = toPhone
    BY <2>1, <1>3
  <2>2. CASE toPhone' # toPhone
    <3>1. PICK m : Pushed(m) /\ toPhone' = Append(toPhone, m)
      BY <2>2, <1>1
    <3>2. PICK S : S = Message \cup {m}
      OBVIOUS
    <3>3. toPhone \in Seq(S) /\ m \in S
      BY <3>2, <1>2, SeqMonotonic
    <3>4. QED
      BY <3>1, <3>3, <1>3, AppendAt
  <2>3. QED
    BY <2>1, <2>2
<1>4. IdleAsksNothing' /\ OnlineOpens' /\ SyncAsksOnce'
  BY <1>1, <1>2, <1>3 DEF IdleAsksNothing, OnlineOpens, SyncAsksOnce, Pushed
<1>5. QED
  BY <1>4 DEF Alone

\* A request is answered: what it was by, its answer is by.
LEMMA AnswerIsOf ==
    ASSUME NEW q \in Request
    PROVE  LET m == IF linkUp THEN Answer(q) ELSE Refusal(q)
           IN  /\ ~Pushed(m)
               /\ m.kind = "list" <=> (linkUp /\ q.method = "list")
               /\ m.kind # "list" => m.by = q.by
               /\ m.kind \in {"notFound", "offline"} => m.session = q.session
               /\ m.kind = "view" =>
                    /\ linkUp /\ q.session \in Entries
                    /\ m.view = SubscribeView(q.session, q.after)
                    /\ m.view.session = q.session /\ m.era = Era
               /\ m.kind = "list" => m.list = SessionList
<1>1. CASE ~linkUp
  BY <1>1 DEF Refusal, Pushed
<1>2. CASE linkUp /\ q.method = "list"
  BY <1>2 DEF Answer, Pushed
<1>3. CASE linkUp /\ q.method # "list" /\ q.session \in Entries
  BY <1>3 DEF Answer, Pushed, SubscribeView
<1>4. CASE linkUp /\ q.method # "list" /\ q.session \notin Entries
  BY <1>4 DEF Answer, Pushed
<1>5. QED
  BY <1>1, <1>2, <1>3, <1>4

\* The step of the daemon that answers.
LEMMA Handled ==
    ASSUME SyncInv, HandleRequest
    PROVE  /\ Len(toDaemon) \in Nat \ {0} /\ Head(toDaemon) = toDaemon[1]
           /\ Head(toDaemon) \in Request /\ 1 \in 1 .. Len(toDaemon)
           /\ Len(toDaemon') = Len(toDaemon) - 1
           /\ \A i \in 1 .. Len(toDaemon') :
                  i + 1 \in 1 .. Len(toDaemon) /\ toDaemon'[i] = toDaemon[i + 1]
           /\ Len(toPhone) \in Nat /\ Len(toPhone') = Len(toPhone) + 1
           /\ \A i \in 1 .. Len(toPhone) : toPhone'[i] = toPhone[i]
           /\ toPhone'[Len(toPhone) + 1] =
                  IF linkUp THEN Answer(Head(toDaemon)) ELSE Refusal(Head(toDaemon))
<1>1. /\ toDaemon \in Seq(Request) /\ toDaemon # <<>>
      /\ toDaemon' = Tail(toDaemon)
  BY PhaseValues DEF HandleRequest
<1>2. /\ Len(toDaemon) \in Nat \ {0} /\ Head(toDaemon) = toDaemon[1]
      /\ Head(toDaemon) \in Request /\ Len(toDaemon') = Len(toDaemon) - 1
      /\ \A i \in 1 .. Len(toDaemon) - 1 : toDaemon'[i] = toDaemon[i + 1]
  BY <1>1, TailAt
<1>3. PICK m : m = IF linkUp THEN Answer(Head(toDaemon)) ELSE Refusal(Head(toDaemon))
  OBVIOUS
<1>4. toPhone' = Append(toPhone, m)
  BY <1>3 DEF HandleRequest
<1>5. m \in SoundMessage /\ toPhone \in Seq(SoundMessage)
  BY <1>2, <1>3, AnswerSound DEF SyncInv
<1>6. /\ Len(toPhone) \in Nat /\ Len(toPhone') = Len(toPhone) + 1
      /\ \A i \in 1 .. Len(toPhone) : toPhone'[i] = toPhone[i]
      /\ toPhone'[Len(toPhone) + 1] = m
  BY <1>4, <1>5, AppendAt
<1>7. \A i \in 1 .. Len(toDaemon') :
          i + 1 \in 1 .. Len(toDaemon) /\ toDaemon'[i] = toDaemon[i + 1]
  BY <1>2
<1>8. QED
  BY <1>2, <1>3, <1>6, <1>7

LEMMA AloneHandled ==
    ASSUME AskedInv, HandleRequest
    PROVE  Alone'
<1>1. /\ SyncInv /\ IdleAsksNothing /\ OnlineOpens /\ SyncAsksOnce
      /\ UNCHANGED <<phase, linkUp>>
  BY DEF AskedInv, Alone, HandleRequest
<1>2. PICK q, m, n : /\ q = toDaemon[1] /\ n = Len(toPhone)
                     /\ m = IF linkUp THEN Answer(q) ELSE Refusal(q)
  OBVIOUS
<1>3. /\ Len(toDaemon) \in Nat \ {0} /\ q \in Request
      /\ Len(toDaemon') = Len(toDaemon) - 1
      /\ \A i \in 1 .. Len(toDaemon') :
             i + 1 \in 1 .. Len(toDaemon) /\ toDaemon'[i] = toDaemon[i + 1]
      /\ n \in Nat /\ Len(toPhone') = n + 1
      /\ \A i \in 1 .. n : toPhone'[i] = toPhone[i]
      /\ toPhone'[n + 1] = m /\ 1 \in 1 .. Len(toDaemon)
  BY <1>1, <1>2, Handled
<1>4. ~Pushed(m) /\ (m.kind # "list" => m.by = q.by)
      /\ (m.kind = "list" => q.method = "list")
  BY <1>2, <1>3, AnswerIsOf
<1>5. IdleAsksNothing'
  BY <1>1, <1>3, EmptySeq DEF IdleAsksNothing
<1>6. OnlineOpens'
  <2>1. SUFFICES ASSUME phase = "online"
                 PROVE  OnlineOpens'
    BY <1>1 DEF OnlineOpens
  <2>2. q.by = "open" /\ q.method = "subscribe"
    BY <2>1, <1>1, <1>2, <1>3 DEF OnlineOpens
  <2>3. m.kind # "list" /\ m.by = "open"
    BY <2>2, <1>4
  <2>4. \A i \in 1 .. Len(toPhone') :
            (i \in 1 .. n /\ toPhone'[i] = toPhone[i]) \/ toPhone'[i] = m
    BY <1>3
  <2>5. \A i \in 1 .. Len(toPhone') :
            Pushed(toPhone'[i]) \/ (toPhone'[i].kind # "list"
                                       /\ toPhone'[i].by = "open")
    BY <2>1, <2>3, <2>4, <1>1, <1>2 DEF OnlineOpens
  <2>6. \A i \in 1 .. Len(toDaemon') :
            toDaemon'[i].by = "open" /\ toDaemon'[i].method = "subscribe"
    BY <2>1, <1>1, <1>3 DEF OnlineOpens
  <2>7. QED
    BY <2>5, <2>6 DEF OnlineOpens, Pushed
<1>7. SyncAsksOnce'
  <2>1. SUFFICES ASSUME phase \in {"listing", "subscribing"}
                 PROVE  SyncAsksOnce'
    BY <1>1 DEF SyncAsksOnce
  <2>2. q.by = "sync" /\ Len(toDaemon) = 1
    BY <2>1, <1>1, <1>2, <1>3 DEF SyncAsksOnce
  <2>3. m.kind = "list" \/ m.by = "sync"
    BY <2>2, <1>4
  <2>4. toDaemon # <<>> /\ \A i \in 1 .. n : Pushed(toPhone[i])
    BY <2>1, <2>2, <1>1, <1>2 DEF SyncAsksOnce
  <2>5. toDaemon' \in Seq(Request)
    BY <1>1, PhaseValues, TailAt DEF HandleRequest
  <2>6. toDaemon' = <<>>
    BY <2>2, <2>5, <1>3, EmptySeq
  <2>7. \A i \in 1 .. Len(toPhone') : ~Pushed(toPhone'[i]) => i = n + 1
    BY <2>4, <1>3 DEF Pushed
  <2>8. QED
    BY <2>3, <2>6, <2>7, <1>3, EmptySeq DEF SyncAsksOnce, Pushed
<1>8. QED
  BY <1>5, <1>6, <1>7 DEF Alone

LEMMA AloneLost ==
    ASSUME AskedInv, LoseLink
    PROVE  Alone'
<1>1. /\ SyncInv /\ IdleAsksNothing /\ OnlineOpens /\ SyncAsksOnce
  BY DEF AskedInv, Alone
<1>2. toDaemon' = <<>> /\ phase' = phase
  BY <1>1, LinkLost
<1>3. PICK kept \in 0 .. Len(toPhone) : LostAfter(kept)
  BY <1>1, LinkLost
<1>4. /\ Len(toPhone) \in Nat /\ Len(toPhone') \in Nat /\ kept <= Len(toPhone')
      /\ \A i \in 1 .. kept : toPhone'[i] = toPhone[i]
      /\ \A i \in kept + 1 .. Len(toPhone') : toPhone'[i] \in Refusals(kept)
      /\ \A i, j \in kept + 1 .. Len(toPhone') : toPhone'[i] = toPhone'[j] => i = j
  BY <1>1, <1>3, PhaseValues DEF LostAfter
<1>5. ASSUME NEW x \in Refusals(kept)
      PROVE  /\ x.kind = "offline"
             /\ \/ \E i \in kept + 1 .. Len(toPhone) :
                      /\ ~Pushed(toPhone[i]) /\ x = RefusalOf(toPhone[i])
                      /\ x.by = IF toPhone[i].kind = "list" THEN "sync"
                                ELSE toPhone[i].by
                \/ \E i \in 1 .. Len(toDaemon) :
                      x = Refusal(toDaemon[i]) /\ x.by = toDaemon[i].by
  BY <1>1, RefusalsAnswer
<1>6. \A i \in 1 .. Len(toPhone') :
          \/ i \in 1 .. kept /\ i \in 1 .. Len(toPhone) /\ toPhone'[i] = toPhone[i]
          \/ i \in kept + 1 .. Len(toPhone') /\ toPhone'[i] \in Refusals(kept)
  BY <1>4
<1>7. IdleAsksNothing'
  <2>1. SUFFICES ASSUME phase \in {"away", "recovery"} PROVE IdleAsksNothing'
    BY <1>2 DEF IdleAsksNothing
  <2>2. Len(toDaemon) = 0 /\ \A i \in 1 .. Len(toPhone) : Pushed(toPhone[i])
    BY <2>1, <1>1 DEF IdleAsksNothing
  <2>3. ASSUME NEW x \in Refusals(kept) PROVE FALSE
    BY <2>2, <1>4, <1>5
  <2>4. QED
    BY <2>2, <2>3, <1>2, <1>6 DEF IdleAsksNothing, Pushed
<1>8. OnlineOpens'
  <2>1. SUFFICES ASSUME phase = "online" PROVE OnlineOpens'
    BY <1>2 DEF OnlineOpens
  <2>2. ASSUME NEW x \in Refusals(kept) PROVE x.kind # "list" /\ x.by = "open"
    <3>1. CASE \E i \in kept + 1 .. Len(toPhone) :
                  /\ ~Pushed(toPhone[i])
                  /\ x.by = IF toPhone[i].kind = "list" THEN "sync"
                            ELSE toPhone[i].by
      BY <3>1, <2>1, <1>1, <1>4, <1>5 DEF OnlineOpens
    <3>2. CASE \E i \in 1 .. Len(toDaemon) : x.by = toDaemon[i].by
      BY <3>2, <2>1, <1>1, <1>5 DEF OnlineOpens
    <3>3. QED
      BY <3>1, <3>2, <1>5
  <2>3. QED
    BY <2>1, <2>2, <1>1, <1>2, <1>6 DEF OnlineOpens, Pushed
<1>9. SyncAsksOnce'
  <2>1. SUFFICES ASSUME phase \in {"listing", "subscribing"} PROVE SyncAsksOnce'
    BY <1>2 DEF SyncAsksOnce
  <2>2. ASSUME NEW x \in Refusals(kept) PROVE x.by = "sync"
    <3>1. CASE \E i \in kept + 1 .. Len(toPhone) :
                  /\ ~Pushed(toPhone[i])
                  /\ x.by = IF toPhone[i].kind = "list" THEN "sync"
                            ELSE toPhone[i].by
      BY <3>1, <2>1, <1>1, <1>4, <1>5 DEF SyncAsksOnce
    <3>2. CASE \E i \in 1 .. Len(toDaemon) : x.by = toDaemon[i].by
      BY <3>2, <2>1, <1>1, <1>5 DEF SyncAsksOnce
    <3>3. QED
      BY <3>1, <3>2, <1>5
  \* There is one request, so there is at most one refusal.
  <2>3. ASSUME NEW x \in Refusals(kept), NEW y \in Refusals(kept)
        PROVE  x = y
    <3>1. CASE Len(toDaemon) = 0
      <4>1. PICK i \in kept + 1 .. Len(toPhone) :
                ~Pushed(toPhone[i]) /\ x = RefusalOf(toPhone[i])
        BY <3>1, <1>5
      <4>2. PICK j \in kept + 1 .. Len(toPhone) :
                ~Pushed(toPhone[j]) /\ y = RefusalOf(toPhone[j])
        BY <3>1, <1>5
      <4>3. i \in 1 .. Len(toPhone) /\ j \in 1 .. Len(toPhone)
        BY <1>4
      <4>4. i = j
        BY <4>1, <4>2, <4>3, <2>1, <1>1 DEF SyncAsksOnce
      <4>5. QED
        BY <4>1, <4>2, <4>4
    <3>2. CASE Len(toDaemon) # 0
      <4>0. Len(toDaemon) \in Nat /\ Len(toDaemon) <= 1
        BY <2>1, <1>1, PhaseValues DEF SyncAsksOnce
      <4>1. Len(toDaemon) = 1 /\ toDaemon # <<>>
        <5>1. PICK l \in Nat : l = Len(toDaemon)
          BY <4>0
        <5>2. l = 1
          BY <5>1, <3>2, <4>0
        <5>3. toDaemon # <<>>
          BY <3>2
        <5>4. QED
          BY <5>1, <5>2, <5>3
      <4>2. \A i \in 1 .. Len(toPhone) : Pushed(toPhone[i])
        BY <4>1, <2>1, <1>1 DEF SyncAsksOnce
      <4>3. x = Refusal(toDaemon[1]) /\ y = Refusal(toDaemon[1])
        BY <4>1, <4>2, <1>4, <1>5
      <4>4. QED
        BY <4>3
    <3>3. QED
      BY <3>1, <3>2
  \* And none beside an answer that has passed.
  <2>4. ASSUME NEW x \in Refusals(kept), NEW j \in 1 .. kept
        PROVE  Pushed(toPhone[j])
    <3>1. CASE Len(toDaemon) = 0
      BY <3>1, <2>1, <1>1, <1>4, <1>5, SMTT(20) DEF SyncAsksOnce
    <3>2. CASE Len(toDaemon) # 0
      BY <3>2, <2>1, <1>1, <1>4 DEF SyncAsksOnce
    <3>3. QED
      BY <3>1, <3>2
  <2>5. ASSUME NEW i \in 1 .. Len(toPhone'), ~Pushed(toPhone'[i])
        PROVE  toPhone'[i].kind = "list" \/ toPhone'[i].by = "sync"
    BY <2>1, <2>2, <2>5, <1>1, <1>6 DEF SyncAsksOnce
  <2>6. ASSUME NEW i \in 1 .. Len(toPhone'), ~Pushed(toPhone'[i]),
               NEW j \in 1 .. Len(toPhone'), ~Pushed(toPhone'[j])
        PROVE  i = j
    <3>1. CASE i \in 1 .. kept /\ j \in 1 .. kept
      BY <3>1, <2>1, <2>6, <1>1, <1>4 DEF SyncAsksOnce
    <3>2. CASE i \in kept + 1 .. Len(toPhone') /\ j \in kept + 1 .. Len(toPhone')
      BY <3>2, <2>3, <1>4
    <3>3. CASE i \in 1 .. kept /\ j \in kept + 1 .. Len(toPhone')
      BY <3>3, <2>4, <2>6, <1>4
    <3>4. CASE j \in 1 .. kept /\ i \in kept + 1 .. Len(toPhone')
      BY <3>4, <2>4, <2>6, <1>4
    <3>5. QED
      BY <3>1, <3>2, <3>3, <3>4, <1>6
  <2>7. Len(toDaemon') = 0 /\ toDaemon' = <<>>
    BY <1>2
  <2>8. QED
    BY <2>5, <2>6, <2>7 DEF SyncAsksOnce, Pushed
<1>10. QED
  BY <1>7, <1>8, <1>9 DEF Alone

\* Every other step.
LEMMA AloneInit == Init => Alone
  BY DEF Init, Alone, IdleAsksNothing, OnlineOpens, SyncAsksOnce

LEMMA AloneSame ==
    ASSUME Alone, UNCHANGED <<phase, toDaemon, toPhone>>
    PROVE  Alone'
  BY DEF Alone, IdleAsksNothing, OnlineOpens, SyncAsksOnce, Pushed

LEMMA AloneSynchronized ==
    ASSUME AskedInv, Synchronize
    PROVE  Alone'
<1>1. toPhone' = <<>> /\ phase = "away" /\ IdleAsksNothing
  BY DEF Synchronize, AskedInv, Alone
<1>2. \/ /\ phase' = "listing"
         /\ toDaemon' = <<[method |-> "list", session |-> None,
                           after |-> NoSeq, by |-> "sync"]>>
      \/ phase' = "recovery" /\ toDaemon' = toDaemon
  BY DEF Synchronize
<1>3. toDaemon = <<>>
  BY <1>1 DEF IdleAsksNothing
<1>4. \A i \in 1 .. Len(toPhone') : Pushed(toPhone'[i])
  BY <1>1
<1>5. \/ toDaemon' = <<>>
      \/ \E q : toDaemon' = <<q>> /\ q.by = "sync"
  BY <1>2, <1>3
<1>6. phase' \in {"away", "recovery", "online"} => toDaemon' = <<>>
  BY <1>2, <1>3
<1>7. QED
  BY <1>4, <1>5, <1>6, AloneAfresh

LEMMA AloneSocketLost ==
    ASSUME LoseSocket
    PROVE  Alone'
<1>1. toPhone' = <<>> /\ toDaemon' = <<>>
  BY DEF LoseSocket
<1>2. \A i \in 1 .. Len(toPhone') : Pushed(toPhone'[i])
  BY <1>1
<1>3. QED
  BY <1>1, <1>2, AloneAfresh

\* An answer to the coordinator, or the error it gets instead.
LEMMA AloneSyncAnswered ==
    ASSUME AskedInv, Received, phase \in {"listing", "subscribing"},
           ~Pushed(Head(toPhone)),
           \/ UNCHANGED toDaemon
           \/ /\ phase' = "subscribing"
              /\ \E q : toDaemon' = Append(toDaemon, q) /\ q.by = "sync"
    PROVE  Alone'
<1>1. toDaemon = <<>> /\ \A i \in 1 .. Len(toPhone') : Pushed(toPhone'[i])
  BY SyncAnswered
<1>2. \A q : Append(<<>>, q) = <<q>>
  OBVIOUS
<1>3. \/ toDaemon' = <<>>
      \/ phase' = "subscribing" /\ \E q : toDaemon' = <<q>> /\ q.by = "sync"
  BY <1>1, <1>2
<1>4. QED
  BY <1>1, <1>3, AloneAfresh

\* Who the first message is for.
LEMMA AnsweredPhase ==
    ASSUME AskedInv, Received, ~Pushed(Head(toPhone))
    PROVE  /\ phase \in {"listing", "subscribing", "online"}
           /\ phase = "online" =>
                 Head(toPhone).kind # "list" /\ Head(toPhone).by = "open"
           /\ phase # "online" =>
                 Head(toPhone).kind = "list" \/ Head(toPhone).by = "sync"
<1>1. /\ SyncInv /\ IdleAsksNothing /\ OnlineOpens /\ SyncAsksOnce
      /\ Head(toPhone) = toPhone[1] /\ 1 \in 1 .. Len(toPhone)
      /\ phase \in {"away", "recovery", "listing", "subscribing", "online"}
  BY ReceivedAt, PhaseValues DEF AskedInv, Alone
<1>2. QED
  BY <1>1 DEF IdleAsksNothing, OnlineOpens, SyncAsksOnce

LEMMA AloneReceive ==
    ASSUME AskedInv, Receive
    PROVE  Alone'
<1>1. CASE ReceivePushed
  BY <1>1, AloneReceived DEF ReceivePushed
<1>2. CASE ReceiveList
  <2>1. /\ Received /\ Head(toPhone).kind = "list" /\ phase = "listing"
        /\ \/ UNCHANGED toDaemon
           \/ /\ phase' = "subscribing"
              /\ \E q : toDaemon' = Append(toDaemon, q) /\ q.by = "sync"
    BY <1>2 DEF ReceiveList
  <2>2. QED
    BY <2>1, AloneSyncAnswered DEF Pushed
<1>3. CASE ReceiveSync
  <2>1. /\ Received /\ Head(toPhone).kind = "view" /\ phase = "subscribing"
        /\ UNCHANGED toDaemon
    BY <1>3 DEF ReceiveSync
  <2>2. QED
    BY <2>1, AloneSyncAnswered DEF Pushed
<1>4. CASE ReceiveOpened
  BY <1>4, AloneReceived DEF ReceiveOpened
<1>5. CASE ReceiveError
  <2>1. /\ Received /\ ~Pushed(Head(toPhone)) /\ UNCHANGED toDaemon
        /\ Head(toPhone).kind # "list"
        /\ Head(toPhone).by = "open" => UNCHANGED phase
    BY <1>5 DEF ReceiveError, Pushed
  <2>2. CASE phase \in {"listing", "subscribing"}
    BY <2>1, <2>2, AloneSyncAnswered
  <2>3. CASE phase = "online"
    BY <2>1, <2>3, AnsweredPhase, AloneReceived
  <2>4. QED
    BY <2>1, <2>2, <2>3, AnsweredPhase
<1>6. QED
  BY <1>1, <1>2, <1>3, <1>4, <1>5 DEF Receive

LEMMA AloneOpened ==
    ASSUME AskedInv, NEW s \in Sessions, OpenSession(s)
    PROVE  Alone'
<1>1. UNCHANGED <<phase, toPhone>> /\ Alone
  BY DEF OpenSession, AskedInv
<1>2. CASE UNCHANGED toDaemon
  BY <1>1, <1>2, AloneSame
<1>3. CASE toDaemon' # toDaemon
  <2>1. PICK q : /\ q = [method |-> "subscribe", session |-> s,
                         after |-> IF open = s THEN last[s] ELSE NoSeq,
                         by |-> "open"]
                 /\ toDaemon' = Append(toDaemon, q) /\ phase = "online"
    BY <1>3 DEF OpenSession
  <2>2. PICK S : S = Request \cup {q}
    OBVIOUS
  <2>3. toDaemon \in Seq(S) /\ q \in S
    BY <2>2, PhaseValues, SeqMonotonic DEF AskedInv
  <2>4. \A i \in 1 .. Len(toDaemon') :
            (i \in 1 .. Len(toDaemon) /\ toDaemon'[i] = toDaemon[i])
                \/ toDaemon'[i] = q
    BY <2>1, <2>3, AppendAt
  <2>5. q.by = "open" /\ q.method = "subscribe"
    BY <2>1
  <2>6. QED
    BY <2>1, <2>4, <2>5, <1>1
       DEF Alone, IdleAsksNothing, OnlineOpens, SyncAsksOnce, Pushed
<1>4. QED
  BY <1>2, <1>3

LEMMA AskedInvariant == Spec => []AskedInv
<1>1. Init => AskedInv
  BY SyncInvInit, AloneInit DEF AskedInv
<1>2. AskedInv /\ [Next]_syncVars => AskedInv'
  <2>1. SUFFICES ASSUME AskedInv, [Next]_syncVars PROVE Alone'
    BY SyncInvStep DEF AskedInv
  <2>2. CASE UNCHANGED syncVars \/ DaemonActs \/ DaemonRegister
    <3>1. UNCHANGED <<phase, toDaemon, toPhone>>
      BY <2>2 DEF syncVars, linkVars, DaemonActs, DaemonRegister
    <3>2. QED
      BY <3>1, <2>1, AloneSame DEF AskedInv
  <2>3. CASE Next
    BY <2>1, <2>2, <2>3, AloneSent, AloneHandled, AloneLost, AloneSynchronized,
       AloneSocketLost, AloneReceive, AloneOpened
       DEF Next, DaemonDrop, DaemonCrash, Disconnect, Retry
  <2>4. QED
    BY <2>1, <2>2, <2>3
<1>3. QED
  BY <1>1, <1>2, PTL DEF Spec

-----------------------------------------------------------------------------
(* What is being opened is on its way.                                     *)

Asks(q, s) == q.by = "open" /\ q.session = s
Settles(m, s) ==
    \/ m.kind = "view" /\ m.by = "open" /\ m.view.session = s
    \/ m.kind \in {"notFound", "offline"} /\ m.by = "open" /\ m.session = s

LEMMA OnItsWayIs ==
    ASSUME NEW s
    PROVE  OnItsWay(s) <=> \/ \E i \in 1 .. Len(toDaemon) : Asks(toDaemon[i], s)
                           \/ \E i \in 1 .. Len(toPhone) : Settles(toPhone[i], s)
  BY DEF OnItsWay, Asks, Settles

\* A step that keeps requests and answers keeps what is on its way.
LEMMA WayKept ==
    ASSUME NEW s, OnItsWay(s),
           \A i \in 1 .. Len(toDaemon) : Asks(toDaemon[i], s) =>
               \/ \E j \in 1 .. Len(toDaemon') : toDaemon'[j] = toDaemon[i]
               \/ \E j \in 1 .. Len(toPhone') : Settles(toPhone'[j], s),
           \A i \in 1 .. Len(toPhone) : Settles(toPhone[i], s) =>
               \E j \in 1 .. Len(toPhone') : Settles(toPhone'[j], s)
    PROVE  OnItsWay(s)'
  BY DEF OnItsWay, Asks, Settles

LEMMA WaySent ==
    ASSUME SyncInv, SendEvent, NEW s, OnItsWay(s)
    PROVE  OnItsWay(s)'
<1>1. /\ UNCHANGED toDaemon
      /\ toPhone' = toPhone \/ \E m : toPhone' = Append(toPhone, m)
  BY DEF SendEvent
<1>2. \A i \in 1 .. Len(toPhone) :
          i \in 1 .. Len(toPhone') /\ toPhone'[i] = toPhone[i]
  <2>1. CASE toPhone' = toPhone
    BY <2>1
  <2>2. CASE toPhone' # toPhone
    <3>1. PICK m : toPhone' = Append(toPhone, m)
      BY <2>2, <1>1
    <3>2. PICK S : S = Message \cup {m}
      OBVIOUS
    <3>3. toPhone \in Seq(S) /\ m \in S
      BY <3>2, PhaseValues, SeqMonotonic
    <3>4. QED
      BY <3>1, <3>3, AppendAt
  <2>3. QED
    BY <2>1, <2>2
<1>3. QED
  BY <1>1, <1>2, WayKept

LEMMA WayHandled ==
    ASSUME AskedInv, HandleRequest, NEW s, OnItsWay(s)
    PROVE  OnItsWay(s)'
<1>1. SyncInv /\ IdleAsksNothing /\ OnlineOpens /\ SyncAsksOnce
  BY DEF AskedInv, Alone
<1>2. PICK q, m, n : /\ q = toDaemon[1] /\ n = Len(toPhone)
                     /\ m = IF linkUp THEN Answer(q) ELSE Refusal(q)
  OBVIOUS
<1>3. /\ Len(toDaemon) \in Nat \ {0} /\ q \in Request
      /\ Len(toDaemon') = Len(toDaemon) - 1
      /\ \A i \in 1 .. Len(toDaemon') :
             i + 1 \in 1 .. Len(toDaemon) /\ toDaemon'[i] = toDaemon[i + 1]
      /\ n \in Nat /\ Len(toPhone') = n + 1
      /\ \A i \in 1 .. n : toPhone'[i] = toPhone[i]
      /\ toPhone'[n + 1] = m /\ 1 \in 1 .. Len(toDaemon)
  BY <1>1, <1>2, Handled
<1>4. ASSUME Asks(q, s)
      PROVE  Settles(m, s)
  <2>1. phase = "online" /\ q.method = "subscribe"
    BY <1>1, <1>2, <1>3, <1>4, PhaseValues
       DEF IdleAsksNothing, OnlineOpens, SyncAsksOnce, Asks
  <2>2. m \in Message
    BY <1>1, <1>2, <1>3, AnswerSound, SoundTyped DEF SyncInv
  <2>3. m.kind \in {"view", "notFound", "offline"}
    BY <1>2, <1>3, <2>1, <2>2, AnswerIsOf, MessageKinds DEF Pushed
  <2>4. QED
    BY <2>3, <1>2, <1>3, <1>4, AnswerIsOf DEF Asks, Settles
<1>5. ASSUME NEW i \in 1 .. Len(toDaemon), Asks(toDaemon[i], s)
      PROVE  \/ \E j \in 1 .. Len(toDaemon') : toDaemon'[j] = toDaemon[i]
             \/ \E j \in 1 .. Len(toPhone') : Settles(toPhone'[j], s)
  <2>1. CASE i = 1
    <3>1. n + 1 \in 1 .. Len(toPhone') /\ Settles(toPhone'[n + 1], s)
      BY <2>1, <1>2, <1>3, <1>4, <1>5
    <3>2. QED
      BY <3>1
  <2>2. CASE i # 1
    <3>1. i - 1 \in 1 .. Len(toDaemon') /\ toDaemon'[i - 1] = toDaemon[i]
      BY <2>2, <1>3
    <3>2. QED
      BY <3>1
  <2>3. QED
    BY <2>1, <2>2
<1>6. ASSUME NEW i \in 1 .. Len(toPhone), Settles(toPhone[i], s)
      PROVE  \E j \in 1 .. Len(toPhone') : Settles(toPhone'[j], s)
  <2>1. i \in 1 .. Len(toPhone') /\ toPhone'[i] = toPhone[i]
    BY <1>2, <1>3
  <2>2. QED
    BY <2>1, <1>6
<1>7. QED
  BY <1>5, <1>6, WayKept

LEMMA WayLost ==
    ASSUME SyncInv, LoseLink, NEW s, OnItsWay(s)
    PROVE  OnItsWay(s)'
<1>1. PICK kept \in 0 .. Len(toPhone) : LostAfter(kept)
  BY LinkLost
<1>2. /\ kept <= Len(toPhone') /\ Len(toPhone') \in Nat /\ Len(toPhone) \in Nat
      /\ \A i \in 1 .. kept : toPhone'[i] = toPhone[i]
      /\ \A x \in Refusals(kept) :
             \E i \in kept + 1 .. Len(toPhone') : toPhone'[i] = x
  BY <1>1, PhaseValues DEF LostAfter
<1>3. ASSUME NEW x \in Refusals(kept), Settles(x, s)
      PROVE  \E j \in 1 .. Len(toPhone') : Settles(toPhone'[j], s)
  <2>1. PICK j \in kept + 1 .. Len(toPhone') : toPhone'[j] = x
    BY <1>2
  <2>2. j \in 1 .. Len(toPhone')
    BY <1>2
  <2>3. QED
    BY <2>1, <2>2, <1>3
<1>4. ASSUME NEW i \in 1 .. Len(toDaemon), Asks(toDaemon[i], s)
      PROVE  \E j \in 1 .. Len(toPhone') : Settles(toPhone'[j], s)
  <2>1. Refusal(toDaemon[i]) \in Refusals(kept)
    BY DEF Refusals
  <2>2. Settles(Refusal(toDaemon[i]), s)
    BY <1>4 DEF Asks, Settles, Refusal
  <2>3. QED
    BY <2>1, <2>2, <1>3
<1>5. ASSUME NEW i \in 1 .. Len(toPhone), Settles(toPhone[i], s)
      PROVE  \E j \in 1 .. Len(toPhone') : Settles(toPhone'[j], s)
  <2>1. CASE i <= kept
    <3>1. i \in 1 .. Len(toPhone') /\ toPhone'[i] = toPhone[i]
      BY <2>1, <1>2
    <3>2. QED
      BY <3>1, <1>5
  <2>2. CASE ~(i <= kept)
    <3>1. i \in {k \in kept + 1 .. Len(toPhone) : toPhone[k].kind # "event"}
      BY <2>2, <1>2, <1>5 DEF Settles
    <3>2. RefusalOf(toPhone[i]) \in Refusals(kept)
      BY <3>1 DEF Refusals
    <3>3. Settles(RefusalOf(toPhone[i]), s)
      BY <1>5 DEF Settles, RefusalOf
    <3>4. QED
      BY <3>2, <3>3, <1>3
  <2>3. QED
    BY <2>1, <2>2
<1>6. QED
  BY <1>4, <1>5, WayKept

\* Receiving what does not settle the opening.
LEMMA WayReceived ==
    ASSUME SyncInv, Received, NEW s, OnItsWay(s), ~Settles(Head(toPhone), s),
           \A i \in 1 .. Len(toDaemon) :
               i \in 1 .. Len(toDaemon') /\ toDaemon'[i] = toDaemon[i]
    PROVE  OnItsWay(s)'
<1>1. /\ Head(toPhone) = toPhone[1] /\ Len(toPhone) \in Nat
      /\ Len(toPhone') = Len(toPhone) - 1
      /\ \A i \in 1 .. Len(toPhone') : toPhone'[i] = toPhone[i + 1]
  BY ReceivedAt
<1>2. ASSUME NEW i \in 1 .. Len(toPhone), Settles(toPhone[i], s)
      PROVE  \E j \in 1 .. Len(toPhone') : Settles(toPhone'[j], s)
  <2>1. i # 1
    BY <1>1, <1>2
  <2>2. i - 1 \in 1 .. Len(toPhone') /\ toPhone'[i - 1] = toPhone[i]
    BY <2>1, <1>1
  <2>3. QED
    BY <2>2, <1>2
<1>3. QED
  BY <1>2, WayKept

LEMMA AppendKept ==
    ASSUME SyncInv, \E q : toDaemon' = Append(toDaemon, q)
    PROVE  \A i \in 1 .. Len(toDaemon) :
               i \in 1 .. Len(toDaemon') /\ toDaemon'[i] = toDaemon[i]
<1>1. PICK q : toDaemon' = Append(toDaemon, q)
  OBVIOUS
<1>2. PICK S : S = Request \cup {q}
  OBVIOUS
<1>3. toDaemon \in Seq(S) /\ q \in S
  BY <1>2, PhaseValues, SeqMonotonic
<1>4. QED
  BY <1>1, <1>3, AppendAt

LEMMA WayReceive ==
    ASSUME SyncInv, Receive, NEW s \in opening', OnItsWay(s)
    PROVE  OnItsWay(s)'
<1>1. CASE ReceiveList
  <2>1. /\ Received /\ ~Settles(Head(toPhone), s)
        /\ UNCHANGED toDaemon \/ \E q : toDaemon' = Append(toDaemon, q)
    BY <1>1 DEF ReceiveList, Settles
  <2>2. \A i \in 1 .. Len(toDaemon) :
            i \in 1 .. Len(toDaemon') /\ toDaemon'[i] = toDaemon[i]
    BY <2>1, AppendKept
  <2>3. QED
    BY <2>1, <2>2, WayReceived
<1>2. CASE ReceivePushed \/ ReceiveSync \/ ReceiveOpened \/ ReceiveError
  <2>1. Received /\ UNCHANGED toDaemon
    BY <1>2 DEF ReceivePushed, ReceiveSync, ReceiveOpened, ReceiveError
  <2>2. ~Settles(Head(toPhone), s)
    BY <1>2 DEF ReceivePushed, ReceiveSync, ReceiveOpened, ReceiveError, Settles
  <2>3. QED
    BY <2>1, <2>2, WayReceived
<1>3. QED
  BY <1>1, <1>2 DEF Receive

LEMMA WayOpened ==
    ASSUME SyncInv, NEW z \in Sessions, OpenSession(z), NEW s \in opening',
           s \in opening => OnItsWay(s)
    PROVE  OnItsWay(s)'
<1>1. CASE UNCHANGED <<opening, toDaemon>>
  <2>1. OnItsWay(s) /\ UNCHANGED toPhone
    BY <1>1 DEF OpenSession
  <2>2. QED
    BY <2>1, <1>1, WayKept
<1>2. CASE ~UNCHANGED <<opening, toDaemon>>
  <2>1. PICK q : /\ q = [method |-> "subscribe", session |-> z,
                         after |-> IF open = z THEN last[z] ELSE NoSeq,
                         by |-> "open"]
                 /\ toDaemon' = Append(toDaemon, q)
                 /\ opening' = opening \cup {z} /\ UNCHANGED toPhone
    BY <1>2 DEF OpenSession
  <2>2. CASE s \in opening
    BY <2>1, <2>2, AppendKept, WayKept
  <2>3. CASE s \notin opening
    <3>1. PICK S : S = Request \cup {q}
      OBVIOUS
    <3>2. toDaemon \in Seq(S) /\ q \in S
      BY <3>1, PhaseValues, SeqMonotonic
    <3>3. Len(toDaemon) + 1 \in 1 .. Len(toDaemon')
              /\ toDaemon'[Len(toDaemon) + 1] = q
      BY <2>1, <3>2, AppendAt
    <3>4. q.by = "open" /\ q.session = s
      BY <2>1, <2>3
    <3>5. QED
      BY <3>3, <3>4 DEF OnItsWay
  <2>4. QED
    BY <2>2, <2>3
<1>3. QED
  BY <1>1, <1>2

\* A session that is being opened has its request or its answer on the way:
\* no step but the end of the phone's socket takes it away before the session
\* can be opened again (createMobileRuntime.ts, subscribingSessionIds).
THEOREM OpeningAwaited == Spec => OpeningIsOnItsWay
<1>1. AskedInv /\ [Next]_syncVars =>
          [\A s \in opening' : (s \in opening => OnItsWay(s)) =>
              OnItsWay(s)' \/ phase' = "away"]_syncVars
  <2>1. SUFFICES ASSUME AskedInv, Next, NEW s \in opening',
                        s \in opening => OnItsWay(s), phase' # "away"
                 PROVE  OnItsWay(s)'
    OBVIOUS
  <2>2. SyncInv
    BY <2>1 DEF AskedInv
  <2>3. CASE DaemonActs \/ DaemonRegister
    <3>1. UNCHANGED <<opening, toDaemon, toPhone>>
      BY <2>3 DEF DaemonActs, DaemonRegister, linkVars
    <3>2. QED
      BY <3>1, <2>1, WayKept
  <2>4. CASE SendEvent
    <3>1. s \in opening
      BY <2>4, <2>1 DEF SendEvent
    <3>2. QED
      BY <3>1, <2>1, <2>2, <2>4, WaySent
  <2>5. CASE HandleRequest
    <3>1. s \in opening
      BY <2>5, <2>1 DEF HandleRequest
    <3>2. QED
      BY <3>1, <2>1, <2>5, WayHandled
  <2>6. CASE DaemonDrop \/ DaemonCrash
    <3>1. LoseLink /\ s \in opening
      BY <2>6, <2>1 DEF DaemonDrop, DaemonCrash, LoseLink
    <3>2. QED
      BY <3>1, <2>1, <2>2, WayLost
  <2>7. CASE Synchronize
    <3>1. s \in opening /\ phase = "away"
      BY <2>7, <2>1 DEF Synchronize
    <3>2. OnItsWay(s)
      BY <3>1, <2>1
    <3>3. toDaemon = <<>> /\ \A i \in 1 .. Len(toPhone) : Pushed(toPhone[i])
      BY <3>1, <2>1 DEF AskedInv, Alone, IdleAsksNothing
    <3>4. QED
      BY <3>2, <3>3 DEF OnItsWay, Pushed
  <2>8. CASE Disconnect \/ Retry
    BY <2>8, <2>1 DEF Disconnect, Retry, LoseSocket
  <2>9. CASE Receive
    <3>1. opening' \subseteq opening
      BY <2>9 DEF Receive, ReceivePushed, ReceiveList, ReceiveSync,
                  ReceiveOpened, ReceiveError
    <3>2. QED
      BY <3>1, <2>1, <2>2, <2>9, WayReceive
  <2>10. CASE \E z \in Sessions : OpenSession(z)
    BY <2>1, <2>2, <2>10, WayOpened
  <2>11. QED
    BY <2>1, <2>3, <2>4, <2>5, <2>6, <2>7, <2>8, <2>9, <2>10 DEF Next
<1>2. QED
  BY <1>1, AskedInvariant, PTL DEF Spec, OpeningIsOnItsWay

-----------------------------------------------------------------------------
(* What a sequence of messages says: the last that is said of a session's  *)
(* status or prompt, and which of its outputs are in it.                   *)

StatusNames == {"session.created", "session.updated", "session.ended"}
PromptNames == {"interaction.requested", "interaction.resolved"}
OutputName == {"terminal.output"}

\* An event of N of the session s, and what it says.
Of(e, s, N) == e.session = s /\ e.event \in N
About(m, s, N) == Pushed(m) /\ Of(m.event, s, N)
What(e) == IF e.event \in PromptNames
           THEN IF e.event = "interaction.requested" THEN e.n ELSE 0
           ELSE e.status

\* Who knows base and then hears w from behind its k-th element on knows real.
Says(w, k, s, N, base, real) ==
    \/ base = real /\ \A p \in k + 1 .. Len(w) : ~About(w[p], s, N)
    \/ \E p \in k + 1 .. Len(w) :
          /\ About(w[p], s, N) /\ What(w[p].event) = real
          /\ \A q \in p + 1 .. Len(w) : ~About(w[q], s, N)

\* Who knows base, or will have been told, lists the session.
Lists(w, k, s, base) ==
    \/ base # "absent"
    \/ \E p \in k + 1 .. Len(w) :
          About(w[p], s, {"session.created", "session.updated"})

\* Every output of h after n is in w from behind its k-th element on.
Carries(w, k, s, n, h) ==
    \A j \in 1 .. Len(h) : h[j] > n =>
        \E p \in k + 1 .. Len(w) :
            About(w[p], s, OutputName) /\ w[p].event.n = h[j]

\* The events of v are in w, in the same order: up to c in the same place, the
\* rest d further on.
KeepsOrder(w, v, c, d) ==
    /\ Len(w) \in Nat /\ Len(v) \in Nat
    /\ \A i \in 1 .. Len(v) : Pushed(v[i]) =>
           \/ i <= c /\ i \in 1 .. Len(w) /\ v[i] = w[i]
           \/ i > c /\ i + d \in 1 .. Len(w) /\ i + d > c /\ v[i] = w[i + d]

\* v is w and more behind it; w with one answer in it; w without its first.
Longer(w, v) ==
    /\ Len(w) \in Nat /\ Len(v) \in Nat /\ Len(w) <= Len(v)
    /\ \A p \in 1 .. Len(w) : v[p] = w[p]
Inserted(w, v, n) ==
    /\ Len(w) \in Nat /\ n \in 0 .. Len(w) /\ Len(v) = Len(w) + 1
    /\ \A p \in 1 .. n : v[p] = w[p]
    /\ ~Pushed(v[n + 1])
    /\ \A p \in n + 1 .. Len(w) : v[p + 1] = w[p]
Shifted(w, v) ==
    /\ Len(w) \in Nat \ {0} /\ Len(v) = Len(w) - 1
    /\ \A p \in 1 .. Len(v) : v[p] = w[p + 1]

LEMMA SaysLonger ==
    ASSUME NEW w, NEW v, Longer(w, v), NEW k \in 0 .. Len(w), NEW s, NEW N,
           NEW base, NEW real, Says(w, k, s, N, base, real),
           \A p \in Len(w) + 1 .. Len(v) : ~About(v[p], s, N)
    PROVE  Says(v, k, s, N, base, real)
<1>1. /\ Len(w) \in Nat /\ Len(v) \in Nat /\ Len(w) <= Len(v)
      /\ \A p \in 1 .. Len(w) : v[p] = w[p]
  BY DEF Longer
<1>2. \A p \in 1 .. Len(v) : p \in 1 .. Len(w) \/ p \in Len(w) + 1 .. Len(v)
  BY <1>1
<1>3. CASE base = real /\ \A p \in k + 1 .. Len(w) : ~About(w[p], s, N)
  BY <1>1, <1>2, <1>3 DEF Says
<1>4. CASE \E p \in k + 1 .. Len(w) :
              /\ About(w[p], s, N) /\ What(w[p].event) = real
              /\ \A q \in p + 1 .. Len(w) : ~About(w[q], s, N)
  <2>1. PICK p \in k + 1 .. Len(w) :
              /\ About(w[p], s, N) /\ What(w[p].event) = real
              /\ \A q \in p + 1 .. Len(w) : ~About(w[q], s, N)
    BY <1>4
  <2>2. p \in k + 1 .. Len(v) /\ v[p] = w[p]
    BY <1>1
  <2>3. \A q \in p + 1 .. Len(v) : ~About(v[q], s, N)
    BY <1>1, <1>2, <2>1
  <2>4. QED
    BY <2>1, <2>2, <2>3 DEF Says
<1>5. QED
  BY <1>3, <1>4 DEF Says

LEMMA SaysAnew ==
    ASSUME NEW w, NEW v, Longer(w, v), NEW k \in 0 .. Len(w), NEW s, NEW N,
           NEW base, NEW real, NEW p \in Len(w) + 1 .. Len(v),
           About(v[p], s, N), What(v[p].event) = real,
           \A q \in p + 1 .. Len(v) : ~About(v[q], s, N)
    PROVE  Says(v, k, s, N, base, real)
<1>1. p \in k + 1 .. Len(v)
  BY DEF Longer
<1>2. QED
  BY <1>1 DEF Says

LEMMA SaysInserted ==
    ASSUME NEW w, NEW v, NEW n, Inserted(w, v, n), NEW k \in 0 .. n, NEW s,
           NEW N, NEW base, NEW real, Says(w, k, s, N, base, real)
    PROVE  /\ Says(v, k, s, N, base, real)
           /\ k = n => Says(v, n + 1, s, N, base, real)
<1>1. /\ Len(w) \in Nat /\ n \in 0 .. Len(w) /\ Len(v) = Len(w) + 1
      /\ \A p \in 1 .. n : v[p] = w[p]
      /\ ~Pushed(v[n + 1])
      /\ \A p \in n + 1 .. Len(w) : v[p + 1] = w[p]
  BY DEF Inserted
<1>2. ASSUME NEW q \in 1 .. Len(v)
      PROVE  \/ q \in 1 .. n /\ v[q] = w[q]
             \/ q = n + 1 /\ ~About(v[q], s, N)
             \/ q - 1 \in n + 1 .. Len(w) /\ v[q] = w[q - 1]
  <2>1. CASE q \in 1 .. n
    BY <2>1, <1>1
  <2>2. CASE q = n + 1
    BY <2>2, <1>1 DEF About
  <2>3. CASE q > n + 1
    <3>1. q - 1 \in n + 1 .. Len(w) /\ q = (q - 1) + 1
      BY <2>3, <1>1
    <3>2. QED
      BY <3>1, <1>1
  <2>4. QED
    BY <2>1, <2>2, <2>3, <1>1
<1>3. CASE base = real /\ \A p \in k + 1 .. Len(w) : ~About(w[p], s, N)
  <2>1. \A q \in k + 1 .. Len(v) : ~About(v[q], s, N)
    BY <1>1, <1>2, <1>3
  <2>2. \A q \in (n + 1) + 1 .. Len(v) : q \in k + 1 .. Len(v)
    BY <1>1
  <2>3. QED
    BY <2>1, <2>2, <1>3 DEF Says
<1>4. CASE \E p \in k + 1 .. Len(w) :
              /\ About(w[p], s, N) /\ What(w[p].event) = real
              /\ \A q \in p + 1 .. Len(w) : ~About(w[q], s, N)
  <2>1. PICK p \in k + 1 .. Len(w) :
              /\ About(w[p], s, N) /\ What(w[p].event) = real
              /\ \A q \in p + 1 .. Len(w) : ~About(w[q], s, N)
    BY <1>4
  <2>2. CASE p <= n
    <3>1. p \in k + 1 .. Len(v) /\ v[p] = w[p] /\ k # n
      BY <2>2, <1>1
    <3>2. \A q \in p + 1 .. Len(v) : ~About(v[q], s, N)
      BY <2>1, <2>2, <1>1, <1>2
    <3>3. QED
      BY <3>1, <3>2, <2>1 DEF Says
  <2>3. CASE p > n
    <3>1. PICK r : r = p + 1
      OBVIOUS
    <3>2. /\ r \in k + 1 .. Len(v) /\ v[r] = w[p]
          /\ r \in (n + 1) + 1 .. Len(v)
      BY <3>1, <2>3, <1>1
    <3>3. ASSUME NEW q \in r + 1 .. Len(v) PROVE ~About(v[q], s, N)
      <4>1. q \in 1 .. Len(v) /\ q > n + 1 /\ q - 1 \in p + 1 .. Len(w)
        BY <3>1, <2>3, <1>1
      <4>2. v[q] = w[q - 1]
        BY <4>1, <1>1, <1>2
      <4>3. QED
        BY <4>1, <4>2, <2>1
    <3>4. QED
      BY <3>2, <3>3, <2>1 DEF Says
  <2>4. QED
    BY <2>2, <2>3, <1>1
<1>5. QED
  BY <1>3, <1>4 DEF Says

LEMMA SaysShifted ==
    ASSUME NEW w, NEW v, Shifted(w, v), NEW k \in 0 .. Len(w), NEW s, NEW N,
           NEW base, NEW real, Says(w, k, s, N, base, real)
    PROVE  /\ k # 0 => Says(v, k - 1, s, N, base, real)
           /\ k = 0 /\ ~About(w[1], s, N) => Says(v, 0, s, N, base, real)
           /\ k = 0 /\ About(w[1], s, N) =>
                 Says(v, 0, s, N, What(w[1].event), real)
           /\ k = 0 /\ (\E p \in 1 .. Len(v) : About(v[p], s, N)) =>
                 \A any : Says(v, 0, s, N, any, real)
<1>1. /\ Len(w) \in Nat \ {0} /\ Len(v) = Len(w) - 1
      /\ \A p \in 1 .. Len(v) : v[p] = w[p + 1]
  BY DEF Shifted
<1>2. CASE base = real /\ \A p \in k + 1 .. Len(w) : ~About(w[p], s, N)
  <2>1. ASSUME k # 0, NEW p \in (k - 1) + 1 .. Len(v)
        PROVE  ~About(v[p], s, N)
    <3>1. p \in 1 .. Len(v) /\ p + 1 \in k + 1 .. Len(w)
      BY <2>1, <1>1
    <3>2. QED
      BY <3>1, <1>1, <1>2
  <2>2. k = 0 => ~About(w[1], s, N) /\ \A p \in 1 .. Len(v) : ~About(v[p], s, N)
    BY <1>1, <1>2
  <2>3. QED
    BY <2>1, <2>2, <1>2 DEF Says
<1>3. CASE \E p \in k + 1 .. Len(w) :
              /\ About(w[p], s, N) /\ What(w[p].event) = real
              /\ \A q \in p + 1 .. Len(w) : ~About(w[q], s, N)
  <2>1. PICK p \in k + 1 .. Len(w) :
              /\ About(w[p], s, N) /\ What(w[p].event) = real
              /\ \A q \in p + 1 .. Len(w) : ~About(w[q], s, N)
    BY <1>3
  <2>2. CASE p = 1
    <3>1. k = 0 /\ \A q \in 1 .. Len(v) : ~About(v[q], s, N)
      BY <2>1, <2>2, <1>1
    <3>2. QED
      BY <3>1, <2>1, <2>2 DEF Says
  <2>3. CASE p # 1
    <3>1. PICK r : r = p - 1
      OBVIOUS
    <3>2. /\ r \in 1 .. Len(v) /\ v[r] = w[p]
          /\ k # 0 => r \in (k - 1) + 1 .. Len(v)
      BY <3>1, <2>3, <1>1
    <3>3. \A q \in r + 1 .. Len(v) : ~About(v[q], s, N)
      BY <3>1, <2>1, <2>3, <1>1, SMTT(20)
    <3>4. k # 0 => Says(v, k - 1, s, N, base, real)
      BY <3>2, <3>3, <2>1 DEF Says
    <3>5. k = 0 => \A any : Says(v, 0, s, N, any, real)
      BY <3>2, <3>3, <2>1 DEF Says
    <3>6. QED
      BY <3>4, <3>5
  <2>4. QED
    BY <2>2, <2>3
<1>4. QED
  BY <1>2, <1>3 DEF Says

\* What is said once stays said.
LEMMA ListsStays ==
    ASSUME NEW w, NEW v, NEW s, NEW base
    PROVE  /\ \A k \in 0 .. Len(w) : Longer(w, v) /\ Lists(w, k, s, base) =>
                  Lists(v, k, s, base)
           /\ \A n : Inserted(w, v, n) =>
                 /\ \A k \in 0 .. n : Lists(w, k, s, base) => Lists(v, k, s, base)
                 /\ Lists(w, n, s, base) => Lists(v, n + 1, s, base)
           /\ Shifted(w, v) =>
                 /\ \A k \in 1 .. Len(w) : Lists(w, k, s, base) =>
                        Lists(v, k - 1, s, base)
                 /\ Lists(w, 0, s, base)
                      /\ ~About(w[1], s, {"session.created", "session.updated"})
                    => Lists(v, 0, s, base)
<1> DEFINE N == {"session.created", "session.updated"}
           Tells(u, k) == \E p \in k + 1 .. Len(u) : About(u[p], s, N)
<1>1. \A u, k : Lists(u, k, s, base) <=> base # "absent" \/ Tells(u, k)
  BY DEF Lists
<1>2. ASSUME NEW k \in 0 .. Len(w), Longer(w, v), Tells(w, k)
      PROVE  Tells(v, k)
  <2>1. PICK p \in k + 1 .. Len(w) : About(w[p], s, N)
    BY <1>2
  <2>2. p \in k + 1 .. Len(v) /\ v[p] = w[p]
    BY <1>2 DEF Longer
  <2>3. QED
    BY <2>1, <2>2
<1>3. ASSUME NEW n, Inserted(w, v, n), NEW k \in 0 .. n, Tells(w, k)
      PROVE  Tells(v, k) /\ (k = n => Tells(v, n + 1))
  <2>1. PICK p \in k + 1 .. Len(w) : About(w[p], s, N)
    BY <1>3
  <2>2. CASE p <= n
    <3>1. p \in k + 1 .. Len(v) /\ v[p] = w[p] /\ k # n
      BY <2>2, <1>3 DEF Inserted
    <3>2. QED
      BY <3>1, <2>1
  <2>3. CASE p > n
    <3>1. /\ p + 1 \in k + 1 .. Len(v) /\ v[p + 1] = w[p]
          /\ p + 1 \in (n + 1) + 1 .. Len(v)
      BY <2>3, <1>3 DEF Inserted
    <3>2. QED
      BY <3>1, <2>1
  <2>4. QED
    BY <2>2, <2>3, <1>3 DEF Inserted
<1>4. ASSUME Shifted(w, v), NEW k \in 0 .. Len(w), Tells(w, k)
      PROVE  /\ k # 0 => Tells(v, k - 1)
             /\ k = 0 /\ ~About(w[1], s, N) => Tells(v, 0)
  <2>1. PICK p \in k + 1 .. Len(w) : About(w[p], s, N)
    BY <1>4
  <2>2. p # 1 => p - 1 \in 1 .. Len(v) /\ v[p - 1] = w[p]
    BY <1>4 DEF Shifted
  <2>3. k # 0 => p # 1 /\ p - 1 \in (k - 1) + 1 .. Len(v)
    BY <1>4 DEF Shifted
  <2>4. QED
    BY <2>1, <2>2, <2>3
<1> HIDE DEF Tells
<1>5. \A k \in 0 .. Len(w) : Longer(w, v) /\ Lists(w, k, s, base) =>
          Lists(v, k, s, base)
  BY <1>1, <1>2
<1>6. ASSUME NEW n, Inserted(w, v, n)
      PROVE  /\ \A k \in 0 .. n : Lists(w, k, s, base) => Lists(v, k, s, base)
             /\ Lists(w, n, s, base) => Lists(v, n + 1, s, base)
  <2>1. n \in 0 .. n
    BY <1>6 DEF Inserted
  <2>2. QED
    BY <2>1, <1>1, <1>3, <1>6
<1>7. ASSUME Shifted(w, v)
      PROVE  /\ \A k \in 1 .. Len(w) : Lists(w, k, s, base) =>
                    Lists(v, k - 1, s, base)
             /\ Lists(w, 0, s, base) /\ ~About(w[1], s, N) => Lists(v, 0, s, base)
  <2>1. 0 \in 0 .. Len(w) /\ \A k \in 1 .. Len(w) : k \in 0 .. Len(w) /\ k # 0
    BY <1>7 DEF Shifted
  <2>2. QED
    BY <2>1, <1>1, <1>4, <1>7
<1>8. QED
  BY <1>5, <1>6, <1>7

LEMMA CarriesStays ==
    ASSUME NEW w, NEW v, NEW s, NEW b, NEW h
    PROVE  /\ \A k \in 0 .. Len(w) : Longer(w, v) /\ Carries(w, k, s, b, h) =>
                  Carries(v, k, s, b, h)
           /\ \A n : Inserted(w, v, n) =>
                 /\ \A k \in 0 .. n :
                        Carries(w, k, s, b, h) => Carries(v, k, s, b, h)
                 /\ Carries(w, n, s, b, h) => Carries(v, n + 1, s, b, h)
           /\ Shifted(w, v) =>
                 /\ \A k \in 1 .. Len(w) : Carries(w, k, s, b, h) =>
                        Carries(v, k - 1, s, b, h)
                 /\ Carries(w, 0, s, b, h) /\ ~About(w[1], s, OutputName) =>
                        Carries(v, 0, s, b, h)
<1> DEFINE Has(u, k, x) == \E p \in k + 1 .. Len(u) :
                             About(u[p], s, OutputName) /\ u[p].event.n = x
<1>1. \A u, k : Carries(u, k, s, b, h) <=>
          \A j \in 1 .. Len(h) : h[j] > b => Has(u, k, h[j])
  BY DEF Carries
<1>2. ASSUME NEW k \in 0 .. Len(w), Longer(w, v), NEW x, Has(w, k, x)
      PROVE  Has(v, k, x)
  <2>1. PICK p \in k + 1 .. Len(w) :
            About(w[p], s, OutputName) /\ w[p].event.n = x
    BY <1>2
  <2>2. p \in k + 1 .. Len(v) /\ v[p] = w[p]
    BY <1>2 DEF Longer
  <2>3. QED
    BY <2>1, <2>2
<1>3. ASSUME NEW n, Inserted(w, v, n), NEW k \in 0 .. n, NEW x, Has(w, k, x)
      PROVE  Has(v, k, x) /\ (k = n => Has(v, n + 1, x))
  <2>1. PICK p \in k + 1 .. Len(w) :
            About(w[p], s, OutputName) /\ w[p].event.n = x
    BY <1>3
  <2>2. CASE p <= n
    <3>1. p \in k + 1 .. Len(v) /\ v[p] = w[p] /\ k # n
      BY <2>2, <1>3 DEF Inserted
    <3>2. QED
      BY <3>1, <2>1
  <2>3. CASE p > n
    <3>1. /\ p + 1 \in k + 1 .. Len(v) /\ v[p + 1] = w[p]
          /\ p + 1 \in (n + 1) + 1 .. Len(v)
      BY <2>3, <1>3 DEF Inserted
    <3>2. QED
      BY <3>1, <2>1
  <2>4. QED
    BY <2>2, <2>3, <1>3 DEF Inserted
<1>4. ASSUME Shifted(w, v), NEW k \in 0 .. Len(w), NEW x, Has(w, k, x)
      PROVE  /\ k # 0 => Has(v, k - 1, x)
             /\ k = 0 /\ ~About(w[1], s, OutputName) => Has(v, 0, x)
  <2>1. PICK p \in k + 1 .. Len(w) :
            About(w[p], s, OutputName) /\ w[p].event.n = x
    BY <1>4
  <2>2. p # 1 => p - 1 \in 1 .. Len(v) /\ v[p - 1] = w[p]
    BY <1>4 DEF Shifted
  <2>3. k # 0 => p # 1 /\ p - 1 \in (k - 1) + 1 .. Len(v)
    BY <1>4 DEF Shifted
  <2>4. QED
    BY <2>1, <2>2, <2>3
<1> HIDE DEF Has
<1>5. \A k \in 0 .. Len(w) : Longer(w, v) /\ Carries(w, k, s, b, h) =>
          Carries(v, k, s, b, h)
  BY <1>1, <1>2
<1>6. ASSUME NEW n, Inserted(w, v, n)
      PROVE  /\ \A k \in 0 .. n : Carries(w, k, s, b, h) => Carries(v, k, s, b, h)
             /\ Carries(w, n, s, b, h) => Carries(v, n + 1, s, b, h)
  <2>1. n \in 0 .. n
    BY <1>6 DEF Inserted
  <2>2. QED
    BY <2>1, <1>1, <1>3, <1>6
<1>7. ASSUME Shifted(w, v)
      PROVE  /\ \A k \in 1 .. Len(w) : Carries(w, k, s, b, h) =>
                    Carries(v, k - 1, s, b, h)
             /\ Carries(w, 0, s, b, h) /\ ~About(w[1], s, OutputName) =>
                    Carries(v, 0, s, b, h)
  <2>1. 0 \in 0 .. Len(w) /\ \A k \in 1 .. Len(w) : k \in 0 .. Len(w) /\ k # 0
    BY <1>7 DEF Shifted
  <2>2. QED
    BY <2>1, <1>1, <1>4, <1>7
<1>8. QED
  BY <1>5, <1>6, <1>7

\* The order of outputs, and what an event of a session's status may say.
Mounting(w) ==
    \A s \in Sessions : \A i, j \in 1 .. Len(w) :
        i < j /\ About(w[i], s, OutputName) /\ About(w[j], s, OutputName) =>
            w[i].event.n < w[j].event.n
Plausible(e) ==
    e.event \in StatusNames =>
        e.status \in Live /\ (e.event = "session.ended" => e.status = "stopped")
AllPlausible(w) == \A i \in 1 .. Len(w) : Pushed(w[i]) => Plausible(w[i].event)
Unheard(w, s) == \A i \in 1 .. Len(w) : ~About(w[i], s, EventNames)

LEMMA OrderKept ==
    ASSUME NEW w, NEW v, NEW c \in Nat, NEW d \in Int, KeepsOrder(w, v, c, d)
    PROVE  /\ Mounting(w) => Mounting(v)
           /\ AllPlausible(w) => AllPlausible(v)
           /\ \A s : Unheard(w, s) => Unheard(v, s)
<1>1. \A i \in 1 .. Len(v) : Pushed(v[i]) =>
          \E x \in 1 .. Len(w) : w[x] = v[i]
  BY DEF KeepsOrder
<1>2. ASSUME NEW i \in 1 .. Len(v), NEW j \in 1 .. Len(v), i < j,
             Pushed(v[i]), Pushed(v[j])
      PROVE  \E x, y \in 1 .. Len(w) : x < y /\ w[x] = v[i] /\ w[y] = v[j]
  <2>1. /\ Len(w) \in Nat /\ Len(v) \in Nat
        /\ \/ i <= c /\ i \in 1 .. Len(w) /\ v[i] = w[i]
           \/ i > c /\ i + d \in 1 .. Len(w) /\ i + d > c /\ v[i] = w[i + d]
        /\ \/ j <= c /\ j \in 1 .. Len(w) /\ v[j] = w[j]
           \/ j > c /\ j + d \in 1 .. Len(w) /\ j + d > c /\ v[j] = w[j + d]
    BY <1>2 DEF KeepsOrder
  <2>2. CASE i <= c /\ j <= c
    BY <2>1, <2>2, <1>2
  <2>3. CASE i > c /\ j > c
    <3>1. i + d < j + d
      BY <2>1, <1>2
    <3>2. QED
      BY <2>1, <2>3, <3>1
  <2>4. CASE i <= c /\ j > c
    <3>1. i < j + d
      BY <2>1, <2>4
    <3>2. QED
      BY <2>1, <2>4, <3>1
  <2>5. QED
    BY <2>2, <2>3, <2>4, <1>2
<1>3. Mounting(w) => Mounting(v)
  BY <1>2, SMTT(20) DEF Mounting, About
<1>4. AllPlausible(w) => AllPlausible(v)
  BY <1>1 DEF AllPlausible
<1>5. ASSUME NEW s, Unheard(w, s) PROVE Unheard(v, s)
  BY <1>1, <1>5 DEF Unheard, About
<1>6. QED
  BY <1>3, <1>4, <1>5

-----------------------------------------------------------------------------
(* All that is on its way to the phone, in the order it will arrive: what  *)
(* has been sent, and behind it the events whose tasks have not run.       *)

Telling(e) == [kind |-> "event", event |-> e]
Laid(sent, ev) == sent \o [i \in 1 .. Len(ev) |-> Telling(ev[i])]
Way == Laid(toPhone, events)

LEMMA LaidAt ==
    ASSUME NEW sent \in Seq(Message), NEW ev \in Seq(Event)
    PROVE  /\ Len(sent) \in Nat /\ Len(ev) \in Nat /\ Len(Laid(sent, ev)) \in Nat
           /\ Len(Laid(sent, ev)) = Len(sent) + Len(ev)
           /\ Laid(sent, ev) \in Seq(Message)
           /\ \A i \in 1 .. Len(sent) : Laid(sent, ev)[i] = sent[i]
           /\ \A i \in 1 .. Len(ev) :
                  ev[i] \in Event /\ Laid(sent, ev)[Len(sent) + i] = Telling(ev[i])
           /\ \A p \in Len(sent) + 1 .. Len(Laid(sent, ev)) :
                  /\ p - Len(sent) \in 1 .. Len(ev)
                  /\ Laid(sent, ev)[p] = Telling(ev[p - Len(sent)])
<1>1. PICK q : q = [i \in 1 .. Len(ev) |-> Telling(ev[i])]
  OBVIOUS
<1>2. Len(ev) \in Nat /\ \A i \in 1 .. Len(ev) : ev[i] \in Event
  BY LenProperties, ElementOfSeq
<1>3. \A e \in Event : Telling(e) \in Message
  BY DEF Telling, Message
<1>4. q \in [1 .. Len(ev) -> Message]
  BY <1>1, <1>2, <1>3
<1>5. q \in Seq(Message) /\ Len(q) = Len(ev)
  BY <1>2, <1>4, SeqDef, LenProperties
<1>6. /\ Laid(sent, ev) \in Seq(Message)
      /\ Len(sent) \in Nat /\ Len(Laid(sent, ev)) = Len(sent) + Len(q)
      /\ \A i \in 1 .. Len(sent) : Laid(sent, ev)[i] = sent[i]
      /\ \A i \in 1 .. Len(q) : Laid(sent, ev)[Len(sent) + i] = q[i]
  <2>1. Laid(sent, ev) = sent \o q
    BY <1>1 DEF Laid
  <2>2. /\ sent \o q \in Seq(Message)
        /\ Len(sent) \in Nat /\ Len(sent \o q) = Len(sent) + Len(q)
        /\ \A i \in 1 .. Len(sent) : (sent \o q)[i] = sent[i]
        /\ \A i \in 1 .. Len(q) : (sent \o q)[Len(sent) + i] = q[i]
    <3>1. q \in Seq(Message)
      BY <1>5
    <3>2. QED
      BY <3>1, ConcatAt
  <2>3. QED
    BY <2>1, <2>2
<1>7. \A i \in 1 .. Len(ev) : q[i] = Telling(ev[i])
  BY <1>1
<1>8. ASSUME NEW p \in Len(sent) + 1 .. Len(Laid(sent, ev))
      PROVE  /\ p - Len(sent) \in 1 .. Len(ev)
             /\ Laid(sent, ev)[p] = Telling(ev[p - Len(sent)])
  <2>1. PICK i \in 1 .. Len(ev) : i = p - Len(sent) /\ p = Len(sent) + i
    <3>1. \A a, b \in Nat : \A c \in a + 1 .. a + b :
             /\ c - a \in 1 .. b
             /\ c = a + (c - a)
      OBVIOUS
    <3>2. /\ Len(sent) \in Nat /\ Len(ev) \in Nat
          /\ Len(Laid(sent, ev)) = Len(sent) + Len(ev)
      BY <1>2, <1>5, <1>6
    <3>3. p \in Len(sent) + 1 .. Len(sent) + Len(ev)
      BY <3>2
    <3>4. /\ p - Len(sent) \in 1 .. Len(ev)
          /\ p = Len(sent) + (p - Len(sent))
      BY <3>1, <3>2, <3>3
    <3>5. QED
      BY <3>4
  <2>2. Laid(sent, ev)[Len(sent) + i] = Telling(ev[i])
    BY <1>5, <1>6, <1>7
  <2>3. QED
    BY <2>1, <2>2
<1>9. QED
  BY <1>2, <1>5, <1>6, <1>7, <1>8

LEMMA ChannelTypes ==
    SyncInv => toPhone \in Seq(Message) /\ events \in Seq(Event)
<1>1. TypeOK => toPhone \in Seq(Message) /\ events \in Seq(Event)
  BY DEF TypeOK, RegistryTypeOK
<1>2. QED
  BY <1>1 DEF SyncInv

\* The daemon creates tasks.
LEMMA WayGrows ==
    ASSUME SyncInv, NEW evs \in Seq(Event), events' = events \o evs,
           UNCHANGED toPhone
    PROVE  /\ Longer(Way, Way') /\ Len(Way') = Len(Way) + Len(evs)
           /\ Len(evs) \in Nat /\ Len(toPhone) \in 0 .. Len(Way)
           /\ \A i \in 1 .. Len(evs) : Way'[Len(Way) + i] = Telling(evs[i])
           /\ \A p \in Len(Way) + 1 .. Len(Way') :
                  /\ p - Len(Way) \in 1 .. Len(evs)
                  /\ Way'[p] = Telling(evs[p - Len(Way)])
<1>1. PICK n, m, x : /\ n = Len(toPhone) /\ m = Len(events) /\ x = events'
  OBVIOUS
<1>2. toPhone \in Seq(Message) /\ events \in Seq(Event) /\ x = events \o evs
  BY <1>1, ChannelTypes
<1>3. /\ x \in Seq(Event) /\ m \in Nat /\ Len(evs) \in Nat /\ Len(x) = m + Len(evs)
      /\ \A i \in 1 .. m : x[i] = events[i]
      /\ \A i \in 1 .. Len(evs) : x[m + i] = evs[i]
  BY <1>1, <1>2, ConcatAt
<1>4. PICK w, v : w = Laid(toPhone, events) /\ v = Laid(toPhone, x)
  OBVIOUS
<1>5. /\ n \in Nat /\ Len(w) = n + m /\ \A i \in 1 .. n : w[i] = toPhone[i]
      /\ \A i \in 1 .. m : w[n + i] = Telling(events[i])
      /\ \A p \in n + 1 .. Len(w) : p - n \in 1 .. m /\ w[p] = Telling(events[p - n])
  BY <1>1, <1>2, <1>4, LaidAt
<1>6. /\ Len(v) = n + Len(x) /\ \A i \in 1 .. n : v[i] = toPhone[i]
      /\ \A i \in 1 .. Len(x) : v[n + i] = Telling(x[i])
      /\ \A p \in n + 1 .. Len(v) : p - n \in 1 .. Len(x) /\ v[p] = Telling(x[p - n])
  <2>1. x \in Seq(Event)
    BY <1>3
  <2>2. QED
    BY <2>1, <1>1, <1>2, <1>4, LaidAt
<1>7. ASSUME NEW p \in 1 .. Len(w) PROVE v[p] = w[p]
  <2>1. CASE p <= n
    BY <2>1, <1>5, <1>6
  <2>2. CASE p > n
    <3>1. p \in n + 1 .. Len(w) /\ p \in n + 1 .. Len(v)
      BY <2>2, <1>3, <1>5, <1>6
    <3>2. QED
      BY <3>1, <1>3, <1>5, <1>6
  <2>3. QED
    BY <2>1, <2>2, <1>5
<1>8. ASSUME NEW i \in 1 .. Len(evs) PROVE v[Len(w) + i] = Telling(evs[i])
  <2>1. m + i \in 1 .. Len(x) /\ n + (m + i) = Len(w) + i
    BY <1>3, <1>5
  <2>2. QED
    BY <2>1, <1>3, <1>6
<1>9. \A p \in Len(w) + 1 .. Len(v) :
          p - Len(w) \in 1 .. Len(evs) /\ p = Len(w) + (p - Len(w))
  BY <1>3, <1>5, <1>6
<1>10. Way = w /\ Way' = v
  BY <1>1, <1>4 DEF Way
<1>11. Longer(w, v) /\ Len(v) = Len(w) + Len(evs) /\ n \in 0 .. Len(w)
  BY <1>3, <1>5, <1>6, <1>7 DEF Longer
<1>12. \A p \in Len(w) + 1 .. Len(v) :
           p - Len(w) \in 1 .. Len(evs) /\ v[p] = Telling(evs[p - Len(w)])
  BY <1>8, <1>9
<1>13. QED
  BY <1>1, <1>3, <1>8, <1>10, <1>11, <1>12

\* A task runs: what it sends stays where it was on the way, what it drops is
\* gone from it.
LEMMA WayPassed ==
    ASSUME SyncInv, SendEvent
    PROVE  /\ linkUp /\ Linked => Way' = Way
           /\ ~(linkUp /\ Linked) =>
                 UNCHANGED toPhone /\ KeepsOrder(Way, Way', Len(toPhone), 1)
<1>1. PICK n, m, x, y : /\ n = Len(toPhone) /\ m = Len(events)
                        /\ x = events' /\ y = toPhone'
  OBVIOUS
<1>2. /\ toPhone \in Seq(Message) /\ events \in Seq(Event) /\ events # <<>>
      /\ x = Tail(events)
  BY <1>1, ChannelTypes DEF SendEvent
<1>3. /\ Head(events) = events[1] /\ Head(events) \in Event /\ x \in Seq(Event)
      /\ m \in Nat \ {0} /\ Len(x) = m - 1
      /\ \A i \in 1 .. m - 1 : x[i] = events[i + 1]
  BY <1>1, <1>2, TailAt
<1>4. PICK w, v : w = Laid(toPhone, events) /\ v = Laid(y, x)
  OBVIOUS
<1>5. /\ n \in Nat /\ Len(w) = n + m /\ \A i \in 1 .. n : w[i] = toPhone[i]
      /\ \A i \in 1 .. m : w[n + i] = Telling(events[i])
      /\ w \in Seq(Message)
  BY <1>1, <1>2, <1>4, LaidAt
<1>6. Way = w /\ Way' = v
  BY <1>1, <1>4 DEF Way
<1>7. ASSUME linkUp /\ Linked PROVE v = w
  <2>1. PICK t \in Message : t = Telling(events[1])
    BY <1>3 DEF Telling, Message
  <2>2. y = Append(toPhone, t)
    BY <1>1, <1>3, <1>7, <2>1 DEF SendEvent, Telling
  <2>3. /\ y \in Seq(Message) /\ Len(y) = n + 1
        /\ \A i \in 1 .. n : y[i] = toPhone[i]
        /\ y[n + 1] = t
    <3>1. toPhone \in Seq(Message) /\ t \in Message
      BY <1>2, <2>1
    <3>2. /\ Append(toPhone, t) \in Seq(Message)
          /\ Len(Append(toPhone, t)) = Len(toPhone) + 1
          /\ \A i \in 1 .. Len(toPhone) : Append(toPhone, t)[i] = toPhone[i]
          /\ Append(toPhone, t)[Len(toPhone) + 1] = t
      BY <3>1, AppendAt
    <3>3. QED
      BY <3>2, <2>2, <1>1
  <2>4. /\ Len(v) = Len(y) + Len(x) /\ v \in Seq(Message)
        /\ \A i \in 1 .. Len(y) : v[i] = y[i]
        /\ \A p \in Len(y) + 1 .. Len(v) :
               p - Len(y) \in 1 .. Len(x) /\ v[p] = Telling(x[p - Len(y)])
    <3>1. x \in Seq(Event) /\ y \in Seq(Message)
      BY <1>3, <2>3
    <3>2. QED
      BY <3>1, <1>4, LaidAt
  <2>5. ASSUME NEW p \in 1 .. Len(v) PROVE v[p] = w[p]
    <3>1. CASE p <= n
      BY <3>1, <1>5, <2>3, <2>4
    <3>2. CASE p = n + 1
      BY <3>2, <1>3, <1>5, <2>1, <2>3, <2>4
    <3>3. CASE p > n + 1
      <4>1. /\ p \in Len(y) + 1 .. Len(v) /\ p - (n + 1) \in 1 .. m - 1
            /\ (p - (n + 1)) + 1 \in 1 .. m /\ n + ((p - (n + 1)) + 1) = p
        BY <3>3, <1>3, <1>5, <2>3, <2>4
      <4>2. v[p] = Telling(x[p - (n + 1)])
        BY <4>1, <2>3, <2>4
      <4>3. x[p - (n + 1)] = events[(p - (n + 1)) + 1]
        BY <4>1, <1>3
      <4>4. w[p] = Telling(events[(p - (n + 1)) + 1])
        BY <4>1, <1>5
      <4>5. QED
        BY <4>2, <4>3, <4>4
    <3>4. QED
      BY <3>1, <3>2, <3>3, <1>5
  <2>6. Len(v) = Len(w)
    BY <1>3, <1>5, <2>3, <2>4
  <2>7. QED
    BY <2>4, <2>5, <2>6, <1>5, SeqEqual
<1>8. ASSUME ~(linkUp /\ Linked) PROVE y = toPhone /\ KeepsOrder(w, v, n, 1)
  <2>1. y = toPhone
    BY <1>1, <1>8 DEF SendEvent
  <2>2. /\ Len(v) = n + Len(x) /\ \A i \in 1 .. n : v[i] = toPhone[i]
        /\ \A p \in n + 1 .. Len(v) :
               p - n \in 1 .. Len(x) /\ v[p] = Telling(x[p - n])
    <3>1. x \in Seq(Event) /\ toPhone \in Seq(Message)
      BY <1>2, <1>3
    <3>2. v = Laid(toPhone, x)
      BY <2>1, <1>4
    <3>3. QED
      BY <3>1, <3>2, <1>1, LaidAt
  <2>3. ASSUME NEW i \in 1 .. Len(v)
        PROVE  \/ i <= n /\ i \in 1 .. Len(w) /\ v[i] = w[i]
               \/ i > n /\ i + 1 \in 1 .. Len(w) /\ i + 1 > n /\ v[i] = w[i + 1]
    <3>1. CASE i <= n
      <4>1. i \in 1 .. n /\ i \in 1 .. Len(w)
        BY <3>1, <1>3, <1>5
      <4>2. v[i] = toPhone[i] /\ w[i] = toPhone[i]
        BY <4>1, <1>5, <2>2
      <4>3. QED
        BY <3>1, <4>1, <4>2
    <3>2. CASE i > n
      <4>1. /\ i \in n + 1 .. Len(v) /\ i - n \in 1 .. m - 1
            /\ (i - n) + 1 \in 1 .. m /\ n + ((i - n) + 1) = i + 1
            /\ i + 1 \in 1 .. Len(w) /\ i + 1 > n
        BY <3>2, <1>3, <1>5, <2>2
      <4>2. v[i] = Telling(x[i - n]) /\ x[i - n] = events[(i - n) + 1]
        BY <4>1, <1>3, <2>2
      <4>3. w[i + 1] = Telling(events[(i - n) + 1])
        BY <4>1, <1>5
      <4>4. QED
        BY <3>2, <4>1, <4>2, <4>3
    <3>3. QED
      BY <3>1, <3>2, <1>5, <2>2
  <2>4. Len(w) \in Nat /\ Len(v) \in Nat
    BY <1>3, <1>5, <2>2
  <2>5. QED
    BY <2>1, <2>3, <2>4 DEF KeepsOrder
<1>9. QED
  BY <1>1, <1>6, <1>7, <1>8

\* A request is answered ahead of the tasks that have not run.
LEMMA WayInserted ==
    ASSUME SyncInv, HandleRequest
    PROVE  Inserted(Way, Way', Len(toPhone)) /\ Len(toPhone') = Len(toPhone) + 1
<1>1. PICK n, m, y : n = Len(toPhone) /\ m = Len(events) /\ y = toPhone'
  OBVIOUS
<1>2. toPhone \in Seq(Message) /\ events \in Seq(Event) /\ UNCHANGED events
  BY ChannelTypes DEF HandleRequest, daemonVars
<1>3. PICK a : a = IF linkUp THEN Answer(Head(toDaemon)) ELSE Refusal(Head(toDaemon))
  OBVIOUS
<1>4. /\ Head(toDaemon) \in Request
      /\ n \in Nat /\ Len(y) = n + 1
      /\ \A i \in 1 .. n : y[i] = toPhone[i]
      /\ y[n + 1] = a
  BY <1>1, <1>3, Handled
<1>5. ~Pushed(a)
  BY <1>3, <1>4, AnswerIsOf
<1>6. y \in Seq(Message)
  <2>1. a \in SoundMessage /\ toPhone \in Seq(SoundMessage)
    BY <1>3, <1>4, AnswerSound DEF SyncInv
  <2>2. a \in Message
    BY <2>1, SoundTyped
  <2>3. y = Append(toPhone, a)
    BY <1>1, <1>3 DEF HandleRequest
  <2>4. toPhone \in Seq(Message)
    BY <1>2
  <2>5. QED
    BY <2>2, <2>3, <2>4, AppendAt
<1>7. PICK w, v : w = Laid(toPhone, events) /\ v = Laid(y, events)
  OBVIOUS
<1>8. /\ m \in Nat /\ Len(w) = n + m /\ \A i \in 1 .. n : w[i] = toPhone[i]
      /\ \A i \in 1 .. m : w[n + i] = Telling(events[i])
  <2>1. toPhone \in Seq(Message) /\ events \in Seq(Event)
    BY <1>2
  <2>2. QED
    BY <2>1, <1>1, <1>7, LaidAt
<1>9. /\ Len(v) = (n + 1) + m /\ \A i \in 1 .. n + 1 : v[i] = y[i]
      /\ \A i \in 1 .. m : v[(n + 1) + i] = Telling(events[i])
  <2>1. y \in Seq(Message) /\ events \in Seq(Event)
    BY <1>2, <1>6
  <2>2. /\ Len(v) = Len(y) + Len(events) /\ \A i \in 1 .. Len(y) : v[i] = y[i]
        /\ \A i \in 1 .. Len(events) : v[Len(y) + i] = Telling(events[i])
    BY <2>1, <1>7, LaidAt
  <2>3. Len(y) = n + 1 /\ Len(events) = m
    BY <1>1, <1>4
  <2>4. QED
    BY <2>2, <2>3
<1>10. ASSUME NEW p \in n + 1 .. Len(w) PROVE v[p + 1] = w[p]
  <2>1. PICK i \in 1 .. m : p = n + i /\ p + 1 = (n + 1) + i
    <3>1. p - n \in 1 .. m /\ p = n + (p - n) /\ p + 1 = (n + 1) + (p - n)
      BY <1>4, <1>8
    <3>2. QED
      BY <3>1
  <2>2. QED
    BY <2>1, <1>8, <1>9
<1>11. Inserted(w, v, n)
  <2>1. \A p \in 1 .. n : v[p] = w[p]
    BY <1>4, <1>8, <1>9
  <2>2. ~Pushed(v[n + 1])
    BY <1>4, <1>5, <1>9
  <2>3. Len(w) \in Nat /\ n \in 0 .. Len(w) /\ Len(v) = Len(w) + 1
    BY <1>4, <1>8, <1>9
  <2>4. QED
    BY <2>1, <2>2, <2>3, <1>10 DEF Inserted
<1>12. Way = w /\ Way' = v
  BY <1>1, <1>2, <1>7 DEF Way
<1>13. QED
  BY <1>1, <1>4, <1>11, <1>12

\* The phone receives.
LEMMA WayShifted ==
    ASSUME SyncInv, Received, UNCHANGED events
    PROVE  /\ Shifted(Way, Way') /\ Way[1] = Head(toPhone)
           /\ Len(toPhone) \in 1 .. Len(Way)
<1>1. PICK n, m, y : n = Len(toPhone) /\ m = Len(events) /\ y = toPhone'
  OBVIOUS
<1>2. /\ toPhone \in Seq(Message) /\ events \in Seq(Event)
      /\ toPhone # <<>> /\ y = Tail(toPhone)
  BY <1>1, ChannelTypes DEF Received
<1>3. /\ Head(toPhone) = toPhone[1] /\ y \in Seq(Message)
      /\ n \in Nat \ {0} /\ Len(y) = n - 1
      /\ \A i \in 1 .. n - 1 : y[i] = toPhone[i + 1]
  BY <1>1, <1>2, TailAt
<1>4. PICK w, v : w = Laid(toPhone, events) /\ v = Laid(y, events)
  OBVIOUS
<1>5. /\ m \in Nat /\ Len(w) = n + m /\ \A i \in 1 .. n : w[i] = toPhone[i]
      /\ \A i \in 1 .. m : w[n + i] = Telling(events[i])
  <2>1. toPhone \in Seq(Message) /\ events \in Seq(Event)
    BY <1>2
  <2>2. QED
    BY <2>1, <1>1, <1>4, LaidAt
<1>6. /\ Len(v) = (n - 1) + m /\ \A i \in 1 .. n - 1 : v[i] = y[i]
      /\ \A i \in 1 .. m : v[(n - 1) + i] = Telling(events[i])
  <2>1. y \in Seq(Message) /\ events \in Seq(Event)
    BY <1>2, <1>3
  <2>2. /\ Len(v) = Len(y) + Len(events) /\ \A i \in 1 .. Len(y) : v[i] = y[i]
        /\ \A i \in 1 .. Len(events) : v[Len(y) + i] = Telling(events[i])
    BY <2>1, <1>4, LaidAt
  <2>3. Len(y) = n - 1 /\ Len(events) = m
    BY <1>1, <1>3
  <2>4. QED
    BY <2>2, <2>3
<1>7. ASSUME NEW p \in 1 .. Len(v) PROVE v[p] = w[p + 1]
  <2>1. CASE p \in 1 .. n - 1
    <3>1. p + 1 \in 1 .. n
      BY <2>1, <1>3
    <3>2. v[p] = y[p] /\ y[p] = toPhone[p + 1] /\ w[p + 1] = toPhone[p + 1]
      BY <2>1, <3>1, <1>3, <1>5, <1>6
    <3>3. QED
      BY <3>2
  <2>2. CASE p \notin 1 .. n - 1
    <3>1. p - (n - 1) \in 1 .. m /\ p = (n - 1) + (p - (n - 1))
              /\ p + 1 = n + (p - (n - 1))
      BY <2>2, <1>3, <1>5, <1>6
    <3>2. PICK i \in 1 .. m : p = (n - 1) + i /\ p + 1 = n + i
      BY <3>1
    <3>3. QED
      BY <3>2, <1>5, <1>6
  <2>3. QED
    BY <2>1, <2>2
<1>8. Shifted(w, v)
  <2>1. Len(w) \in Nat \ {0} /\ Len(v) = Len(w) - 1
    BY <1>3, <1>5, <1>6
  <2>2. QED
    BY <2>1, <1>7 DEF Shifted
<1>9. w[1] = Head(toPhone) /\ n \in 1 .. Len(w)
  BY <1>3, <1>5
<1>10. Way = w /\ Way' = v
  BY <1>1, <1>4 DEF Way
<1>11. QED
  BY <1>1, <1>8, <1>9, <1>10

\* What had been sent is cut short, or gone; so may be the tasks.
LEMMA WayCut ==
    ASSUME SyncInv, toPhone' \in Seq(Message), UNCHANGED events \/ events' = <<>>,
           NEW kept \in 0 .. Len(toPhone), kept <= Len(toPhone'),
           \A i \in 1 .. kept : toPhone'[i] = toPhone[i],
           \A i \in kept + 1 .. Len(toPhone') : ~Pushed(toPhone'[i])
    PROVE  KeepsOrder(Way, Way', kept, Len(toPhone) - Len(toPhone'))
<1>1. PICK n, m, x, y : /\ n = Len(toPhone) /\ m = Len(events)
                        /\ x = events' /\ y = toPhone'
  OBVIOUS
<1>2. toPhone \in Seq(Message) /\ events \in Seq(Event) /\ y \in Seq(Message)
  BY <1>1, ChannelTypes
<1>3. x \in Seq(Event)
  BY <1>1, <1>2, EmptySeq
<1>4. PICK w, v, l : w = Laid(toPhone, events) /\ v = Laid(y, x) /\ l = Len(y)
  OBVIOUS
<1>5. /\ n \in Nat /\ m \in Nat
      /\ Len(w) = n + m /\ \A i \in 1 .. n : w[i] = toPhone[i]
      /\ \A i \in 1 .. m : w[n + i] = Telling(events[i])
  BY <1>1, <1>2, <1>4, LaidAt
<1>6. /\ l \in Nat /\ Len(x) \in Nat
      /\ Len(v) = l + Len(x) /\ \A i \in 1 .. l : v[i] = y[i]
      /\ \A p \in l + 1 .. Len(v) : p - l \in 1 .. Len(x)
                                      /\ v[p] = Telling(x[p - l])
  BY <1>2, <1>3, <1>4, LaidAt
<1>7. x = events \/ Len(x) = 0
  BY <1>1
<1>8. ASSUME NEW i \in 1 .. Len(v), Pushed(v[i])
      PROVE  \/ i <= kept /\ i \in 1 .. Len(w) /\ v[i] = w[i]
             \/ /\ i > kept /\ i + (n - l) \in 1 .. Len(w) /\ i + (n - l) > kept
                /\ v[i] = w[i + (n - l)]
  <2>1. CASE i <= kept
    <3>1. i \in 1 .. kept /\ i \in 1 .. n /\ i \in 1 .. l /\ i \in 1 .. Len(w)
      <4>1. kept \in Nat /\ kept <= n /\ kept <= l
        BY <1>1, <1>4, <1>5
      <4>2. i \in Nat \ {0}
        OBVIOUS
      <4>3. QED
        BY <4>1, <4>2, <2>1, <1>5, <1>6
    <3>2. y[i] = toPhone[i] /\ v[i] = y[i] /\ w[i] = toPhone[i]
      BY <3>1, <1>1, <1>5, <1>6
    <3>3. QED
      BY <2>1, <3>1, <3>2
  <2>2. CASE i > kept /\ i <= l
    <3>1. i \in kept + 1 .. l /\ i \in 1 .. l
      BY <2>2, <1>1, <1>4, <1>5, <1>6
    <3>2. ~Pushed(y[i]) /\ v[i] = y[i]
      BY <3>1, <1>1, <1>4, <1>6
    <3>3. QED
      BY <3>2, <1>8
  <2>3. CASE i > l
    <3>1. i \in l + 1 .. Len(v)
      BY <2>3, <1>6
    <3>2. i - l \in 1 .. Len(x) /\ v[i] = Telling(x[i - l])
      BY <3>1, <1>6
    <3>3. x = events /\ i - l \in 1 .. m
      BY <3>2, <1>1, <1>7
    <3>4. w[n + (i - l)] = Telling(events[i - l])
      BY <3>3, <1>5
    <3>5. /\ n + (i - l) = i + (n - l) /\ i + (n - l) \in 1 .. Len(w)
          /\ i + (n - l) > kept /\ i > kept
      <4>1. /\ kept \in Nat /\ kept <= n /\ kept <= l /\ n \in Nat /\ l \in Nat
            /\ Len(w) = n + m /\ m \in Nat
        BY <1>1, <1>4, <1>5, <1>6
      <4>2. i \in Int
        OBVIOUS
      <4>3. PICK d \in 1 .. m : d = i - l
        BY <3>3
      <4>4. i = l + d
        BY <4>1, <4>2, <4>3
      <4>5. QED
        BY <4>1, <4>4
    <3>6. QED
      BY <3>2, <3>3, <3>4, <3>5
  <2>4. QED
    BY <2>1, <2>2, <2>3, <1>1, <1>5, <1>6
<1>9. Len(w) \in Nat /\ Len(v) \in Nat
  BY <1>5, <1>6
<1>10. KeepsOrder(w, v, kept, n - l)
  BY <1>8, <1>9 DEF KeepsOrder
<1>11. Way = w /\ Way' = v
  BY <1>1, <1>4 DEF Way
<1>12. QED
  BY <1>1, <1>4, <1>10, <1>11

LEMMA InsertKeepsOrder ==
    ASSUME NEW w, NEW v, NEW n, Inserted(w, v, n)
    PROVE  KeepsOrder(w, v, n, -1) /\ n \in Nat
<1>1. /\ Len(w) \in Nat /\ n \in 0 .. Len(w) /\ Len(v) = Len(w) + 1
      /\ \A p \in 1 .. n : v[p] = w[p]
      /\ ~Pushed(v[n + 1])
      /\ \A p \in n + 1 .. Len(w) : v[p + 1] = w[p]
  BY DEF Inserted
<1>2. ASSUME NEW i \in 1 .. Len(v), Pushed(v[i]), ~(i <= n)
      PROVE  /\ i > n /\ i + (-1) \in 1 .. Len(w) /\ i + (-1) > n
             /\ v[i] = w[i + (-1)]
  <2>1. i # n + 1
    BY <1>1, <1>2
  <2>2. PICK p \in n + 1 .. Len(w) : i = p + 1 /\ p = i + (-1)
    <3>1. i - 1 \in n + 1 .. Len(w) /\ i = (i - 1) + 1 /\ i - 1 = i + (-1)
      BY <2>1, <1>1, <1>2
    <3>2. QED
      BY <3>1
  <2>3. QED
    BY <2>2, <1>1
<1>3. QED
  BY <1>1, <1>2 DEF KeepsOrder

LEMMA ShiftKeepsOrder ==
    ASSUME NEW w, NEW v, Shifted(w, v)
    PROVE  KeepsOrder(w, v, 0, 1)
  BY DEF Shifted, KeepsOrder

-----------------------------------------------------------------------------
(* What a sequence of events tells of a session, and what the daemon tells *)
(* of what it does.                                                        *)

NoTelling(ev, s, N) == \A i \in 1 .. Len(ev) : ~Of(ev[i], s, N)
LastTelling(ev, s, N, x) ==
    \E i \in 1 .. Len(ev) :
        /\ Of(ev[i], s, N) /\ What(ev[i]) = x
        /\ \A j \in i + 1 .. Len(ev) : ~Of(ev[j], s, N)
Agrees(ev, s, N, x) == NoTelling(ev, s, N) \/ LastTelling(ev, s, N, x)

Listing == {"session.created", "session.updated"}

LEMMA TellingConcat ==
    ASSUME NEW u \in Seq(Event), NEW v \in Seq(Event), NEW s, NEW N, NEW x
    PROVE  /\ NoTelling(u, s, N) /\ NoTelling(v, s, N) => NoTelling(u \o v, s, N)
           /\ NoTelling(u \o v, s, N) => NoTelling(u, s, N) /\ NoTelling(v, s, N)
           /\ LastTelling(v, s, N, x) => LastTelling(u \o v, s, N, x)
           /\ LastTelling(u, s, N, x) /\ NoTelling(v, s, N) =>
                 LastTelling(u \o v, s, N, x)
<1>1. PICK c, m, n : c = u \o v /\ m = Len(u) /\ n = Len(v)
  OBVIOUS
<1>2. /\ m \in Nat /\ n \in Nat /\ Len(c) = m + n
      /\ \A i \in 1 .. m : c[i] = u[i]
      /\ \A i \in 1 .. n : c[m + i] = v[i]
  BY <1>1, ConcatAt
<1>3. ASSUME NEW i \in 1 .. Len(c)
      PROVE  \/ i \in 1 .. m /\ c[i] = u[i]
             \/ i - m \in 1 .. n /\ c[i] = v[i - m]
  <2>1. CASE i <= m
    BY <2>1, <1>2
  <2>2. CASE i > m
    <3>1. PICK j \in 1 .. n : j = i - m /\ i = m + j
      BY <2>2, <1>2
    <3>2. QED
      BY <3>1, <1>2
  <2>3. QED
    BY <2>1, <2>2, <1>2
<1>4. NoTelling(u, s, N) /\ NoTelling(v, s, N) => NoTelling(c, s, N)
  BY <1>1, <1>3 DEF NoTelling
<1>5. NoTelling(c, s, N) => NoTelling(u, s, N) /\ NoTelling(v, s, N)
  <2>1. \A i \in 1 .. m : i \in 1 .. Len(c)
    BY <1>2
  <2>2. \A i \in 1 .. n : m + i \in 1 .. Len(c)
    BY <1>2
  <2>3. QED
    BY <2>1, <2>2, <1>1, <1>2 DEF NoTelling
<1>6. ASSUME LastTelling(v, s, N, x) PROVE LastTelling(c, s, N, x)
  <2>1. PICK i \in 1 .. n : /\ Of(v[i], s, N) /\ What(v[i]) = x
                            /\ \A j \in i + 1 .. n : ~Of(v[j], s, N)
    BY <1>1, <1>6 DEF LastTelling
  <2>2. PICK k : k = m + i
    OBVIOUS
  <2>3. k \in 1 .. Len(c) /\ c[k] = v[i]
    BY <2>2, <1>2
  <2>4. ASSUME NEW j \in k + 1 .. Len(c) PROVE ~Of(c[j], s, N)
    <3>1. j \in 1 .. Len(c) /\ j - m \in i + 1 .. n /\ j > m
      BY <2>2, <1>2
    <3>2. c[j] = v[j - m]
      BY <3>1, <1>2, <1>3
    <3>3. QED
      BY <3>1, <3>2, <2>1
  <2>5. QED
    BY <2>1, <2>3, <2>4 DEF LastTelling
<1>7. ASSUME LastTelling(u, s, N, x), NoTelling(v, s, N)
      PROVE  LastTelling(c, s, N, x)
  <2>1. PICK i \in 1 .. m : /\ Of(u[i], s, N) /\ What(u[i]) = x
                            /\ \A j \in i + 1 .. m : ~Of(u[j], s, N)
    BY <1>1, <1>7 DEF LastTelling
  <2>2. i \in 1 .. Len(c) /\ c[i] = u[i]
    BY <1>2
  <2>3. ASSUME NEW j \in i + 1 .. Len(c) PROVE ~Of(c[j], s, N)
    <3>1. j \in 1 .. Len(c)
      BY <1>2
    <3>2. CASE j \in 1 .. m /\ c[j] = u[j]
      BY <3>2, <2>1
    <3>3. CASE j - m \in 1 .. n /\ c[j] = v[j - m]
      BY <3>3, <1>1, <1>7 DEF NoTelling
    <3>4. QED
      BY <3>1, <3>2, <3>3, <1>3
  <2>4. QED
    BY <2>1, <2>2, <2>3 DEF LastTelling
<1>8. QED
  BY <1>1, <1>4, <1>5, <1>6, <1>7

LEMMA AgreesTail ==
    ASSUME NEW ev \in Seq(Event), ev # <<>>, NEW s, NEW N, NEW x,
           Agrees(ev, s, N, x)
    PROVE  Agrees(Tail(ev), s, N, x)
<1>1. PICK t, m : t = Tail(ev) /\ m = Len(ev)
  OBVIOUS
<1>2. m \in Nat \ {0} /\ Len(t) = m - 1 /\ \A i \in 1 .. m - 1 : t[i] = ev[i + 1]
  BY <1>1, TailAt
<1>3. CASE NoTelling(ev, s, N)
  <2>1. \A i \in 1 .. Len(t) : i + 1 \in 1 .. m /\ t[i] = ev[i + 1]
    BY <1>2
  <2>2. QED
    BY <2>1, <1>1, <1>3 DEF NoTelling, Agrees
<1>4. CASE LastTelling(ev, s, N, x)
  <2>1. PICK i \in 1 .. m : /\ Of(ev[i], s, N) /\ What(ev[i]) = x
                            /\ \A j \in i + 1 .. m : ~Of(ev[j], s, N)
    BY <1>1, <1>4 DEF LastTelling
  <2>2. \A j \in 1 .. Len(t) : j >= i => j + 1 \in i + 1 .. m /\ t[j] = ev[j + 1]
    BY <1>2
  <2>3. CASE i = 1
    <3>1. NoTelling(t, s, N)
      BY <2>1, <2>2, <2>3 DEF NoTelling
    <3>2. QED
      BY <3>1, <1>1 DEF Agrees
  <2>4. CASE i # 1
    <3>1. PICK k : k = i - 1
      OBVIOUS
    <3>2. k \in 1 .. Len(t) /\ t[k] = ev[i]
      BY <3>1, <2>4, <1>2
    <3>3. \A j \in k + 1 .. Len(t) : ~Of(t[j], s, N)
      BY <3>1, <2>1, <2>2, <2>4, <1>2
    <3>4. LastTelling(t, s, N, x)
      BY <3>2, <3>3, <2>1 DEF LastTelling
    <3>5. QED
      BY <3>4, <1>1 DEF Agrees
  <2>5. QED
    BY <2>3, <2>4
<1>5. QED
  BY <1>3, <1>4 DEF Agrees

\* What the daemon tells of one step in the events it emits: of the status of
\* a session, of its prompt, of its output.
StatusHeard(evs, s) ==
    /\ status'[s] = "absent" => status[s] = "absent"
    /\ status[s] = "absent" => NoTelling(evs, s, EventNames) /\ s \notin announced'
    /\ status[s] # "absent" /\ status'[s] \in Live =>
          /\ status[s] \in Live
          /\ \/ status'[s] = status[s] /\ NoTelling(evs, s, StatusNames)
             \/ LastTelling(evs, s, StatusNames, status'[s])
          /\ s \in announced' => s \in announced \/ ~NoTelling(evs, s, Listing)
PromptHeard(evs, s) ==
    \/ active'[s] = active[s] /\ NoTelling(evs, s, PromptNames)
    \/ LastTelling(evs, s, PromptNames, active'[s])
OutputHeard(evs, s) ==
    \/ written'[s] = written[s] /\ NoTelling(evs, s, OutputName)
    \/ /\ Started(s) /\ written'[s] = Append(written[s], seq + 1)
       /\ Len(evs) = 1 /\ Of(evs[1], s, OutputName) /\ evs[1].n = seq + 1

Tells(evs) ==
    /\ evs \in Seq(Event) /\ events' = events \o evs
    /\ \A i \in 1 .. Len(evs) : Plausible(evs[i])
    /\ \A s \in Sessions : StatusHeard(evs, s) /\ PromptHeard(evs, s)
                              /\ OutputHeard(evs, s)

\* The session a step is about.
OthersSame(s) ==
    \A z \in Sessions \ {s} :
        /\ status'[z] = status[z] /\ active'[z] = active[z]
        /\ written'[z] = written[z] /\ (z \in announced' <=> z \in announced)

LEMMA OneTells ==
    ASSUME TypeOK, NEW s \in Sessions, NEW evs \in Seq(Event),
           \A z \in Sessions : status[z] = "absent" => z \notin announced,
           events' = events \o evs, OthersSame(s),
           \A i \in 1 .. Len(evs) : evs[i].session = s /\ Plausible(evs[i]),
           StatusHeard(evs, s), PromptHeard(evs, s), OutputHeard(evs, s)
    PROVE  Tells(evs)
<1>1. ASSUME NEW z \in Sessions \ {s}
      PROVE  StatusHeard(evs, z) /\ PromptHeard(evs, z) /\ OutputHeard(evs, z)
  <2>1. \A N : NoTelling(evs, z, N)
    BY DEF NoTelling, Of
  <2>2. QED
    BY <2>1 DEF OthersSame, StatusHeard, PromptHeard, OutputHeard
<1>2. QED
  BY <1>1 DEF Tells

\* The events the daemon has to tell of a session.
LEMMA ResolvedTells ==
    ASSUME RegistryTypeOK, NEW s \in Sessions
    PROVE  LET evs == ResolvedEvents(s)
           IN  /\ evs \in Seq(Event)
               /\ \A i \in 1 .. Len(evs) : evs[i].session = s /\ Plausible(evs[i])
               /\ LastTelling(evs, s, StatusNames, "running")
               /\ LastTelling(evs, s, PromptNames, 0)
               /\ NoTelling(evs, s, OutputName)
               /\ ~NoTelling(evs, s, Listing)
<1>1. PICK a, b, evs :
          /\ a = Ev("interaction.resolved", s, active[s], status[s])
          /\ b = Ev("session.updated", s, 0, "running")
          /\ evs = ResolvedEvents(s)
  OBVIOUS
<1>2. evs = <<a, b>> /\ evs \in Seq(Event)
  BY <1>1, ResolvedEventsTyped DEF ResolvedEvents
<1>3. /\ Len(evs) = 2 /\ evs[1] = a /\ evs[2] = b
      /\ \A i \in 1 .. Len(evs) : i = 1 \/ i = 2
      /\ \A i \in 1 + 1 .. Len(evs) : i = 2
  BY <1>2
<1>4. /\ a.session = s /\ a.event = "interaction.resolved"
      /\ b.session = s /\ b.event = "session.updated" /\ b.status = "running"
  BY <1>1 DEF Ev
<1>5. \A i \in 1 .. Len(evs) : evs[i].session = s /\ Plausible(evs[i])
  BY <1>3, <1>4, StatusValues DEF Plausible, StatusNames
<1>6. LastTelling(evs, s, StatusNames, "running")
  <2>1. 2 \in 1 .. Len(evs) /\ \A j \in 2 + 1 .. Len(evs) : FALSE
    BY <1>3
  <2>2. Of(evs[2], s, StatusNames) /\ What(evs[2]) = "running"
    BY <1>3, <1>4 DEF Of, What, StatusNames, PromptNames
  <2>3. QED
    BY <2>1, <2>2 DEF LastTelling
<1>7. LastTelling(evs, s, PromptNames, 0)
  <2>1. 1 \in 1 .. Len(evs)
    BY <1>3
  <2>2. Of(evs[1], s, PromptNames) /\ What(evs[1]) = 0
    BY <1>3, <1>4 DEF Of, What, PromptNames
  <2>3. \A j \in 1 + 1 .. Len(evs) : ~Of(evs[j], s, PromptNames)
    BY <1>3, <1>4 DEF Of, PromptNames
  <2>4. QED
    BY <2>1, <2>2, <2>3 DEF LastTelling
<1>8. NoTelling(evs, s, OutputName)
  BY <1>3, <1>4 DEF NoTelling, Of, OutputName
<1>9. ~NoTelling(evs, s, Listing)
  <2>1. 2 \in 1 .. Len(evs) /\ Of(evs[2], s, Listing)
    BY <1>3, <1>4 DEF Of, Listing
  <2>2. QED
    BY <2>1 DEF NoTelling
<1>10. QED
  BY <1>1, <1>2, <1>5, <1>6, <1>7, <1>8, <1>9

LEMMA RequestedTells ==
    ASSUME RegistryTypeOK, NEW s \in Sessions
    PROVE  LET evs == RequestedEvents(s)
           IN  /\ evs \in Seq(Event)
               /\ \A i \in 1 .. Len(evs) : evs[i].session = s /\ Plausible(evs[i])
               /\ LastTelling(evs, s, StatusNames, "waiting")
               /\ LastTelling(evs, s, PromptNames, lastId + 1)
               /\ NoTelling(evs, s, OutputName)
               /\ ~NoTelling(evs, s, Listing)
<1>1. PICK a, b, evs :
          /\ a = Ev("interaction.requested", s, lastId + 1, "waiting")
          /\ b = Ev("session.updated", s, 0, "waiting")
          /\ evs = RequestedEvents(s)
  OBVIOUS
<1>2. evs = <<a, b>> /\ evs \in Seq(Event)
  BY <1>1, RequestedEventsTyped DEF RequestedEvents
<1>3. /\ Len(evs) = 2 /\ evs[1] = a /\ evs[2] = b
      /\ \A i \in 1 .. Len(evs) : i = 1 \/ i = 2
      /\ \A i \in 1 + 1 .. Len(evs) : i = 2
  BY <1>2
<1>4. /\ a.session = s /\ a.event = "interaction.requested" /\ a.n = lastId + 1
      /\ b.session = s /\ b.event = "session.updated" /\ b.status = "waiting"
  BY <1>1 DEF Ev
<1>5. \A i \in 1 .. Len(evs) : evs[i].session = s /\ Plausible(evs[i])
  BY <1>3, <1>4, StatusValues DEF Plausible, StatusNames
<1>6. LastTelling(evs, s, StatusNames, "waiting")
  <2>1. 2 \in 1 .. Len(evs) /\ \A j \in 2 + 1 .. Len(evs) : FALSE
    BY <1>3
  <2>2. Of(evs[2], s, StatusNames) /\ What(evs[2]) = "waiting"
    BY <1>3, <1>4 DEF Of, What, StatusNames, PromptNames
  <2>3. QED
    BY <2>1, <2>2 DEF LastTelling
<1>7. LastTelling(evs, s, PromptNames, lastId + 1)
  <2>1. 1 \in 1 .. Len(evs)
    BY <1>3
  <2>2. Of(evs[1], s, PromptNames) /\ What(evs[1]) = lastId + 1
    BY <1>3, <1>4 DEF Of, What, PromptNames
  <2>3. \A j \in 1 + 1 .. Len(evs) : ~Of(evs[j], s, PromptNames)
    BY <1>3, <1>4 DEF Of, PromptNames
  <2>4. QED
    BY <2>1, <2>2, <2>3 DEF LastTelling
<1>8. NoTelling(evs, s, OutputName)
  BY <1>3, <1>4 DEF NoTelling, Of, OutputName
<1>9. ~NoTelling(evs, s, Listing)
  <2>1. 2 \in 1 .. Len(evs) /\ Of(evs[2], s, Listing)
    BY <1>3, <1>4 DEF Of, Listing
  <2>2. QED
    BY <2>1 DEF NoTelling
<1>10. QED
  BY <1>1, <1>2, <1>5, <1>6, <1>7, <1>8, <1>9

\* One event alone.
LEMMA OneTold ==
    ASSUME NEW e \in Event, Plausible(e)
    PROVE  /\ <<e>> \in Seq(Event)
           /\ \A i \in 1 .. Len(<<e>>) : <<e>>[i] = e /\ Plausible(<<e>>[i])
           /\ \A N : e.event \in N => /\ LastTelling(<<e>>, e.session, N, What(e))
                                      /\ ~NoTelling(<<e>>, e.session, N)
           /\ \A s, N : e.event \notin N => NoTelling(<<e>>, s, N)
<1>1. PICK evs : evs = <<e>>
  OBVIOUS
<1>2. evs \in Seq(Event) /\ Len(evs) = 1 /\ evs[1] = e
      /\ \A i \in 1 .. Len(evs) : i = 1
  BY <1>1
<1>3. 1 \in 1 .. Len(evs) /\ \A j \in 1 + 1 .. Len(evs) : FALSE
  BY <1>2
<1>4. ASSUME NEW N, e.event \in N
      PROVE  LastTelling(evs, e.session, N, What(e)) /\ ~NoTelling(evs, e.session, N)
  BY <1>2, <1>3, <1>4 DEF LastTelling, NoTelling, Of
<1>5. ASSUME NEW s, NEW N, e.event \notin N PROVE NoTelling(evs, s, N)
  BY <1>2, <1>5 DEF NoTelling, Of
<1>6. QED
  BY <1>1, <1>2, <1>4, <1>5

LEMMA NothingTold ==
    /\ <<>> \in Seq(Event) /\ Len(<<>>) = 0
    /\ \A s, N : NoTelling(<<>>, s, N)
  BY DEF NoTelling

\* Events of a session that is not absent are heard.
LEMMA Heard ==
    ASSUME NEW s \in Sessions, NEW evs, status[s] \in Live, status'[s] # "absent",
           UNCHANGED announced, LastTelling(evs, s, StatusNames, status'[s])
    PROVE  StatusHeard(evs, s)
  BY StatusValues DEF StatusHeard

LEMMA ConcatEach ==
    ASSUME NEW u \in Seq(Event), NEW v \in Seq(Event), NEW s,
           \A i \in 1 .. Len(u) : u[i].session = s /\ Plausible(u[i]),
           \A i \in 1 .. Len(v) : v[i].session = s /\ Plausible(v[i])
    PROVE  \A i \in 1 .. Len(u \o v) : (u \o v)[i].session = s /\ Plausible((u \o v)[i])
<1>1. PICK c, m, n : c = u \o v /\ m = Len(u) /\ n = Len(v)
  OBVIOUS
<1>2. /\ m \in Nat /\ n \in Nat /\ Len(c) = m + n
      /\ \A i \in 1 .. m : c[i] = u[i]
      /\ \A i \in 1 .. n : c[m + i] = v[i]
  BY <1>1, ConcatAt
<1>3. ASSUME NEW i \in 1 .. Len(c) PROVE c[i].session = s /\ Plausible(c[i])
  <2>1. CASE i <= m
    <3>1. i \in 1 .. m
      BY <2>1, <1>2
    <3>2. QED
      BY <3>1, <1>1, <1>2
  <2>2. CASE i > m
    <3>1. PICK j \in 1 .. n : i = m + j
      <4>1. i - m \in 1 .. n /\ i = m + (i - m)
        BY <2>2, <1>2
      <4>2. QED
        BY <4>1
    <3>2. QED
      BY <3>1, <1>1, <1>2
  <2>3. QED
    BY <2>1, <2>2, <1>2
<1>4. QED
  BY <1>1, <1>3

\* What a step of the daemon changes of its sessions, told in its events.
LEMMA QuietTells ==
    ASSUME TypeOK, NEW s \in Sessions, Launch(s) \/ LaunchFails(s) \/ Cleanup(s),
           \A z \in Sessions : status[z] = "absent" => z \notin announced
    PROVE  \E evs : Tells(evs)
<1>1. /\ status \in [Sessions -> Status] /\ events \in Seq(Event)
      /\ UNCHANGED <<announced, active, events, written>>
      /\ status[s] \in {"absent", "starting"}
      /\ status[s] = "absent" => status'[s] \in {"running", "starting"}
      /\ status[s] = "starting" => status'[s] = "gone"
      /\ \A z \in Sessions \ {s} : status'[z] = status[z]
  BY DEF TypeOK, RegistryTypeOK, Launch, LaunchFails, Cleanup
<1>2. events' = events \o <<>>
  BY <1>1, ConcatEmptySeq
<1>3. OthersSame(s)
  BY <1>1 DEF OthersSame
<1>4. /\ StatusHeard(<<>>, s) /\ PromptHeard(<<>>, s) /\ OutputHeard(<<>>, s)
  BY <1>1, NothingTold DEF StatusHeard, PromptHeard, OutputHeard, Live
<1>5. PICK evs : evs = <<>>
  OBVIOUS
<1>6. /\ evs \in Seq(Event) /\ events' = events \o evs
      /\ \A i \in 1 .. Len(evs) : FALSE
      /\ StatusHeard(evs, s) /\ PromptHeard(evs, s) /\ OutputHeard(evs, s)
  BY <1>2, <1>4, <1>5, NothingTold
<1>7. Tells(evs)
  BY <1>3, <1>6, OneTells
<1>8. QED
  BY <1>7

LEMMA AnnounceTells ==
    ASSUME TypeOK, NEW s \in Sessions, Announce(s),
           \A z \in Sessions : status[z] = "absent" => z \notin announced
    PROVE  \E evs : Tells(evs)
<1>1. PICK e : e = Ev("session.created", s, 0, status[s])
  OBVIOUS
<1>2. /\ status[s] \in Live \ {"starting"} /\ announced' = announced \cup {s}
      /\ events' = events \o <<e>>
      /\ UNCHANGED <<status, active, written>>
  BY <1>1 DEF Announce, Emit
<1>3. e \in Event /\ e.session = s /\ e.event = "session.created" /\ e.status = status[s]
  BY <1>1, <1>2, EventsTyped DEF EventNames, Status, Ev
<1>4. Plausible(e)
  BY <1>2, <1>3 DEF Plausible
<1>5. /\ <<e>> \in Seq(Event)
      /\ \A i \in 1 .. Len(<<e>>) : <<e>>[i] = e /\ Plausible(<<e>>[i])
      /\ \A N : e.event \in N => /\ LastTelling(<<e>>, s, N, What(e))
                                 /\ ~NoTelling(<<e>>, s, N)
      /\ \A z, N : e.event \notin N => NoTelling(<<e>>, z, N)
  BY <1>3, <1>4, OneTold
<1>6. What(e) = status[s]
  BY <1>3 DEF What, PromptNames
<1>7. OthersSame(s)
  BY <1>2 DEF OthersSame
<1>8. StatusHeard(<<e>>, s)
  <2>1. LastTelling(<<e>>, s, StatusNames, status[s])
    BY <1>3, <1>5, <1>6 DEF StatusNames
  <2>2. ~NoTelling(<<e>>, s, Listing)
    BY <1>3, <1>5 DEF Listing
  <2>3. status[s] # "absent" /\ status[s] \in Live
    BY <1>2, StatusValues
  <2>4. QED
    BY <2>1, <2>2, <2>3, <1>2 DEF StatusHeard
<1>9. PromptHeard(<<e>>, s) /\ OutputHeard(<<e>>, s)
  BY <1>2, <1>3, <1>5 DEF PromptHeard, OutputHeard, PromptNames, OutputName
<1>10. Tells(<<e>>)
  BY <1>2, <1>3, <1>5, <1>7, <1>8, <1>9, OneTells
<1>11. QED
  BY <1>10

LEMMA OutputTells ==
    ASSUME TypeOK, NEW s \in Sessions, Output(s),
           \A z \in Sessions : status[z] = "absent" => z \notin announced
    PROVE  \E evs : Tells(evs)
<1>1. PICK e : e = Ev("terminal.output", s, seq + 1, status[s])
  OBVIOUS
<1>2. /\ status[s] \in {"running", "waiting"} /\ seq \in Nat /\ seq + 1 \in Nat
      /\ written \in [Sessions -> Seq(Nat)] /\ status[s] \in Status
      /\ events' = events \o <<e>>
      /\ written' = [written EXCEPT ![s] = Append(@, seq + 1)]
      /\ UNCHANGED <<status, active, announced>>
  BY <1>1 DEF Output, Emit, TypeOK, RegistryTypeOK
<1>3. e \in Event /\ e.session = s /\ e.event = "terminal.output" /\ e.n = seq + 1
  BY <1>1, <1>2, EventsTyped DEF EventNames, Ev
<1>4. Plausible(e)
  BY <1>3 DEF Plausible, StatusNames
<1>5. /\ <<e>> \in Seq(Event)
      /\ \A i \in 1 .. Len(<<e>>) : <<e>>[i] = e /\ Plausible(<<e>>[i])
      /\ \A z, N : e.event \notin N => NoTelling(<<e>>, z, N)
  BY <1>3, <1>4, OneTold
<1>6. OthersSame(s)
  BY <1>2 DEF OthersSame
<1>7. StatusHeard(<<e>>, s) /\ PromptHeard(<<e>>, s)
  BY <1>2, <1>3, <1>5, StatusValues
     DEF StatusHeard, PromptHeard, PromptNames, StatusNames
<1>8. OutputHeard(<<e>>, s)
  <2>1. Len(<<e>>) = 1 /\ <<e>>[1] = e
    OBVIOUS
  <2>2. Started(s) /\ written'[s] = Append(written[s], seq + 1)
    BY <1>2 DEF Started
  <2>3. QED
    BY <2>1, <2>2, <1>3 DEF OutputHeard, Of, OutputName
<1>9. Tells(<<e>>)
  BY <1>2, <1>3, <1>5, <1>6, <1>7, <1>8, OneTells
<1>10. QED
  BY <1>9

LEMMA ResolveTells ==
    ASSUME TypeOK, NEW s \in Sessions, Resolve(s),
           \A z \in Sessions : status[z] = "absent" => z \notin announced
    PROVE  \E evs : Tells(evs)
<1>1. PICK evs : evs = ResolvedEvents(s)
  OBVIOUS
<1>2. /\ status[s] \in {"running", "waiting"} /\ status'[s] = "running"
      /\ active'[s] = 0 /\ events' = events \o evs
      /\ UNCHANGED <<announced, written>>
      /\ \A z \in Sessions \ {s} : status'[z] = status[z] /\ active'[z] = active[z]
  BY <1>1 DEF Resolve, Emit, TypeOK, RegistryTypeOK
<1>3. /\ evs \in Seq(Event)
      /\ \A i \in 1 .. Len(evs) : evs[i].session = s /\ Plausible(evs[i])
      /\ LastTelling(evs, s, StatusNames, "running")
      /\ LastTelling(evs, s, PromptNames, 0)
      /\ NoTelling(evs, s, OutputName)
  BY <1>1, ResolvedTells DEF TypeOK
<1>4. OthersSame(s)
  BY <1>2 DEF OthersSame
<1>5. StatusHeard(evs, s)
  BY <1>2, <1>3, StatusValues, Heard
<1>6. PromptHeard(evs, s) /\ OutputHeard(evs, s)
  BY <1>2, <1>3 DEF PromptHeard, OutputHeard
<1>7. Tells(evs)
  BY <1>2, <1>3, <1>4, <1>5, <1>6, OneTells
<1>8. QED
  BY <1>7

LEMMA DetectTells ==
    ASSUME TypeOK, NEW s \in Sessions, Detect(s),
           \A z \in Sessions : status[z] = "absent" => z \notin announced
    PROVE  \E evs : Tells(evs)
<1>1. PICK u, v, evs : /\ u = IF active[s] = 0 THEN <<>> ELSE ResolvedEvents(s)
                       /\ v = RequestedEvents(s) /\ evs = u \o v
  OBVIOUS
<1>2. /\ status[s] \in {"running", "waiting"} /\ status'[s] = "waiting"
      /\ active'[s] = lastId + 1 /\ events' = events \o evs
      /\ UNCHANGED <<announced, written>>
      /\ \A z \in Sessions \ {s} : status'[z] = status[z] /\ active'[z] = active[z]
  BY <1>1 DEF Detect, Emit, TypeOK, RegistryTypeOK
<1>3. /\ v \in Seq(Event)
      /\ \A i \in 1 .. Len(v) : v[i].session = s /\ Plausible(v[i])
      /\ LastTelling(v, s, StatusNames, "waiting")
      /\ LastTelling(v, s, PromptNames, lastId + 1)
      /\ NoTelling(v, s, OutputName)
  BY <1>1, RequestedTells DEF TypeOK
<1>4. /\ u \in Seq(Event)
      /\ \A i \in 1 .. Len(u) : u[i].session = s /\ Plausible(u[i])
      /\ NoTelling(u, s, OutputName)
  <2>1. CASE active[s] = 0
    BY <2>1, <1>1, NothingTold
  <2>2. CASE active[s] # 0
    BY <2>2, <1>1, ResolvedTells DEF TypeOK
  <2>3. QED
    BY <2>1, <2>2
<1>5. /\ evs \in Seq(Event)
      /\ LastTelling(evs, s, StatusNames, "waiting")
      /\ LastTelling(evs, s, PromptNames, lastId + 1)
      /\ NoTelling(evs, s, OutputName)
  BY <1>1, <1>3, <1>4, TellingConcat, ConcatAt
<1>6. \A i \in 1 .. Len(evs) : evs[i].session = s /\ Plausible(evs[i])
  BY <1>1, <1>3, <1>4, ConcatEach
<1>7. OthersSame(s)
  BY <1>2 DEF OthersSame
<1>8. StatusHeard(evs, s)
  BY <1>2, <1>5, StatusValues, Heard
<1>9. PromptHeard(evs, s) /\ OutputHeard(evs, s)
  BY <1>2, <1>5 DEF PromptHeard, OutputHeard
<1>10. Tells(evs)
  BY <1>2, <1>5, <1>6, <1>7, <1>8, <1>9, OneTells
<1>11. QED
  BY <1>10

LEMMA ExitTells ==
    ASSUME TypeOK, NEW s \in Sessions, Exit(s),
           \A z \in Sessions : status[z] = "absent" => z \notin announced
    PROVE  \E evs : Tells(evs)
<1>1. PICK a, b, u, v, evs :
          /\ a = Ev("interaction.resolved", s, active[s], status[s])
          /\ b = Ev("session.ended", s, 0, "stopped")
          /\ u = (IF active[s] = 0 THEN <<>> ELSE <<a>>)
          /\ v = <<b>> /\ evs = u \o v
  OBVIOUS
<1>2. /\ status[s] \in {"running", "waiting"} /\ status'[s] = "stopped"
      /\ active'[s] = 0 /\ events' = events \o evs
      /\ active[s] \in Nat /\ status[s] \in Status
      /\ UNCHANGED <<announced, written>>
      /\ \A z \in Sessions \ {s} : status'[z] = status[z] /\ active'[z] = active[z]
  BY <1>1 DEF Exit, Emit, TypeOK, RegistryTypeOK
<1>3. /\ a \in Event /\ a.session = s /\ a.event = "interaction.resolved"
      /\ b \in Event /\ b.session = s /\ b.event = "session.ended"
      /\ b.status = "stopped"
  BY <1>1, <1>2, StatusValues, EventsTyped DEF EventNames, Ev
<1>4. Plausible(a) /\ Plausible(b)
  BY <1>3, StatusValues DEF Plausible, StatusNames
<1>5. What(a) = 0 /\ What(b) = "stopped"
  BY <1>3 DEF What, PromptNames
<1>6. /\ v \in Seq(Event)
      /\ \A i \in 1 .. Len(v) : v[i].session = s /\ Plausible(v[i])
      /\ LastTelling(v, s, StatusNames, "stopped")
      /\ NoTelling(v, s, OutputName) /\ NoTelling(v, s, PromptNames)
  <2>1. b.event \in StatusNames /\ b.event \notin OutputName \cup PromptNames
    BY <1>3 DEF StatusNames, OutputName, PromptNames
  <2>2. /\ v \in Seq(Event)
        /\ \A i \in 1 .. Len(v) : v[i] = b /\ Plausible(v[i])
        /\ \A N : b.event \in N => LastTelling(v, b.session, N, What(b))
        /\ \A z, N : b.event \notin N => NoTelling(v, z, N)
    BY <1>1, <1>3, <1>4, OneTold
  <2>3. QED
    BY <2>1, <2>2, <1>3, <1>5
<1>7. /\ u \in Seq(Event)
      /\ \A i \in 1 .. Len(u) : u[i].session = s /\ Plausible(u[i])
      /\ NoTelling(u, s, OutputName)
      /\ IF active[s] = 0 THEN NoTelling(u, s, PromptNames)
                          ELSE LastTelling(u, s, PromptNames, 0)
  <2>1. CASE active[s] = 0
    BY <2>1, <1>1, NothingTold
  <2>2. CASE active[s] # 0
    <3>1. a.event \in PromptNames /\ a.event \notin OutputName
      BY <1>3 DEF OutputName, PromptNames
    <3>2. /\ u \in Seq(Event)
          /\ \A i \in 1 .. Len(u) : u[i] = a /\ Plausible(u[i])
          /\ \A N : a.event \in N => LastTelling(u, a.session, N, What(a))
          /\ \A z, N : a.event \notin N => NoTelling(u, z, N)
      BY <2>2, <1>1, <1>3, <1>4, OneTold
    <3>3. QED
      BY <2>2, <3>1, <3>2, <1>3, <1>5
  <2>3. QED
    BY <2>1, <2>2
<1>8. /\ evs \in Seq(Event)
      /\ LastTelling(evs, s, StatusNames, "stopped")
      /\ NoTelling(evs, s, OutputName)
      /\ IF active[s] = 0 THEN NoTelling(evs, s, PromptNames)
                          ELSE LastTelling(evs, s, PromptNames, 0)
  BY <1>1, <1>6, <1>7, TellingConcat, ConcatAt
<1>9. \A i \in 1 .. Len(evs) : evs[i].session = s /\ Plausible(evs[i])
  BY <1>1, <1>6, <1>7, ConcatEach
<1>10. OthersSame(s)
  BY <1>2 DEF OthersSame
<1>11. StatusHeard(evs, s)
  BY <1>2, <1>8, StatusValues, Heard
<1>12. PromptHeard(evs, s) /\ OutputHeard(evs, s)
  BY <1>2, <1>8 DEF PromptHeard, OutputHeard
<1>13. Tells(evs)
  BY <1>2, <1>8, <1>9, <1>10, <1>11, <1>12, OneTells
<1>14. QED
  BY <1>13

LEMMA DaemonTells ==
    ASSUME TypeOK, DaemonStep,
           \A z \in Sessions : status[z] = "absent" => z \notin announced
    PROVE  \E evs : Tells(evs)
  BY QuietTells, AnnounceTells, OutputTells, ResolveTells, DetectTells, ExitTells
     DEF DaemonStep

\* A registered daemon tells every session it has.
LEMMA RegisterTells ==
    ASSUME TypeOK, DaemonRegister,
           \A z \in Sessions : status[z] = "absent" => z \notin announced
    PROVE  \E evs : /\ Tells(evs)
                    /\ \A s \in Entries :
                           /\ LastTelling(evs, s, StatusNames, status'[s])
                           /\ ~NoTelling(evs, s, Listing)
<1>1. PICK order \in Listings(Entries, Cardinality(Sessions)) :
          events' = events \o [i \in DOMAIN order |->
                        Ev("session.updated", order[i], 0, status[order[i]])]
  BY DEF DaemonRegister, Emit
<1>2. PICK n \in Nat : order \in [1 .. n -> Entries]
  BY <1>1 DEF Listings
<1>3. /\ \A x \in Entries : \E i \in 1 .. n : order[i] = x
      /\ \A i, k \in 1 .. n : order[i] = order[k] => i = k
  BY <1>1, <1>2 DEF Listings
<1>4. PICK evs : evs = [i \in 1 .. n |->
                        Ev("session.updated", order[i], 0, status[order[i]])]
  OBVIOUS
<1>5. /\ events' = events \o evs
      /\ UNCHANGED <<status, announced, active, written>>
  BY <1>1, <1>2, <1>4 DEF DaemonRegister
<1>6. ASSUME NEW i \in 1 .. n
      PROVE  /\ order[i] \in Entries /\ order[i] \in Sessions
             /\ status[order[i]] \in Live /\ evs[i] \in Event
             /\ evs[i].session = order[i] /\ evs[i].event = "session.updated"
             /\ evs[i].status = status[order[i]]
  <2>1. order[i] \in Entries
    BY <1>2
  <2>2. order[i] \in Sessions /\ status[order[i]] \in Live
    BY <2>1 DEF Entries
  <2>3. evs[i] = Ev("session.updated", order[i], 0, status[order[i]])
    BY <1>4
  <2>4. QED
    BY <2>1, <2>2, <2>3, EventsTyped DEF EventNames, Ev, Status
<1>7. evs \in Seq(Event) /\ Len(evs) = n
  <2>1. evs \in [1 .. n -> Event]
    BY <1>4, <1>6
  <2>2. QED
    BY <2>1, <1>2, SeqDef, LenProperties
<1>8. \A i \in 1 .. Len(evs) : Plausible(evs[i])
  BY <1>6, <1>7 DEF Plausible
<1>9. ASSUME NEW s \in Entries
      PROVE  /\ LastTelling(evs, s, StatusNames, status[s])
             /\ ~NoTelling(evs, s, Listing)
  <2>1. PICK i \in 1 .. n : order[i] = s
    BY <1>3
  <2>2. /\ Of(evs[i], s, StatusNames) /\ Of(evs[i], s, Listing)
        /\ What(evs[i]) = status[s]
    BY <2>1, <1>6 DEF Of, What, StatusNames, PromptNames, Listing
  <2>3. ASSUME NEW j \in i + 1 .. n PROVE ~Of(evs[j], s, StatusNames)
    <3>1. j \in 1 .. n /\ j # i
      BY <1>2
    <3>2. order[j] # s
      BY <3>1, <2>1, <1>3
    <3>3. QED
      BY <3>1, <3>2, <1>6 DEF Of
  <2>4. QED
    BY <2>2, <2>3, <1>7 DEF LastTelling, NoTelling
<1>10. ASSUME NEW s \in Sessions
       PROVE  /\ StatusHeard(evs, s) /\ PromptHeard(evs, s) /\ OutputHeard(evs, s)
  <2>1. NoTelling(evs, s, PromptNames) /\ NoTelling(evs, s, OutputName)
    BY <1>6, <1>7 DEF NoTelling, Of, PromptNames, OutputName
  <2>2. status[s] = "absent" => NoTelling(evs, s, EventNames)
    <3>1. status[s] = "absent" => s \notin Entries
      BY StatusValues DEF Entries
    <3>2. QED
      BY <3>1, <1>6, <1>7 DEF NoTelling, Of
  <2>3. status[s] \in Live => s \in Entries
    BY DEF Entries
  <2>4. StatusHeard(evs, s)
    BY <2>2, <2>3, <1>5, <1>9 DEF StatusHeard
  <2>5. QED
    BY <2>1, <2>4, <1>5 DEF PromptHeard, OutputHeard
<1>11. Tells(evs)
  BY <1>5, <1>7, <1>8, <1>10 DEF Tells
<1>12. QED
  BY <1>5, <1>9, <1>11

\* What is heard of an output has been written.
LEMMA WaySound ==
    ASSUME SyncInv, NEW i \in 1 .. Len(Way), NEW s, About(Way[i], s, OutputName)
    PROVE  \E j \in 1 .. Len(written[s]) : Way[i].event.n = written[s][j]
<1>1. PICK n : n = Len(toPhone)
  OBVIOUS
<1>2. /\ \A p \in 1 .. n : toPhone[p] \in SoundMessage
      /\ \A p \in 1 .. Len(events) : events[p] \in SoundEvent
  BY <1>1, ElementOfSeq DEF SyncInv
<1>3. /\ n \in Nat /\ Len(Way) \in Nat
      /\ \A p \in 1 .. n : Way[p] = toPhone[p]
      /\ \A p \in n + 1 .. Len(Way) :
             p - n \in 1 .. Len(events) /\ Way[p] = Telling(events[p - n])
  BY <1>1, ChannelTypes, LaidAt DEF Way
<1>4. Way[i].event \in SoundEvent
  <2>1. CASE i <= n
    <3>1. i \in 1 .. n
      BY <2>1, <1>3
    <3>2. QED
      BY <3>1, <1>2, <1>3 DEF SoundMessage, About, Pushed
  <2>2. CASE i > n
    <3>1. i \in n + 1 .. Len(Way)
      BY <2>2, <1>3
    <3>2. i - n \in 1 .. Len(events) /\ Way[i] = Telling(events[i - n])
      BY <3>1, <1>3
    <3>3. QED
      BY <3>2, <1>2 DEF Telling
  <2>3. QED
    BY <2>1, <2>2, <1>3
<1>5. Way[i].event.session = s /\ Way[i].event.event = "terminal.output"
  BY DEF About, Of, OutputName
<1>6. QED
  BY <1>4, <1>5 DEF SoundEvent

\* New events on the way, for who knew b before.
LEMMA WayTold ==
    ASSUME SyncInv, NEW evs \in Seq(Event), events' = events \o evs,
           UNCHANGED toPhone,
           NEW k \in 0 .. Len(Way), NEW s, NEW N, NEW b, NEW x
    PROVE  /\ NoTelling(evs, s, N) /\ Says(Way, k, s, N, b, x) =>
                 Says(Way', k, s, N, b, x)
           /\ LastTelling(evs, s, N, x) => Says(Way', k, s, N, b, x)
           /\ Lists(Way, k, s, b) => Lists(Way', k, s, b)
           /\ ~NoTelling(evs, s, Listing) => Lists(Way', k, s, b)
<1>1. PICK w, v : w = Way /\ v = Way'
  OBVIOUS
<1>2. /\ Longer(w, v) /\ Len(v) = Len(w) + Len(evs) /\ Len(evs) \in Nat
      /\ Len(w) \in Nat
      /\ \A i \in 1 .. Len(evs) : v[Len(w) + i] = Telling(evs[i])
      /\ \A p \in Len(w) + 1 .. Len(v) :
             p - Len(w) \in 1 .. Len(evs) /\ v[p] = Telling(evs[p - Len(w)])
  BY <1>1, WayGrows DEF Longer
<1>3. \A e, M : About(Telling(e), s, M) <=> Of(e, s, M)
  BY DEF About, Telling, Pushed
<1>4. k \in 0 .. Len(w)
  BY <1>1
<1>5. ASSUME NoTelling(evs, s, N), Says(w, k, s, N, b, x)
      PROVE  Says(v, k, s, N, b, x)
  <2>1. \A p \in Len(w) + 1 .. Len(v) : ~About(v[p], s, N)
    BY <1>2, <1>3, <1>5 DEF NoTelling
  <2>2. QED
    BY <2>1, <1>2, <1>4, <1>5, SaysLonger
<1>6. ASSUME LastTelling(evs, s, N, x) PROVE Says(v, k, s, N, b, x)
  <2>1. PICK i \in 1 .. Len(evs) : /\ Of(evs[i], s, N) /\ What(evs[i]) = x
                                   /\ \A j \in i + 1 .. Len(evs) : ~Of(evs[j], s, N)
    BY <1>6 DEF LastTelling
  <2>2. PICK p : p = Len(w) + i
    OBVIOUS
  <2>3. p \in Len(w) + 1 .. Len(v) /\ v[p] = Telling(evs[i])
    BY <2>2, <1>2
  <2>4. About(v[p], s, N) /\ What(v[p].event) = x
    BY <2>1, <2>3, <1>3 DEF Telling
  <2>5. ASSUME NEW q \in p + 1 .. Len(v) PROVE ~About(v[q], s, N)
    <3>1. q \in Len(w) + 1 .. Len(v) /\ q - Len(w) \in i + 1 .. Len(evs)
      BY <2>2, <1>2
    <3>2. v[q] = Telling(evs[q - Len(w)])
      BY <3>1, <1>2
    <3>3. QED
      BY <3>1, <3>2, <2>1, <1>3
  <2>6. QED
    BY <2>3, <2>4, <2>5, <1>2, <1>4, SaysAnew
<1>7. Lists(w, k, s, b) => Lists(v, k, s, b)
  BY <1>2, <1>4, ListsStays
<1>8. ASSUME ~NoTelling(evs, s, Listing) PROVE Lists(v, k, s, b)
  <2>1. PICK i \in 1 .. Len(evs) : Of(evs[i], s, Listing)
    BY <1>8 DEF NoTelling
  <2>2. Len(w) + i \in k + 1 .. Len(v) /\ v[Len(w) + i] = Telling(evs[i])
    BY <1>2, <1>4
  <2>3. QED
    BY <2>1, <2>2, <1>3 DEF Lists, Listing
<1>9. QED
  BY <1>1, <1>5, <1>6, <1>7, <1>8

\* What is due to whom: to who knows the status b, the prompt b, the outputs up
\* to b of a session and then hears w from behind its k-th element on.
StatusIn(w, k, s, b, x) == Says(w, k, s, StatusNames, b, x) /\ Lists(w, k, s, b)
PromptIn(w, k, s, b, x) == Says(w, k, s, PromptNames, b, x)

LEMMA StatusKept ==
    ASSUME SyncInv, NEW evs, Tells(evs), UNCHANGED toPhone,
           NEW k \in 0 .. Len(Way), NEW s \in Sessions, NEW b,
           status[s] # "absent", status'[s] \in Live,
           StatusIn(Way, k, s, b, status[s])
    PROVE  StatusIn(Way', k, s, b, status'[s])
<1>1. evs \in Seq(Event) /\ events' = events \o evs /\ StatusHeard(evs, s)
  BY DEF Tells
<1>2. Says(Way, k, s, StatusNames, b, status[s]) /\ Lists(Way, k, s, b)
  BY DEF StatusIn
<1>3. Lists(Way', k, s, b)
  BY <1>1, <1>2, WayTold
<1>4. CASE status'[s] = status[s] /\ NoTelling(evs, s, StatusNames)
  <2>1. Says(Way', k, s, StatusNames, b, status[s])
    BY <1>1, <1>2, <1>4, WayTold
  <2>2. QED
    BY <2>1, <1>3, <1>4 DEF StatusIn
<1>5. CASE LastTelling(evs, s, StatusNames, status'[s])
  <2>1. PICK x : x = status'[s]
    OBVIOUS
  <2>2. Says(Way', k, s, StatusNames, b, x)
    BY <2>1, <1>1, <1>5, WayTold
  <2>3. QED
    BY <2>1, <2>2, <1>3 DEF StatusIn
<1>6. QED
  BY <1>1, <1>4, <1>5 DEF StatusHeard

\* Told anew, whatever was known.
LEMMA StatusTold ==
    ASSUME SyncInv, NEW evs, Tells(evs), UNCHANGED toPhone,
           NEW k \in 0 .. Len(Way), NEW s, NEW b,
           LastTelling(evs, s, StatusNames, status'[s]), ~NoTelling(evs, s, Listing)
    PROVE  StatusIn(Way', k, s, b, status'[s])
<1>1. PICK x : x = status'[s]
  OBVIOUS
<1>2. evs \in Seq(Event) /\ events' = events \o evs
  BY DEF Tells
<1>3. Says(Way', k, s, StatusNames, b, x) /\ Lists(Way', k, s, b)
  BY <1>1, <1>2, WayTold
<1>4. QED
  BY <1>1, <1>3 DEF StatusIn

LEMMA PromptKept ==
    ASSUME SyncInv, NEW evs, Tells(evs), UNCHANGED toPhone,
           NEW k \in 0 .. Len(Way), NEW s \in Sessions, NEW b,
           PromptIn(Way, k, s, b, active[s])
    PROVE  PromptIn(Way', k, s, b, active'[s])
<1>1. evs \in Seq(Event) /\ events' = events \o evs /\ PromptHeard(evs, s)
  BY DEF Tells
<1>2. Says(Way, k, s, PromptNames, b, active[s])
  BY DEF PromptIn
<1>3. CASE active'[s] = active[s] /\ NoTelling(evs, s, PromptNames)
  <2>1. Says(Way', k, s, PromptNames, b, active[s])
    BY <1>1, <1>2, <1>3, WayTold
  <2>2. QED
    BY <2>1, <1>3 DEF PromptIn
<1>4. CASE LastTelling(evs, s, PromptNames, active'[s])
  <2>1. PICK x : x = active'[s]
    OBVIOUS
  <2>2. Says(Way', k, s, PromptNames, b, x)
    BY <2>1, <1>1, <1>4, WayTold
  <2>3. QED
    BY <2>1, <2>2 DEF PromptIn
<1>5. QED
  BY <1>1, <1>3, <1>4 DEF PromptHeard

LEMMA OutputKept ==
    ASSUME SyncInv, NEW evs, Tells(evs), UNCHANGED toPhone,
           NEW k \in 0 .. Len(Way), NEW s \in Sessions, NEW b,
           Carries(Way, k, s, b, written[s])
    PROVE  Carries(Way', k, s, b, written'[s])
<1>1. evs \in Seq(Event) /\ events' = events \o evs /\ OutputHeard(evs, s)
  BY DEF Tells
<1>2. PICK w, v, h : w = Way /\ v = Way' /\ h = written[s]
  OBVIOUS
<1>3. /\ Longer(w, v) /\ Len(v) = Len(w) + Len(evs) /\ Len(w) \in Nat
      /\ \A i \in 1 .. Len(evs) : v[Len(w) + i] = Telling(evs[i])
  BY <1>1, <1>2, WayGrows DEF Longer
<1>4. Carries(v, k, s, b, h)
  BY <1>2, <1>3, CarriesStays
<1>5. CASE written'[s] = written[s]
  BY <1>2, <1>4, <1>5
<1>6. CASE /\ written'[s] = Append(written[s], seq + 1)
           /\ Len(evs) = 1 /\ Of(evs[1], s, OutputName) /\ evs[1].n = seq + 1
  <2>1. h \in Seq(Nat) /\ seq + 1 \in Nat
    BY <1>2 DEF SyncInv, TypeOK, RegistryTypeOK
  <2>2. PICK g : g = written'[s]
    OBVIOUS
  <2>3. /\ Len(h) \in Nat /\ Len(g) = Len(h) + 1
        /\ \A i \in 1 .. Len(h) : g[i] = h[i]
        /\ g[Len(h) + 1] = seq + 1
    <3>1. g = Append(h, seq + 1)
      BY <2>2, <1>2, <1>6
    <3>2. QED
      BY <3>1, <2>1, AppendNat
  <2>4. PICK p : p = Len(w) + 1
    OBVIOUS
  <2>5. p \in k + 1 .. Len(v) /\ v[p] = Telling(evs[1])
    BY <2>4, <1>2, <1>3, <1>6
  <2>6. About(v[p], s, OutputName) /\ v[p].event.n = seq + 1
    BY <2>5, <1>6 DEF About, Telling, Pushed
  <2>7. ASSUME NEW j \in 1 .. Len(g), g[j] > b
        PROVE  \E q \in k + 1 .. Len(v) :
                   About(v[q], s, OutputName) /\ v[q].event.n = g[j]
    <3>1. CASE j = Len(h) + 1
      BY <3>1, <2>3, <2>5, <2>6
    <3>2. CASE j # Len(h) + 1
      <4>1. j \in 1 .. Len(h) /\ g[j] = h[j]
        BY <3>2, <2>3
      <4>2. QED
        BY <4>1, <2>7, <1>4 DEF Carries
    <3>3. QED
      BY <3>1, <3>2
  <2>8. Carries(v, k, s, b, g)
    BY <2>7 DEF Carries
  <2>9. QED
    BY <2>2, <2>8, <1>2
<1>7. QED
  BY <1>1, <1>5, <1>6 DEF OutputHeard

-----------------------------------------------------------------------------
(* The invariant.  Whatever the phone, or a message on its way to it, says *)
(* of a session that is out of date is corrected by what comes behind.     *)

\* Outputs of a session arrive in the order they were written.
InOrder == Mounting(Way) /\ AllPlausible(Way)

\* Of a session that does not exist yet nothing is said.
Unborn ==
    \A s \in Sessions : status[s] = "absent" =>
        /\ s \notin announced /\ Unheard(Way, s)
        /\ \A i \in 1 .. Len(toPhone) :
               toPhone[i].kind = "view" => toPhone[i].view.session # s

HistoryRises == \A s \in Sessions : Increasing(written[s])

\* The events that have not been sent agree with the registry.
QueueAgrees ==
    \A s \in Entries : /\ Agrees(events, s, StatusNames, status[s])
                       /\ Agrees(events, s, PromptNames, active[s])

\* Only who has outputs of a session asks for those after them.
AfterKnown ==
    \A s \in Sessions : \A i \in 1 .. Len(toDaemon) :
        /\ toDaemon[i].method = "subscribe" /\ toDaemon[i].session = s
        /\ toDaemon[i].after # NoSeq
        => last[s] # NoSeq

\* A view of this era comes after those of earlier ones.
IsView(i) == toPhone[i].kind = "view"
EraInv ==
    /\ \A i \in 1 .. Len(toPhone) : IsView(i) =>
           toPhone[i].era <= Era /\ (toPhone[i].era = Era => linkUp)
    /\ \A i, j \in 1 .. Len(toPhone) : i < j /\ IsView(i) /\ IsView(j) =>
           toPhone[i].era <= toPhone[j].era

ListsDue ==
    linkUp => \A i \in 1 .. Len(toPhone) : toPhone[i].kind = "list" =>
        \A s \in announced \cap Entries :
            StatusIn(Way, i, s, toPhone[i].list[s], status[s])

\* A view is right about the status; one of this era, about all the rest too:
\* a snapshot has all outputs but those that come behind it, and any other
\* view finds a phone that has some, or there are none.
ViewDue(v, era, i) ==
    LET s == v.session
    IN  /\ v.status \in Live
        /\ linkUp /\ s \in Entries => StatusIn(Way, i, s, v.status, status[s])
        /\ era = Era =>
              /\ s \in Entries => PromptIn(Way, i, s, v.active, active[s])
              /\ v.mode = "snapshot" =>
                    Carries(Way, i, s, Last(v.text), written[s])
              /\ v.mode # "snapshot" /\ last[s] = NoSeq =>
                    Carries(Way, i, s, NoSeq, written[s])
ViewsDue ==
    \A i \in 1 .. Len(toPhone) : IsView(i) =>
        ViewDue(toPhone[i].view, toPhone[i].era, i)

KnownDue ==
    linkUp /\ phase \in {"subscribing", "online"} =>
        \A s \in Entries : s \in (announced \ skipped) \cup intact =>
            StatusIn(Way, 0, s, known[s], status[s])

IntactWhile ==
    intact # {} =>
        /\ linkUp /\ phase = "online"
        /\ \A i \in 1 .. Len(toPhone) : IsView(i) => toPhone[i].era = Era
IntactDue ==
    \A s \in intact :
        /\ status[s] # "absent"
        /\ RunOf(text[s], written[s])
        /\ Carries(Way, 0, s, last[s], written[s])
        /\ s \in Entries => PromptIn(Way, 0, s, shown[s], active[s])

Told == InOrder /\ Unborn /\ HistoryRises /\ QueueAgrees
Asked == AfterKnown /\ EraInv
Due == ListsDue /\ ViewsDue /\ KnownDue /\ IntactWhile /\ IntactDue

ChannelInv == AskedInv /\ Told /\ Asked /\ Due

-----------------------------------------------------------------------------
(* The daemon's steps.                                                     *)

LEMMA OutputsMount ==
    ASSUME SyncInv, NEW evs, Tells(evs), UNCHANGED toPhone, Mounting(Way)
    PROVE  Mounting(Way')
<1>1. PICK w, v : w = Way /\ v = Way'
  OBVIOUS
<1>2. evs \in Seq(Event) /\ events' = events \o evs
  BY DEF Tells
<1>3. /\ Longer(w, v) /\ Len(v) = Len(w) + Len(evs) /\ Len(w) \in Nat
      /\ Len(evs) \in Nat
      /\ \A p \in 1 .. Len(w) : v[p] = w[p]
      /\ \A i \in 1 .. Len(evs) : v[Len(w) + i] = Telling(evs[i])
      /\ \A p \in Len(w) + 1 .. Len(v) :
             p - Len(w) \in 1 .. Len(evs) /\ v[p] = Telling(evs[p - Len(w)])
  BY <1>1, <1>2, WayGrows DEF Longer
<1>4. ASSUME NEW s \in Sessions, NEW i \in 1 .. Len(v), NEW j \in 1 .. Len(v),
             i < j, About(v[i], s, OutputName), About(v[j], s, OutputName)
      PROVE  v[i].event.n < v[j].event.n
  <2>1. OutputHeard(evs, s)
    BY DEF Tells
  <2>2. CASE j <= Len(w)
    <3>1. i \in 1 .. Len(w) /\ j \in 1 .. Len(w)
      BY <2>2, <1>3, <1>4
    <3>2. v[i] = w[i] /\ v[j] = w[j]
      BY <3>1, <1>3
    <3>3. QED
      BY <3>1, <3>2, <1>1, <1>4 DEF Mounting
  <2>3. CASE j > Len(w)
    <3>1. j \in Len(w) + 1 .. Len(v)
      BY <2>3, <1>3
    <3>2. j - Len(w) \in 1 .. Len(evs) /\ v[j] = Telling(evs[j - Len(w)])
      BY <3>1, <1>3
    <3>3. Of(evs[j - Len(w)], s, OutputName)
      BY <3>2, <1>4 DEF About, Telling
    <3>4. ~NoTelling(evs, s, OutputName)
      BY <3>2, <3>3 DEF NoTelling
    <3>5. Started(s) /\ Len(evs) = 1 /\ evs[1].n = seq + 1
      BY <2>1, <3>4 DEF OutputHeard
    <3>6. j = Len(w) + 1 /\ j - Len(w) = 1
      BY <3>2, <3>5, <1>3
    <3>7. v[j].event.n = seq + 1
      BY <3>2, <3>5, <3>6 DEF Telling
    <3>8. i \in 1 .. Len(w) /\ v[i] = w[i]
      BY <3>6, <1>3, <1>4
    <3>9. PICK k \in 1 .. Len(written[s]) : v[i].event.n = written[s][k]
      BY <3>8, <1>1, <1>4, WaySound
    <3>10. Rising(written[s], seq) /\ written[s] \in Seq(Nat) /\ seq \in Nat
      BY <3>5 DEF SyncInv, BufferInv, TypeOK, RegistryTypeOK
    <3>11. written[s][k] <= seq /\ written[s][k] \in Nat
      BY <3>10, ElementOfSeq DEF Rising
    <3>12. QED
      BY <3>7, <3>9, <3>10, <3>11
  <2>4. QED
    BY <2>2, <2>3, <1>3
<1>5. QED
  BY <1>1, <1>4 DEF Mounting

LEMMA ToldGrows ==
    ASSUME SyncInv, Told, NEW evs, Tells(evs), UNCHANGED toPhone
    PROVE  Told'
<1>1. PICK w, v : w = Way /\ v = Way'
  OBVIOUS
<1>2. evs \in Seq(Event) /\ events' = events \o evs
  BY DEF Tells
<1>3. /\ Len(v) = Len(w) + Len(evs) /\ Len(w) \in Nat /\ Len(evs) \in Nat
      /\ \A p \in 1 .. Len(w) : v[p] = w[p]
      /\ \A p \in Len(w) + 1 .. Len(v) :
             p - Len(w) \in 1 .. Len(evs) /\ v[p] = Telling(evs[p - Len(w)])
  BY <1>1, <1>2, WayGrows DEF Longer
<1>4. ASSUME NEW p \in 1 .. Len(v)
      PROVE  \/ p \in 1 .. Len(w) /\ v[p] = w[p]
             \/ \E i \in 1 .. Len(evs) : v[p] = Telling(evs[i])
  <2>1. p \in 1 .. Len(w) \/ p \in Len(w) + 1 .. Len(v)
    BY <1>3
  <2>2. QED
    BY <2>1, <1>3
<1>5. InOrder'
  <2>1. Mounting(v)
    BY <1>1, OutputsMount DEF Told, InOrder
  <2>2. AllPlausible(w)
    BY <1>1 DEF Told, InOrder
  <2>3. \A i \in 1 .. Len(evs) : Plausible(evs[i])
    BY DEF Tells
  <2>4. ASSUME NEW p \in 1 .. Len(v), Pushed(v[p]) PROVE Plausible(v[p].event)
    <3>1. CASE p \in 1 .. Len(w) /\ v[p] = w[p]
      BY <3>1, <2>2, <2>4 DEF AllPlausible
    <3>2. CASE \E i \in 1 .. Len(evs) : v[p] = Telling(evs[i])
      BY <3>2, <2>3 DEF Telling
    <3>3. QED
      BY <3>1, <3>2, <1>4
  <2>5. AllPlausible(v)
    BY <2>4 DEF AllPlausible
  <2>6. QED
    BY <2>1, <2>5, <1>1 DEF InOrder
<1>6. Unborn'
  <2>1. SUFFICES ASSUME NEW s \in Sessions, status'[s] = "absent"
                 PROVE  /\ s \notin announced' /\ Unheard(v, s)
                        /\ \A i \in 1 .. Len(toPhone) :
                              toPhone[i].kind = "view" =>
                                  toPhone[i].view.session # s
    BY <1>1 DEF Unborn
  <2>2. status[s] = "absent" /\ NoTelling(evs, s, EventNames) /\ s \notin announced'
    BY <2>1 DEF Tells, StatusHeard
  <2>3. /\ Unheard(w, s)
        /\ \A i \in 1 .. Len(toPhone) :
              toPhone[i].kind = "view" => toPhone[i].view.session # s
    BY <2>2, <1>1 DEF Told, Unborn
  <2>4. Unheard(v, s)
    <3>1. ASSUME NEW p \in 1 .. Len(v) PROVE ~About(v[p], s, EventNames)
      <4>1. CASE p \in 1 .. Len(w) /\ v[p] = w[p]
        BY <4>1, <2>3 DEF Unheard
      <4>2. CASE \E i \in 1 .. Len(evs) : v[p] = Telling(evs[i])
        BY <4>2, <2>2 DEF NoTelling, About, Telling
      <4>3. QED
        BY <4>1, <4>2, <1>4
    <3>2. QED
      BY <3>1 DEF Unheard
  <2>5. QED
    BY <2>2, <2>3, <2>4
<1>7. HistoryRises'
  <2>1. SUFFICES ASSUME NEW s \in Sessions PROVE Increasing(written'[s])
    BY DEF HistoryRises
  <2>2. OutputHeard(evs, s) /\ Increasing(written[s])
    BY DEF Tells, Told, HistoryRises
  <2>3. CASE written'[s] = written[s]
    BY <2>2, <2>3
  <2>4. CASE Started(s) /\ written'[s] = Append(written[s], seq + 1)
    <3>1. Rising(written[s], seq) /\ written[s] \in Seq(Nat) /\ seq \in Nat
      BY <2>4 DEF SyncInv, BufferInv, TypeOK, RegistryTypeOK
    <3>2. Rising(Append(written[s], seq + 1), seq + 1)
      BY <3>1, RisingAppend
    <3>3. QED
      BY <3>2, <2>4 DEF Rising, Increasing
  <2>5. QED
    BY <2>2, <2>3, <2>4 DEF OutputHeard
<1>8. QueueAgrees'
  <2>1. SUFFICES ASSUME NEW s \in Sessions, status'[s] \in Live
                 PROVE  /\ Agrees(events', s, StatusNames, status'[s])
                        /\ Agrees(events', s, PromptNames, active'[s])
    BY DEF QueueAgrees, Entries
  <2>2. StatusHeard(evs, s) /\ PromptHeard(evs, s)
    BY DEF Tells
  <2>3. events \in Seq(Event)
    BY ChannelTypes
  <2>4. CASE status[s] = "absent"
    <3>1. NoTelling(evs, s, EventNames)
      BY <2>2, <2>4 DEF StatusHeard
    <3>2. Unheard(w, s)
      BY <2>4, <1>1 DEF Told, Unborn
    <3>3. ASSUME NEW i \in 1 .. Len(events) PROVE ~Of(events[i], s, EventNames)
      <4>1. PICK p : p = Len(toPhone) + i
        OBVIOUS
      <4>2. p \in 1 .. Len(w) /\ w[p] = Telling(events[i])
        BY <4>1, <1>1, ChannelTypes, LaidAt DEF Way
      <4>3. QED
        BY <4>2, <3>2 DEF Unheard, About, Telling, Pushed
    <3>4. NoTelling(events, s, EventNames)
      BY <3>3 DEF NoTelling
    <3>5. NoTelling(events', s, EventNames)
      BY <3>1, <3>4, <2>3, <1>2, TellingConcat
    <3>6. NoTelling(events', s, StatusNames) /\ NoTelling(events', s, PromptNames)
      BY <3>5 DEF NoTelling, Of, EventNames, StatusNames, PromptNames
    <3>7. QED
      BY <3>6 DEF Agrees
  <2>5. CASE status[s] # "absent"
    <3>1. status[s] \in Live
      BY <2>1, <2>2, <2>5 DEF StatusHeard
    <3>2. /\ Agrees(events, s, StatusNames, status[s])
          /\ Agrees(events, s, PromptNames, active[s])
      BY <3>1 DEF Told, QueueAgrees, Entries
    <3>3. Agrees(events', s, StatusNames, status'[s])
      <4>1. CASE status'[s] = status[s] /\ NoTelling(evs, s, StatusNames)
        BY <4>1, <3>2, <2>3, <1>2, TellingConcat DEF Agrees
      <4>2. CASE LastTelling(evs, s, StatusNames, status'[s])
        <5>1. PICK x : x = status'[s]
          OBVIOUS
        <5>2. LastTelling(events', s, StatusNames, x)
          BY <4>2, <5>1, <2>3, <1>2, TellingConcat
        <5>3. QED
          BY <5>1, <5>2 DEF Agrees
      <4>3. QED
        BY <4>1, <4>2, <2>1, <2>2, <2>5 DEF StatusHeard
    <3>4. Agrees(events', s, PromptNames, active'[s])
      <4>1. CASE active'[s] = active[s] /\ NoTelling(evs, s, PromptNames)
        BY <4>1, <3>2, <2>3, <1>2, TellingConcat DEF Agrees
      <4>2. CASE LastTelling(evs, s, PromptNames, active'[s])
        <5>1. PICK x : x = active'[s]
          OBVIOUS
        <5>2. LastTelling(events', s, PromptNames, x)
          BY <4>2, <5>1, <2>3, <1>2, TellingConcat
        <5>3. QED
          BY <5>1, <5>2 DEF Agrees
      <4>3. QED
        BY <4>1, <4>2, <2>2 DEF PromptHeard
    <3>5. QED
      BY <3>3, <3>4
  <2>6. QED
    BY <2>4, <2>5
<1>9. QED
  BY <1>5, <1>6, <1>7, <1>8 DEF Told

-----------------------------------------------------------------------------
(* Gapless stretches of a history.                                         *)

LEMMA RunOfIs ==
    ASSUME NEW t \in Seq(Nat), NEW w \in Seq(Nat)
    PROVE  RunOf(t, w) <=>
               \E i \in Nat : i + Len(t) <= Len(w)
                                 /\ \A k \in 1 .. Len(t) : t[k] = w[i + k]
<1>1. Len(t) \in Nat /\ Len(w) \in Nat
  BY LenProperties
<1>2. ASSUME NEW i \in Nat, i + Len(t) <= Len(w)
      PROVE  t = SubSeq(w, i + 1, i + Len(t)) <=>
                 \A k \in 1 .. Len(t) : t[k] = w[i + k]
  <2>1. PICK u, m : u = SubSeq(w, i + 1, m) /\ m = i + Len(t)
    OBVIOUS
  <2>2. i + 1 \in 1 .. Len(w) + 1 /\ m \in 0 .. Len(w)
    BY <2>1, <1>1, <1>2
  <2>3. /\ u \in Seq(Nat)
        /\ Len(u) = IF i + 1 <= m THEN m - (i + 1) + 1 ELSE 0
        /\ \A k \in 1 .. m - (i + 1) + 1 : u[k] = w[(i + 1) + k - 1]
    BY <2>1, <2>2, RunElements
  <2>4. Len(u) = Len(t) /\ \A k \in 1 .. Len(t) : u[k] = w[i + k]
    <3>1. Len(u) = Len(t) /\ m - (i + 1) + 1 = Len(t)
      BY <2>1, <2>3, <1>1
    <3>2. \A k \in 1 .. Len(t) : (i + 1) + k - 1 = i + k
      BY <1>1
    <3>3. QED
      BY <3>1, <3>2, <2>3
  <2>5. t = u <=> \A k \in 1 .. Len(t) : t[k] = u[k]
    BY <2>3, <2>4, SeqEqual
  <2>6. QED
    BY <2>1, <2>4, <2>5
<1>3. \A i : i \in 0 .. Len(w) - Len(t) <=> i \in Nat /\ i + Len(t) <= Len(w)
  BY <1>1
<1>4. QED
  BY <1>2, <1>3 DEF RunOf

LEMMA RunLonger ==
    ASSUME NEW t \in Seq(Nat), NEW w \in Seq(Nat), NEW n \in Nat, RunOf(t, w)
    PROVE  RunOf(t, Append(w, n))
<1>1. PICK v : v = Append(w, n)
  OBVIOUS
<1>2. /\ v \in Seq(Nat) /\ Len(w) \in Nat /\ Len(v) = Len(w) + 1
      /\ \A k \in 1 .. Len(w) : v[k] = w[k]
  BY <1>1, AppendNat
<1>3. PICK i \in Nat : /\ i + Len(t) <= Len(w)
                       /\ \A k \in 1 .. Len(t) : t[k] = w[i + k]
  BY RunOfIs
<1>4. Len(t) \in Nat
  BY LenProperties
<1>5. i + Len(t) <= Len(v) /\ \A k \in 1 .. Len(t) : t[k] = v[i + k]
  <2>1. \A k \in 1 .. Len(t) : i + k \in 1 .. Len(w)
    BY <1>2, <1>3, <1>4
  <2>2. QED
    BY <2>1, <1>2, <1>3, <1>4
<1>6. RunOf(t, v)
  BY <1>2, <1>5, RunOfIs
<1>7. QED
  BY <1>1, <1>6

LEMMA RunTrimmed ==
    ASSUME NEW t \in Seq(Nat), NEW w \in Seq(Nat), RunOf(t, w)
    PROVE  RunOf(Trim(t), w)
<1>1. CASE Len(t) > MaxText
  <2>1. Len(t) \in Nat /\ Len(w) \in Nat /\ MaxText \in Nat /\ MaxText >= 1
    BY LenProperties, PhoneAssumption
  <2>2. PICK d \in Nat : d = Len(t) - MaxText
    <3>1. Len(t) - MaxText \in Nat
      BY <1>1, <2>1
    <3>2. QED
      BY <3>1
  <2>3. PICK u : u = SubSeq(t, d + 1, Len(t))
    OBVIOUS
  <2>4. Trim(t) = u
    BY <1>1, <2>2, <2>3 DEF Trim
  <2>5. d + 1 \in 1 .. Len(t) + 1 /\ Len(t) \in 0 .. Len(t)
    BY <2>1, <2>2
  <2>6. /\ u \in Seq(Nat) /\ Len(u) = MaxText
        /\ \A k \in 1 .. MaxText : u[k] = t[d + k] /\ d + k \in 1 .. Len(t)
    <3>1. /\ u \in Seq(Nat)
          /\ Len(u) = IF d + 1 <= Len(t) THEN Len(t) - (d + 1) + 1 ELSE 0
          /\ \A k \in 1 .. Len(t) - (d + 1) + 1 : u[k] = t[(d + 1) + k - 1]
      BY <2>3, <2>5, RunElements
    <3>2. QED
      BY <3>1, <2>1, <2>2, SMTT(20)
  <2>7. PICK i \in Nat : /\ i + Len(t) <= Len(w)
                         /\ \A k \in 1 .. Len(t) : t[k] = w[i + k]
    BY RunOfIs
  <2>8. PICK e \in Nat : e = i + d
    OBVIOUS
  <2>9. e + Len(u) <= Len(w) /\ \A k \in 1 .. Len(u) : u[k] = w[e + k]
    <3>1. e + Len(u) <= Len(w)
      BY <2>1, <2>2, <2>6, <2>7, <2>8
    <3>2. ASSUME NEW k \in 1 .. MaxText PROVE u[k] = w[e + k]
      <4>1. i + (d + k) = e + k
        BY <2>8, <2>1
      <4>2. u[k] = t[d + k] /\ d + k \in 1 .. Len(t)
        BY <2>6
      <4>3. QED
        BY <4>1, <4>2, <2>7
    <3>3. QED
      BY <3>1, <3>2, <2>6
  <2>10. RunOf(u, w)
    BY <2>6, <2>9, RunOfIs
  <2>11. QED
    BY <2>4, <2>10
<1>2. CASE ~(Len(t) > MaxText)
  BY <1>2 DEF Trim
<1>3. QED
  BY <1>1, <1>2

LEMMA RunFromWindow ==
    ASSUME NEW w \in Seq(Nat), NEW r \in Terminal!Runs(w)
    PROVE  RunOf(r, w) /\ r \in Seq(Nat)
<1>1. PICK i \in 1 .. Len(w) + 1, j \in 0 .. Len(w) : r = SubSeq(w, i, j)
  BY DEF Terminal!Runs
<1>2. /\ r \in Seq(Nat) /\ Len(r) = IF i <= j THEN j - i + 1 ELSE 0
      /\ \A k \in 1 .. j - i + 1 : r[k] = w[i + k - 1]
  BY <1>1, RunElements
<1>3. Len(w) \in Nat
  BY LenProperties
<1>4. PICK e \in Nat : e = i - 1
  BY <1>3
<1>5. e + Len(r) <= Len(w)
  BY <1>2, <1>3, <1>4
<1>6. \A k \in 1 .. Len(r) : k \in 1 .. j - i + 1 /\ i + k - 1 = e + k
  BY <1>2, <1>3, <1>4
<1>7. \A k \in 1 .. Len(r) : r[k] = w[e + k]
  BY <1>2, <1>6
<1>8. RunOf(r, w)
  BY <1>2, <1>5, <1>7, RunOfIs
<1>9. QED
  BY <1>2, <1>8

LEMMA EmptyRun ==
    ASSUME NEW w \in Seq(Nat) PROVE RunOf(<<>>, w)
<1>1. PICK t : t = <<>>
  OBVIOUS
<1>2. t \in Seq(Nat) /\ Len(t) = 0 /\ Len(w) \in Nat
  BY <1>1, LenProperties
<1>3. \E i \in Nat : i + Len(t) <= Len(w) /\ \A k \in 1 .. Len(t) : t[k] = w[i + k]
  <2>1. 0 \in Nat /\ 0 + Len(t) <= Len(w) /\ \A k \in 1 .. Len(t) : FALSE
    BY <1>2
  <2>2. QED
    BY <2>1
<1>4. t \in Seq(Nat)
  BY <1>2
<1>5. RunOf(t, w)
  BY <1>3, <1>4, RunOfIs
<1>6. QED
  BY <1>1, <1>5

\* The oldest of the outputs after a run is the one behind it.
LEMMA RunGoesOn ==
    ASSUME NEW t \in Seq(Nat), NEW w \in Seq(Nat), Increasing(w), RunOf(t, w),
           NEW l \in 1 .. Len(w),
           t # <<>> => /\ w[l] > Last(t)
                       /\ \A j \in 1 .. Len(w) : w[j] > Last(t) => w[j] >= w[l]
    PROVE  RunOf(Append(t, w[l]), w)
<1>1. PICK u, n : n = w[l] /\ u = Append(t, n)
  OBVIOUS
<1>2. n \in Nat /\ \A j \in 1 .. Len(w) : w[j] \in Nat
  BY <1>1, ElementOfSeq
<1>3. /\ u \in Seq(Nat) /\ Len(t) \in Nat /\ Len(u) = Len(t) + 1
      /\ \A k \in 1 .. Len(t) : u[k] = t[k]
      /\ u[Len(t) + 1] = n
  BY <1>1, <1>2, AppendNat
<1>4. Len(w) \in Nat
  BY LenProperties
<1>5. \E e \in Nat : e + Len(u) <= Len(w) /\ \A k \in 1 .. Len(u) : u[k] = w[e + k]
  <2>1. CASE t = <<>>
    <3>1. Len(t) = 0
      BY <2>1
    <3>2. PICK e \in Nat : e = l - 1
      BY <1>4
    <3>3. e + Len(u) <= Len(w) /\ \A k \in 1 .. Len(u) : k = 1 /\ e + k = l
      BY <3>1, <3>2, <1>3, <1>4
    <3>4. u[1] = n
      BY <3>1, <1>3
    <3>5. \A k \in 1 .. Len(u) : u[k] = w[e + k]
      BY <3>3, <3>4, <1>1
    <3>6. QED
      BY <3>3, <3>5
  <2>2. CASE t # <<>>
    <3>1. Len(t) # 0
      BY <2>2, EmptySeq
    <3>2. PICK e \in Nat : /\ e + Len(t) <= Len(w)
                           /\ \A k \in 1 .. Len(t) : t[k] = w[e + k]
      BY RunOfIs
    <3>3. PICK p \in Nat : p = e + Len(t)
      BY <1>3
    <3>4. p \in 1 .. Len(w) /\ Last(t) = w[p]
      BY <3>1, <3>2, <3>3, <1>3, <1>4, SMTT(20) DEF Last
    <3>5. l > p
      <4>1. w[l] > w[p] /\ w[l] \in Nat /\ w[p] \in Nat
        BY <3>4, <2>2, <1>2
      <4>2. ~(l < p) /\ l # p
        BY <4>1, <3>4 DEF Increasing
      <4>3. QED
        BY <4>2, <3>4, <1>4
    <3>6. p + 1 \in 1 .. Len(w)
      BY <3>4, <3>5, <1>4
    <3>7. w[p + 1] > w[p] /\ w[p + 1] \in Nat /\ w[p] \in Nat
      BY <3>4, <3>6, <1>2, <1>4 DEF Increasing
    <3>8. w[p + 1] >= w[l]
      BY <3>4, <3>6, <3>7, <2>2
    <3>9. l = p + 1
      <4>1. ~(p + 1 < l)
        BY <3>6, <3>8, <1>2 DEF Increasing
      <4>2. QED
        BY <4>1, <3>4, <3>5, <1>4
    <3>10. e + Len(u) <= Len(w)
      BY <3>3, <3>6, <1>3, <1>4
    <3>11. ASSUME NEW k \in 1 .. Len(u) PROVE u[k] = w[e + k]
      <4>1. CASE k \in 1 .. Len(t)
        BY <4>1, <3>2, <1>3
      <4>2. CASE k = Len(t) + 1
        <5>1. e + k = l
          BY <4>2, <3>3, <3>9, <1>3
        <5>2. QED
          BY <5>1, <4>2, <1>1, <1>3
      <4>3. QED
        BY <4>1, <4>2, <1>3
    <3>12. QED
      BY <3>10, <3>11
  <2>3. QED
    BY <2>1, <2>2
<1>6. RunOf(u, w)
  BY <1>3, <1>5, RunOfIs
<1>7. QED
  BY <1>1, <1>6

-----------------------------------------------------------------------------
(* The daemon's steps, for who hears of them.                              *)

\* An announced session, whether it was announced before or only now.
LEMMA StatusAnnounced ==
    ASSUME SyncInv, NEW evs, Tells(evs), UNCHANGED toPhone,
           NEW k \in 0 .. Len(Way), NEW s \in Sessions, NEW b,
           status'[s] \in Live, s \in announced',
           s \in announced \cap Entries => StatusIn(Way, k, s, b, status[s])
    PROVE  StatusIn(Way', k, s, b, status'[s])
<1>1. StatusHeard(evs, s)
  BY DEF Tells
<1>2. status[s] # "absent" /\ status[s] \in Live
  BY <1>1 DEF StatusHeard
<1>3. CASE s \in announced
  <2>1. s \in Entries
    BY <1>2 DEF Entries
  <2>2. QED
    BY <2>1, <1>2, <1>3, StatusKept
<1>4. CASE s \notin announced
  <2>1. ~NoTelling(evs, s, Listing)
    BY <1>1, <1>2, <1>4 DEF StatusHeard
  <2>2. ~NoTelling(evs, s, StatusNames)
    BY <2>1 DEF NoTelling, Of, Listing, StatusNames
  <2>3. LastTelling(evs, s, StatusNames, status'[s])
    BY <1>1, <1>2, <2>2 DEF StatusHeard
  <2>4. QED
    BY <2>1, <2>3, StatusTold
<1>5. QED
  BY <1>3, <1>4

LEMMA OnWay ==
    ASSUME SyncInv
    PROVE  /\ Len(Way) \in Nat /\ Len(toPhone) \in 0 .. Len(Way)
           /\ 0 \in 0 .. Len(Way)
           /\ \A i \in 1 .. Len(toPhone) :
                  i \in 0 .. Len(Way) /\ i \in 1 .. Len(Way) /\ Way[i] = toPhone[i]
  BY ChannelTypes, LaidAt DEF Way

LEMMA StartedLive == \A s : status[s] \in Live => status[s] # "absent"
  BY StatusValues

LEMMA DueActs ==
    ASSUME SyncInv, Told, Due, NEW evs, Tells(evs),
           UNCHANGED <<phoneVars, linkVars, historyVars, restarts>>
    PROVE  Due'
<1>1. UNCHANGED <<toPhone, toDaemon, linkUp, phase, known, last, text, shown,
                  intact, skipped, Era>>
  BY DEF phoneVars, linkVars, historyVars, Era
<1>2. \A s \in Sessions : StatusHeard(evs, s)
  BY DEF Tells
<1>3. ASSUME NEW s \in Sessions, s \in Entries', status[s] # "absent"
      PROVE  s \in Entries /\ status'[s] \in Live /\ status[s] \in Live
  BY <1>2, <1>3 DEF Entries, StatusHeard
<1>4. \A s : s \in Entries' => s \in Sessions /\ status'[s] \in Live
  BY DEF Entries
<1>5. ListsDue'
  <2>1. SUFFICES ASSUME linkUp, NEW i \in 1 .. Len(toPhone),
                        toPhone[i].kind = "list",
                        NEW s, s \in announced', s \in Entries'
                 PROVE  StatusIn(Way', i, s, toPhone[i].list[s], status'[s])
    BY <1>1 DEF ListsDue
  <2>2. s \in announced \cap Entries =>
            StatusIn(Way, i, s, toPhone[i].list[s], status[s])
    BY <2>1 DEF Due, ListsDue
  <2>3. i \in 0 .. Len(Way) /\ s \in Sessions /\ status'[s] \in Live
    BY <2>1, <1>4, OnWay
  <2>4. QED
    BY <2>1, <2>2, <2>3, <1>1, StatusAnnounced
<1>6. ViewsDue'
  <2>1. SUFFICES ASSUME NEW i \in 1 .. Len(toPhone), IsView(i),
                        NEW v, NEW era, v = toPhone[i].view, era = toPhone[i].era
                 PROVE  ViewDue(v, era, i)'
    <3>1. \A i \in 1 .. Len(toPhone) : IsView(i)' <=> IsView(i)
      BY <1>1 DEF IsView
    <3>2. QED
      BY <3>1, <1>1 DEF ViewsDue, ViewDue
  <2>2. PICK s : s = v.session
    OBVIOUS
  <2>3. /\ v.status \in Live
        /\ linkUp /\ s \in Entries => StatusIn(Way, i, s, v.status, status[s])
        /\ era = Era =>
              /\ s \in Entries => PromptIn(Way, i, s, v.active, active[s])
              /\ v.mode = "snapshot" =>
                    Carries(Way, i, s, Last(v.text), written[s])
              /\ v.mode # "snapshot" /\ last[s] = NoSeq =>
                    Carries(Way, i, s, NoSeq, written[s])
    BY <2>1, <2>2 DEF Due, ViewsDue, ViewDue
  <2>4. i \in 0 .. Len(Way) /\ s \in Sessions /\ status[s] # "absent"
    <3>1. toPhone[i] \in Message
      BY PhaseValues
    <3>2. s \in Sessions
      BY <3>1, <2>1, <2>2, MessageKinds DEF IsView
    <3>3. QED
      BY <3>2, <2>1, <2>2, OnWay DEF Told, Unborn, IsView
  <2>5. linkUp /\ s \in Entries' => StatusIn(Way', i, s, v.status, status'[s])
    BY <2>3, <2>4, <1>1, <1>3, StatusKept
  <2>6. era = Era /\ s \in Entries' => PromptIn(Way', i, s, v.active, active'[s])
    BY <2>3, <2>4, <1>1, <1>3, PromptKept
  <2>7. era = Era /\ v.mode = "snapshot" =>
            Carries(Way', i, s, Last(v.text), written'[s])
    BY <2>3, <2>4, <1>1, OutputKept
  <2>8. era = Era /\ v.mode # "snapshot" /\ last[s] = NoSeq =>
            Carries(Way', i, s, NoSeq, written'[s])
    BY <2>3, <2>4, <1>1, OutputKept
  <2>9. QED
    BY <2>2, <2>3, <2>5, <2>6, <2>7, <2>8, <1>1 DEF ViewDue
<1>7. \A s \in intact : s \in Sessions
  BY DEF SyncInv, TypeOK
<1>8. KnownDue'
  <2>1. SUFFICES ASSUME linkUp, phase \in {"subscribing", "online"},
                        NEW s, s \in Entries',
                        s \in (announced' \ skipped) \cup intact
                 PROVE  StatusIn(Way', 0, s, known[s], status'[s])
    BY <1>1 DEF KnownDue
  <2>2. s \in Sessions /\ status'[s] \in Live /\ 0 \in 0 .. Len(Way)
    BY <2>1, <1>4, OnWay
  <2>3. CASE s \in intact
    <3>1. status[s] # "absent"
      BY <2>3 DEF Due, IntactDue
    <3>2. s \in Entries
      BY <3>1, <2>1, <2>2, <1>3
    <3>3. StatusIn(Way, 0, s, known[s], status[s])
      BY <3>2, <2>1, <2>3 DEF Due, KnownDue
    <3>4. QED
      BY <3>1, <3>3, <2>2, <1>1, StatusKept
  <2>4. CASE s \notin intact
    <3>1. s \in announced' /\ s \notin skipped
      BY <2>1, <2>4
    <3>2. s \in announced \cap Entries => StatusIn(Way, 0, s, known[s], status[s])
      BY <3>1, <2>1 DEF Due, KnownDue
    <3>3. QED
      BY <3>1, <3>2, <2>2, <1>1, StatusAnnounced
  <2>5. QED
    BY <2>3, <2>4
<1>9. IntactWhile'
  BY <1>1 DEF Due, IntactWhile, IsView
<1>10. IntactDue'
  <2>1. SUFFICES ASSUME NEW s \in intact
                 PROVE  /\ status'[s] # "absent"
                        /\ RunOf(text[s], written'[s])
                        /\ Carries(Way', 0, s, last[s], written'[s])
                        /\ s \in Entries' => PromptIn(Way', 0, s, shown[s], active'[s])
    BY <1>1 DEF IntactDue
  <2>2. /\ status[s] # "absent" /\ RunOf(text[s], written[s])
        /\ Carries(Way, 0, s, last[s], written[s])
        /\ s \in Entries => PromptIn(Way, 0, s, shown[s], active[s])
        /\ s \in Sessions /\ 0 \in 0 .. Len(Way)
    BY <2>1, <1>7, OnWay DEF Due, IntactDue
  <2>3. status'[s] # "absent"
    BY <2>2, <1>2 DEF StatusHeard
  <2>4. Carries(Way', 0, s, last[s], written'[s])
    BY <2>2, <1>1, OutputKept
  <2>5. s \in Entries' => PromptIn(Way', 0, s, shown[s], active'[s])
    BY <2>2, <1>1, <1>3, PromptKept
  <2>6. RunOf(text[s], written'[s])
    <3>1. OutputHeard(evs, s)
      BY <2>2 DEF Tells
    <3>2. CASE written'[s] = written[s]
      BY <3>2, <2>2
    <3>3. CASE written'[s] = Append(written[s], seq + 1)
      <4>1. /\ written[s] \in Seq(Nat) /\ seq + 1 \in Nat /\ text[s] \in Seq(Nat)
        BY <2>2 DEF SyncInv, TypeOK, RegistryTypeOK, PhoneTypeOK
      <4>2. QED
        BY <4>1, <3>3, <2>2, RunLonger
    <3>4. QED
      BY <3>1, <3>2, <3>3 DEF OutputHeard
  <2>7. QED
    BY <2>3, <2>4, <2>5, <2>6
<1>11. QED
  BY <1>5, <1>6, <1>8, <1>9, <1>10 DEF Due

LEMMA DueRegistered ==
    ASSUME SyncInv, Told, Asked, Due, DaemonRegister, NEW evs, Tells(evs),
           \A s \in Entries : /\ LastTelling(evs, s, StatusNames, status'[s])
                              /\ ~NoTelling(evs, s, Listing)
    PROVE  Due'
<1>1. /\ ~linkUp /\ linkUp'
      /\ UNCHANGED <<toPhone, status, phase, known, announced, intact, skipped,
                     Era>>
  BY DEF DaemonRegister, phoneVars, historyVars, Era
<1>2. intact = {}
  BY <1>1 DEF Due, IntactWhile
<1>3. ASSUME NEW k \in 0 .. Len(Way), NEW s \in Entries, NEW b
      PROVE  StatusIn(Way', k, s, b, status'[s])
  BY <1>1, StatusTold
<1>4. Entries' = Entries
  BY <1>1 DEF Entries
<1>5. ListsDue'
  <2>1. \A i \in 1 .. Len(toPhone) : \A s \in announced \cap Entries :
            StatusIn(Way', i, s, toPhone[i].list[s], status'[s])
    BY <1>3, OnWay
  <2>2. QED
    BY <2>1, <1>1, <1>4 DEF ListsDue
<1>6. ViewsDue'
  <2>1. ASSUME NEW i \in 1 .. Len(toPhone), IsView(i),
               NEW v, NEW era, v = toPhone[i].view, era = toPhone[i].era
        PROVE  ViewDue(v, era, i)'
    <3>1. v.status \in Live
      BY <2>1 DEF Due, ViewsDue, ViewDue
    <3>2. era # Era
      BY <2>1, <1>1 DEF Asked, EraInv
    <3>3. v.session \in Entries => StatusIn(Way', i, v.session, v.status,
                                            status'[v.session])
      BY <2>1, <1>3, OnWay
    <3>4. QED
      BY <3>1, <3>2, <3>3, <1>1, <1>4 DEF ViewDue
  <2>2. \A i \in 1 .. Len(toPhone) : IsView(i)' <=> IsView(i)
    BY <1>1 DEF IsView
  <2>3. QED
    BY <2>1, <2>2, <1>1 DEF ViewsDue, ViewDue
<1>7. KnownDue'
  <2>1. \A s \in Entries : StatusIn(Way', 0, s, known[s], status'[s])
    BY <1>3, OnWay
  <2>2. QED
    BY <2>1, <1>1, <1>4 DEF KnownDue
<1>8. IntactWhile' /\ IntactDue'
  BY <1>1, <1>2 DEF IntactWhile, IntactDue
<1>9. QED
  BY <1>5, <1>6, <1>7, <1>8 DEF Due

LEMMA ActsKeep ==
    ASSUME ChannelInv, DaemonActs
    PROVE  Told' /\ Asked' /\ Due'
<1>1. SyncInv /\ TypeOK /\ Told /\ Asked /\ Due
  BY DEF ChannelInv, AskedInv, SyncInv
<1>2. /\ DaemonStep
      /\ UNCHANGED <<toPhone, toDaemon, linkUp, last, phoneVars, linkVars,
                     historyVars>>
  BY DEF DaemonActs, phoneVars, linkVars
<1>3. UNCHANGED restarts
  BY <1>2 DEF DaemonStep, Launch, Announce, LaunchFails, Cleanup, Output,
              Resolve, Detect, Exit
<1>4. PICK evs : Tells(evs)
  BY <1>1, <1>2, DaemonTells DEF Told, Unborn
<1>5. Told'
  BY <1>1, <1>2, <1>4, ToldGrows
<1>6. Due'
  BY <1>1, <1>2, <1>3, <1>4, DueActs
<1>7. Asked'
  <2>1. UNCHANGED <<toPhone, toDaemon, linkUp, last, Era>>
    BY <1>2, <1>3 DEF linkVars, Era
  <2>2. QED
    BY <2>1, <1>1 DEF Asked, AfterKnown, EraInv, IsView
<1>8. QED
  BY <1>5, <1>6, <1>7

LEMMA RegisterKeeps ==
    ASSUME ChannelInv, DaemonRegister
    PROVE  Told' /\ Asked' /\ Due'
<1>1. SyncInv /\ TypeOK /\ Told /\ Asked /\ Due
  BY DEF ChannelInv, AskedInv, SyncInv
<1>2. PICK evs : /\ Tells(evs)
                 /\ \A s \in Entries :
                        /\ LastTelling(evs, s, StatusNames, status'[s])
                        /\ ~NoTelling(evs, s, Listing)
  BY <1>1, RegisterTells DEF Told, Unborn
<1>3. UNCHANGED <<toPhone, toDaemon, last, Era>> /\ linkUp'
  BY DEF DaemonRegister, phoneVars, Era
<1>4. Told'
  BY <1>1, <1>2, <1>3, ToldGrows
<1>5. Due'
  BY <1>1, <1>2, DueRegistered
<1>6. Asked'
  BY <1>1, <1>3 DEF Asked, AfterKnown, EraInv, IsView
<1>7. QED
  BY <1>4, <1>5, <1>6

-----------------------------------------------------------------------------
(* Tasks and losses.                                                       *)

\* Without a connection nothing is due.
LEMMA DueIdle ==
    ASSUME intact' = {}, ~linkUp' \/ phase' \notin {"subscribing", "online"},
           \A i \in 1 .. Len(toPhone') :
               /\ toPhone'[i].kind = "list" => ~linkUp'
               /\ toPhone'[i].kind = "view" =>
                     /\ ~linkUp' /\ toPhone'[i].view.status \in Live
                     /\ toPhone'[i].era # Era'
    PROVE  Due'
<1>1. ListsDue' /\ KnownDue' /\ IntactWhile' /\ IntactDue'
  BY DEF ListsDue, KnownDue, IntactWhile, IntactDue
<1>2. ViewsDue'
  BY DEF ViewsDue, ViewDue, IsView
<1>3. QED
  BY <1>1, <1>2 DEF Due

LEMMA ToldCut ==
    ASSUME SyncInv, Told, NEW c \in Nat, NEW d \in Int, KeepsOrder(Way, Way', c, d),
           UNCHANGED written, announced' \subseteq announced,
           \A s \in Sessions : status'[s] = "absent" => status[s] = "absent",
           \A i \in 1 .. Len(toPhone') : toPhone'[i].kind = "view" =>
               \E j \in 1 .. Len(toPhone) : toPhone[j] = toPhone'[i],
           QueueAgrees'
    PROVE  Told'
<1>1. PICK w, v : w = Way /\ v = Way'
  OBVIOUS
<1>2. /\ Mounting(w) => Mounting(v)
      /\ AllPlausible(w) => AllPlausible(v)
      /\ \A s : Unheard(w, s) => Unheard(v, s)
  BY <1>1, OrderKept
<1>3. InOrder'
  BY <1>1, <1>2 DEF Told, InOrder
<1>4. Unborn'
  <2>1. SUFFICES ASSUME NEW s \in Sessions, status'[s] = "absent"
                 PROVE  /\ s \notin announced' /\ Unheard(v, s)
                        /\ \A i \in 1 .. Len(toPhone') :
                              toPhone'[i].kind = "view" =>
                                  toPhone'[i].view.session # s
    BY <1>1 DEF Unborn
  <2>2. /\ s \notin announced /\ Unheard(w, s)
        /\ \A i \in 1 .. Len(toPhone) :
              toPhone[i].kind = "view" => toPhone[i].view.session # s
    BY <2>1, <1>1 DEF Told, Unborn
  <2>3. QED
    BY <2>2, <1>2
<1>5. HistoryRises'
  BY DEF Told, HistoryRises
<1>6. QED
  BY <1>3, <1>4, <1>5 DEF Told

LEMMA QueueSame ==
    ASSUME Told, UNCHANGED <<status, active, events>>
    PROVE  QueueAgrees'
  BY DEF Told, QueueAgrees, Entries

LEMMA SendKeeps ==
    ASSUME ChannelInv, SendEvent
    PROVE  Told' /\ Asked' /\ Due'
<1>1. /\ SyncInv /\ TypeOK /\ Told /\ Asked /\ Due /\ IdleAsksNothing
      /\ toPhone \in Seq(Message) /\ events \in Seq(Event)
      /\ phase \in {"away", "recovery", "listing", "subscribing", "online"}
  BY PhaseValues, ChannelTypes DEF ChannelInv, AskedInv, SyncInv, Alone
<1>2. /\ events # <<>> /\ events' = Tail(events)
      /\ UNCHANGED <<status, announced, seq, buffer, active, lastId, restarts,
                     written, known, text, last, shown, linkUp, phase,
                     toDaemon, daemonDrops, intact, skipped, Era>>
  BY DEF SendEvent, phoneVars, historyVars, Era
<1>3. QueueAgrees'
  <2>1. \A s \in Entries : /\ Agrees(Tail(events), s, StatusNames, status[s])
                           /\ Agrees(Tail(events), s, PromptNames, active[s])
    BY <1>1, <1>2, AgreesTail DEF Told, QueueAgrees
  <2>2. QED
    BY <2>1, <1>2 DEF QueueAgrees, Entries
<1>4. CASE linkUp /\ Linked
  <2>1. PICK t \in Message : t = Telling(Head(events))
    <3>1. Head(events) \in Event
      BY <1>1, <1>2, TailAt
    <3>2. QED
      BY <3>1 DEF Telling, Message
  <2>2. toPhone' = Append(toPhone, t) /\ t.kind = "event"
    BY <2>1, <1>4 DEF SendEvent, Telling
  <2>3. /\ Len(toPhone) \in Nat /\ Len(toPhone') = Len(toPhone) + 1
        /\ \A i \in 1 .. Len(toPhone) : toPhone'[i] = toPhone[i]
        /\ toPhone'[Len(toPhone) + 1] = t
    BY <2>1, <2>2, <1>1, AppendAt
  <2>4. ASSUME NEW i \in 1 .. Len(toPhone'), toPhone'[i].kind # "event"
        PROVE  i \in 1 .. Len(toPhone) /\ toPhone'[i] = toPhone[i]
    BY <2>2, <2>3, <2>4
  <2>5. Way' = Way
    BY <1>1, <1>4, WayPassed
  <2>6. Told'
    <3>1. InOrder' /\ HistoryRises'
      BY <2>5, <1>1, <1>2 DEF Told, InOrder, HistoryRises
    <3>2. Unborn'
      BY <2>4, <2>5, <1>1, <1>2 DEF Told, Unborn
    <3>3. QED
      BY <3>1, <3>2, <1>3 DEF Told
  <2>7. Asked'
    <3>1. AfterKnown'
      BY <1>1, <1>2 DEF Asked, AfterKnown
    <3>2. EraInv'
      BY <2>4, <1>1, <1>2 DEF Asked, EraInv, IsView
    <3>3. QED
      BY <3>1, <3>2 DEF Asked
  <2>8. Entries' = Entries
    BY <1>2 DEF Entries
  <2>9. ListsDue'
    BY <2>4, <2>5, <2>8, <1>1, <1>2 DEF Due, ListsDue
  <2>10. ViewsDue'
    BY <2>4, <2>5, <2>8, <1>1, <1>2 DEF Due, ViewsDue, ViewDue, IsView
  <2>11. KnownDue'
    BY <2>5, <2>8, <1>1, <1>2 DEF Due, KnownDue
  <2>12. IntactWhile'
    BY <2>4, <1>1, <1>2 DEF Due, IntactWhile, IsView
  <2>13. IntactDue'
    BY <2>5, <2>8, <1>1, <1>2 DEF Due, IntactDue
  <2>14. QED
    BY <2>6, <2>7, <2>9, <2>10, <2>11, <2>12, <2>13 DEF Due
<1>5. CASE ~(linkUp /\ Linked)
  <2>1. UNCHANGED toPhone /\ KeepsOrder(Way, Way', Len(toPhone), 1)
    BY <1>1, <1>5, WayPassed
  <2>2. Len(toPhone) \in Nat
    BY <1>1, LenProperties
  <2>3. Told'
    BY <2>1, <2>2, <1>1, <1>2, <1>3, ToldCut
  <2>4. Asked'
    BY <2>1, <1>1, <1>2 DEF Asked, AfterKnown, EraInv, IsView
  <2>5. phase \in {"away", "recovery"} \/ ~linkUp
    BY <1>1, <1>5 DEF Linked
  <2>6. intact = {}
    BY <2>5, <1>1 DEF Due, IntactWhile
  <2>7. ASSUME NEW i \in 1 .. Len(toPhone)
        PROVE  /\ toPhone[i].kind = "list" => ~linkUp
               /\ toPhone[i].kind = "view" =>
                     /\ ~linkUp /\ toPhone[i].view.status \in Live
                     /\ toPhone[i].era # Era
    <3>1. CASE linkUp
      BY <3>1, <2>5, <1>1 DEF IdleAsksNothing, Pushed
    <3>2. CASE ~linkUp
      BY <3>2, <1>1 DEF Due, ViewsDue, ViewDue, IsView, Asked, EraInv
    <3>3. QED
      BY <3>1, <3>2
  <2>8. Due'
    BY <2>1, <2>5, <2>6, <2>7, <1>2, DueIdle
  <2>9. QED
    BY <2>3, <2>4, <2>8
<1>6. QED
  BY <1>4, <1>5

\* The daemon's link is lost: no claim is left to keep, and the views that
\* reach the phone are of an earlier era.
LEMMA LostKeeps ==
    ASSUME ChannelInv, SyncInv', LoseLink, Era' > Era,
           UNCHANGED events \/ events' = <<>>,
           UNCHANGED written, announced' \subseteq announced,
           \A s \in Sessions : status'[s] = "absent" => status[s] = "absent",
           QueueAgrees'
    PROVE  Told' /\ Asked' /\ Due'
<1>1. /\ SyncInv /\ Told /\ Asked /\ Due /\ Era \in Nat
      /\ toPhone \in Seq(Message) /\ toPhone' \in Seq(Message)
      /\ Len(toPhone) \in Nat
  <2>1. SyncInv /\ TypeOK /\ Told /\ Asked /\ Due
    BY DEF ChannelInv, AskedInv, SyncInv
  <2>2. TypeOK'
    BY DEF SyncInv
  <2>3. toPhone \in Seq(Message) /\ toPhone' \in Seq(Message)
    BY <2>1, <2>2 DEF TypeOK
  <2>4. QED
    BY <2>1, <2>3, EraTyped, LenProperties
<1>2. /\ toDaemon' = <<>> /\ linkUp' = FALSE /\ intact' = {}
      /\ \E kept \in 0 .. Len(toPhone) : LostAfter(kept)
  BY <1>1, LinkLost
<1>3. PICK kept \in 0 .. Len(toPhone) : LostAfter(kept)
  BY <1>2
<1>4. /\ kept <= Len(toPhone') /\ Len(toPhone') \in Nat /\ kept \in Nat
      /\ \A i \in 1 .. kept : toPhone'[i] = toPhone[i]
      /\ \A i \in kept + 1 .. Len(toPhone') : toPhone'[i] \in Refusals(kept)
  BY <1>1, <1>3 DEF LostAfter
<1>5. \A x \in Refusals(kept) : x.kind = "offline"
  BY DEF Refusals, RefusalOf, Refusal
<1>6. \A i \in kept + 1 .. Len(toPhone') : ~Pushed(toPhone'[i])
  BY <1>4, <1>5 DEF Pushed
<1>7. KeepsOrder(Way, Way', kept, Len(toPhone) - Len(toPhone'))
  BY <1>1, <1>4, <1>6, WayCut
<1>8. ASSUME NEW i \in 1 .. Len(toPhone'), toPhone'[i].kind = "view"
      PROVE  i \in 1 .. kept /\ i \in 1 .. Len(toPhone) /\ toPhone'[i] = toPhone[i]
  <2>1. i \notin kept + 1 .. Len(toPhone')
    BY <1>4, <1>5, <1>8
  <2>2. i \in 1 .. kept /\ i \in 1 .. Len(toPhone)
    BY <2>1, <1>1, <1>4
  <2>3. QED
    BY <2>2, <1>4
<1>9. Told'
  <2>1. Len(toPhone) - Len(toPhone') \in Int
    BY <1>1, <1>4
  <2>2. QED
    BY <2>1, <1>1, <1>4, <1>7, <1>8, ToldCut
<1>10. ASSUME NEW i \in 1 .. Len(toPhone), toPhone[i].kind = "view"
       PROVE  toPhone[i].era \in Nat /\ toPhone[i].era < Era' /\ Era' \in Nat
  <2>1. toPhone[i] \in Message
    BY <1>1, ElementOfSeq
  <2>2. toPhone[i].era \in Nat
    BY <2>1, <1>10 DEF Message
  <2>3. toPhone[i].era <= Era
    BY <1>1, <1>10 DEF Asked, EraInv, IsView
  <2>4. Era' \in Nat
    <3>1. TypeOK'
      BY DEF SyncInv
    <3>2. daemonDrops' \in Nat /\ restarts' \in Nat
      BY <3>1 DEF TypeOK, RegistryTypeOK
    <3>3. PICK a \in Nat, b \in Nat : a = daemonDrops' /\ b = restarts'
      BY <3>2
    <3>4. Era' = a + b
      BY <3>3 DEF Era
    <3>5. QED
      BY <3>4
  <2>5. PICK x, y, z : x = toPhone[i].era /\ y = Era /\ z = Era'
    OBVIOUS
  <2>6. x \in Nat /\ y \in Nat /\ z \in Nat /\ x <= y /\ y < z
    BY <2>2, <2>3, <2>4, <2>5, <1>1
  <2>7. x < z
    BY <2>6
  <2>8. QED
    BY <2>5, <2>6, <2>7
<1>11. Asked'
  <2>1. AfterKnown'
    <3>1. Len(toDaemon') = 0
      BY <1>2
    <3>2. QED
      BY <3>1 DEF AfterKnown
  <2>2. EraInv'
    <3>1. \A i \in 1 .. Len(toPhone') : toPhone'[i].kind = "view" =>
              /\ toPhone'[i].era <= Era' /\ toPhone'[i].era # Era'
      BY <1>8, <1>10
    <3>2. \A i, j \in 1 .. Len(toPhone') :
              i < j /\ toPhone'[i].kind = "view" /\ toPhone'[j].kind = "view" =>
                  toPhone'[i].era <= toPhone'[j].era
      BY <1>1, <1>8 DEF Asked, EraInv, IsView
    <3>3. QED
      BY <3>1, <3>2 DEF EraInv, IsView
  <2>3. QED
    BY <2>1, <2>2 DEF Asked
<1>12. Due'
  <2>1. \A i \in 1 .. Len(toPhone') : toPhone'[i].kind = "view" =>
            toPhone'[i].view.status \in Live /\ toPhone'[i].era # Era'
    BY <1>1, <1>8, <1>10 DEF Due, ViewsDue, ViewDue, IsView
  <2>2. QED
    BY <2>1, <1>2, DueIdle
<1>13. QED
  BY <1>9, <1>11, <1>12

LEMMA DropKeeps ==
    ASSUME ChannelInv, SyncInv', DaemonDrop \/ DaemonCrash
    PROVE  Told' /\ Asked' /\ Due'
<1>1. SyncInv /\ TypeOK /\ Told
  BY DEF ChannelInv, AskedInv, SyncInv
<1>2. daemonDrops \in Nat /\ restarts \in Nat
  BY <1>1 DEF TypeOK, RegistryTypeOK
<1>3. CASE DaemonDrop
  <2>1. /\ LoseLink /\ daemonDrops' = daemonDrops + 1
        /\ UNCHANGED <<status, announced, active, events, written, restarts>>
    BY <1>3 DEF DaemonDrop, daemonVars
  <2>2. Era' > Era
    BY <2>1, <1>2 DEF Era
  <2>3. QueueAgrees'
    BY <2>1, <1>1, QueueSame
  <2>4. QED
    BY <2>1, <2>2, <2>3, LostKeeps
<1>4. CASE DaemonCrash
  <2>1. /\ LoseLink /\ restarts' = restarts + 1 /\ announced' = {}
        /\ events' = <<>> /\ UNCHANGED <<written, daemonDrops>>
        /\ \A s \in Sessions :
              status'[s] = IF status[s] = "absent" THEN "absent" ELSE "gone"
    BY <1>4 DEF DaemonCrash, DaemonRestart
  <2>2. Era' > Era
    BY <2>1, <1>2 DEF Era
  <2>3. QueueAgrees'
    <3>1. \A s \in Sessions : status'[s] \notin Live
      BY <2>1, StatusValues
    <3>2. QED
      BY <3>1 DEF QueueAgrees, Entries
  <2>4. \A s \in Sessions : status'[s] = "absent" => status[s] = "absent"
    BY <2>1
  <2>5. QED
    BY <2>1, <2>2, <2>3, <2>4, LostKeeps
<1>5. QED
  BY <1>3, <1>4

\* The phone's socket ends, or another one is opened: nothing is on its way.
LEMMA EmptyKeeps ==
    ASSUME ChannelInv, toPhone' = <<>>, intact' = {},
           phase' \notin {"subscribing", "online"},
           \A i \in 1 .. Len(toDaemon') : toDaemon'[i].method # "subscribe",
           UNCHANGED daemonVars
    PROVE  Told' /\ Asked' /\ Due'
<1>1. /\ SyncInv /\ Told /\ Len(toPhone) \in Nat /\ Len(toPhone') = 0
      /\ toPhone' \in Seq(Message)
      /\ UNCHANGED <<status, announced, active, events, written>>
  BY PhaseValues DEF ChannelInv, AskedInv, daemonVars
<1>2. KeepsOrder(Way, Way', 0, Len(toPhone) - Len(toPhone'))
  <2>1. 0 \in 0 .. Len(toPhone) /\ 0 <= Len(toPhone')
    BY <1>1
  <2>2. (\A i \in 1 .. 0 : FALSE) /\ \A i \in 0 + 1 .. Len(toPhone') : FALSE
    BY <1>1
  <2>3. QED
    BY <2>1, <2>2, <1>1, WayCut
<1>3. Told'
  <2>1. Len(toPhone) - Len(toPhone') \in Int /\ 0 \in Nat
    BY <1>1
  <2>2. \A i \in 1 .. Len(toPhone') : FALSE
    BY <1>1
  <2>3. QED
    BY <2>1, <2>2, <1>1, <1>2, QueueSame, ToldCut
<1>4. Asked'
  BY <1>1 DEF Asked, AfterKnown, EraInv
<1>5. Due'
  BY <1>1, DueIdle
<1>6. QED
  BY <1>3, <1>4, <1>5

LEMMA SocketKeeps ==
    ASSUME ChannelInv, Synchronize \/ Disconnect \/ Retry
    PROVE  Told' /\ Asked' /\ Due'
<1>1. CASE Synchronize
  <2>1. SyncInv /\ IdleAsksNothing /\ Due
    BY DEF ChannelInv, AskedInv, Alone
  <2>2. /\ phase = "away" /\ toPhone' = <<>> /\ UNCHANGED <<daemonVars, intact>>
        /\ phase' \in {"listing", "recovery"}
        /\ UNCHANGED toDaemon \/
              \E q : toDaemon' = <<q>> /\ q.method = "list"
    BY <1>1 DEF Synchronize, historyVars
  <2>3. toDaemon = <<>>
    BY <2>1, <2>2 DEF IdleAsksNothing
  <2>4. \A i \in 1 .. Len(toDaemon') : toDaemon'[i].method # "subscribe"
    <3>1. CASE UNCHANGED toDaemon
      BY <3>1, <2>3
    <3>2. CASE \E q : toDaemon' = <<q>> /\ q.method = "list"
      BY <3>2
    <3>3. QED
      BY <3>1, <3>2, <2>2
  <2>5. intact = {}
    BY <2>1, <2>2 DEF Due, IntactWhile
  <2>6. QED
    BY <2>2, <2>4, <2>5, EmptyKeeps
<1>2. CASE Disconnect \/ Retry
  <2>1. /\ phase' = "away" /\ toPhone' = <<>> /\ toDaemon' = <<>>
        /\ intact' = {} /\ UNCHANGED daemonVars
    BY <1>2 DEF Disconnect, Retry, LoseSocket
  <2>2. QED
    BY <2>1, EmptyKeeps
<1>3. QED
  BY <1>1, <1>2

-----------------------------------------------------------------------------
(* A request is answered: ahead of the events whose tasks have not run, and *)
(* right with them behind it.                                              *)

LEMMA AgreesSays ==
    ASSUME NEW y \in Seq(Message), NEW ev \in Seq(Event), NEW s, NEW N, NEW x,
           Agrees(ev, s, N, x)
    PROVE  Says(Laid(y, ev), Len(y), s, N, x, x)
<1>1. PICK w, n, m : w = Laid(y, ev) /\ n = Len(y) /\ m = Len(ev)
  OBVIOUS
<1>2. /\ n \in Nat /\ m \in Nat /\ Len(w) = n + m
      /\ \A i \in 1 .. m : w[n + i] = Telling(ev[i])
  BY <1>1, LaidAt
<1>3. ASSUME NEW p \in n + 1 .. Len(w)
      PROVE  /\ p - n \in 1 .. m /\ w[p].event = ev[p - n]
             /\ About(w[p], s, N) <=> Of(ev[p - n], s, N)
  <2>1. p - n \in 1 .. m /\ p = n + (p - n)
    BY <1>2
  <2>2. w[p] = Telling(ev[p - n])
    BY <2>1, <1>2
  <2>3. QED
    BY <2>1, <2>2 DEF Telling, About, Pushed
<1>4. CASE NoTelling(ev, s, N)
  BY <1>1, <1>3, <1>4 DEF NoTelling, Says
<1>5. CASE LastTelling(ev, s, N, x)
  <2>1. PICK i \in 1 .. m :
            /\ Of(ev[i], s, N) /\ What(ev[i]) = x
            /\ \A j \in i + 1 .. m : ~Of(ev[j], s, N)
    BY <1>1, <1>5 DEF LastTelling
  <2>2. PICK p : p = n + i
    OBVIOUS
  <2>3. p \in n + 1 .. Len(w) /\ p - n = i
    BY <2>2, <1>2
  <2>4. About(w[p], s, N) /\ What(w[p].event) = x
    BY <2>1, <2>3, <1>3
  <2>5. ASSUME NEW q \in p + 1 .. Len(w) PROVE ~About(w[q], s, N)
    <3>1. q \in n + 1 .. Len(w) /\ q - n \in i + 1 .. m
      BY <2>2, <1>2
    <3>2. QED
      BY <3>1, <2>1, <1>3
  <2>6. QED
    BY <2>3, <2>4, <2>5, <1>1 DEF Says
<1>6. QED
  BY <1>4, <1>5 DEF Agrees

\* Who reads the registry now is told the rest.
LEMMA FreshIsDue ==
    ASSUME SyncInv, Told, NEW s \in Entries
    PROVE  /\ StatusIn(Way, Len(toPhone), s, status[s], status[s])
           /\ PromptIn(Way, Len(toPhone), s, active[s], active[s])
<1>1. /\ Agrees(events, s, StatusNames, status[s])
      /\ Agrees(events, s, PromptNames, active[s])
      /\ toPhone \in Seq(Message) /\ events \in Seq(Event)
  BY ChannelTypes DEF Told, QueueAgrees
<1>2. /\ Says(Way, Len(toPhone), s, StatusNames, status[s], status[s])
      /\ Says(Way, Len(toPhone), s, PromptNames, active[s], active[s])
  BY <1>1, AgreesSays DEF Way
<1>3. status[s] # "absent"
  BY StartedLive DEF Entries
<1>4. QED
  BY <1>2, <1>3 DEF StatusIn, PromptIn, Lists

\* Of what is due before an answer, and at its place, nothing is lost.
LEMMA DueInserted ==
    ASSUME NEW w, NEW v, NEW n, Inserted(w, v, n), NEW k \in 0 .. n, NEW s,
           NEW b, NEW x
    PROVE  /\ StatusIn(w, k, s, b, x) => StatusIn(v, k, s, b, x)
           /\ PromptIn(w, k, s, b, x) => PromptIn(v, k, s, b, x)
           /\ Carries(w, k, s, b, x) => Carries(v, k, s, b, x)
           /\ k = n /\ StatusIn(w, k, s, b, x) => StatusIn(v, n + 1, s, b, x)
           /\ k = n /\ PromptIn(w, k, s, b, x) => PromptIn(v, n + 1, s, b, x)
<1>1. /\ Lists(w, k, s, b) => Lists(v, k, s, b)
      /\ Lists(w, n, s, b) => Lists(v, n + 1, s, b)
  BY ListsStays
<1>2. Carries(w, k, s, b, x) => Carries(v, k, s, b, x)
  BY CarriesStays
<1>3. ASSUME NEW N, Says(w, k, s, N, b, x)
      PROVE  /\ Says(v, k, s, N, b, x)
             /\ k = n => Says(v, n + 1, s, N, b, x)
  BY <1>3, SaysInserted
<1>4. QED
  BY <1>1, <1>2, <1>3 DEF StatusIn, PromptIn

\* A snapshot leaves no output behind, and without one and without afterSeq
\* there are none.
LEMMA ViewIsComplete ==
    ASSUME SyncInv, NEW s \in Entries, NEW after
    PROVE  LET v == SubscribeView(s, after)
           IN  /\ v.mode = "snapshot" =>
                     \A j \in 1 .. Len(written[s]) : ~(written[s][j] > Last(v.text))
               /\ v.mode # "snapshot" /\ after = NoSeq => Len(written[s]) = 0
<1>1. PICK b, h : b = buffer[s] /\ h = written[s]
  OBVIOUS
<1>2. /\ b \in Seq(Nat) /\ h \in Seq(Nat) /\ Window(b, h) /\ Rising(h, seq)
  BY <1>1, EntriesStarted DEF SyncInv, TypeOK
<1>3. /\ Len(b) \in Nat /\ Len(h) \in Nat /\ MaxBuffer \in Nat \ {0}
      /\ Len(b) = 0 => Len(h) = 0
      /\ \A i \in 1 .. Len(b) : b[i] = h[Len(h) - Len(b) + i]
      /\ \A i \in 1 .. Len(h) : h[i] \in Nat
  <2>1. Len(b) \in Nat /\ Len(h) \in Nat /\ MaxBuffer \in Nat \ {0}
    BY <1>2, LenProperties, RegistryAssumption
  <2>2. /\ Len(b) = IF Len(h) < MaxBuffer THEN Len(h) ELSE MaxBuffer
        /\ \A i \in 1 .. Len(b) : b[i] = h[Len(h) - Len(b) + i]
    BY <1>2 DEF Window
  <2>3. \A i \in 1 .. Len(h) : h[i] \in Nat
    BY <1>2, ElementOfSeq
  <2>4. QED
    BY <2>1, <2>2, <2>3
<1>4. PICK v : v = SubscribeView(s, after)
  OBVIOUS
<1>5. v.mode = "snapshot" => b # <<>> /\ v.text = b
  BY <1>1, <1>4 DEF SubscribeView, Mode
<1>6. v.mode # "snapshot" /\ after = NoSeq => b = <<>>
  BY <1>1, <1>4 DEF SubscribeView, Mode
<1>7. ASSUME b # <<>>, NEW j \in 1 .. Len(h) PROVE ~(h[j] > Last(b))
  <2>1. Len(b) # 0
    BY <1>2, <1>7, EmptySeq
  <2>2. Len(b) \in 1 .. Len(b) /\ Len(h) - Len(b) + Len(b) = Len(h)
    BY <2>1, <1>3
  <2>3. b[Len(b)] = h[Len(h)]
    BY <2>2, <1>3
  <2>4. Last(b) = h[Len(h)]
    BY <2>3 DEF Last
  <2>5. j = Len(h) \/ (j < Len(h) /\ Len(h) \in 1 .. Len(h))
    BY <1>3, <1>7
  <2>6. h[j] = h[Len(h)] \/ h[j] < h[Len(h)]
    BY <2>5, <1>2, <1>7 DEF Rising
  <2>7. h[j] \in Nat /\ h[Len(h)] \in Nat
    BY <2>5, <1>3, <1>7
  <2>8. QED
    BY <2>4, <2>6, <2>7
<1>8. b = <<>> => Len(h) = 0
  BY <1>3
<1>9. QED
  BY <1>1, <1>4, <1>5, <1>6, <1>7, <1>8

LEMMA HandleKeeps ==
    ASSUME ChannelInv, HandleRequest
    PROVE  Told' /\ Asked' /\ Due'
<1>1. /\ SyncInv /\ TypeOK /\ Told /\ Asked /\ Due
      /\ Len(toPhone) \in Nat /\ Era \in Nat
  BY PhaseValues, EraTyped DEF ChannelInv, AskedInv, SyncInv
<1>2. PICK q, n, a, w, v : /\ q = Head(toDaemon) /\ n = Len(toPhone)
                           /\ a = IF linkUp THEN Answer(q) ELSE Refusal(q)
                           /\ w = Way /\ v = Way'
  OBVIOUS
<1>3. /\ q \in Request /\ q = toDaemon[1] /\ 1 \in 1 .. Len(toDaemon)
      /\ \A i \in 1 .. Len(toDaemon') :
             i + 1 \in 1 .. Len(toDaemon) /\ toDaemon'[i] = toDaemon[i + 1]
      /\ n \in Nat /\ Len(toPhone') = n + 1
      /\ \A i \in 1 .. n : toPhone'[i] = toPhone[i]
      /\ toPhone'[n + 1] = a
  BY <1>1, <1>2, Handled
<1>4. /\ ~Pushed(a)
      /\ a.kind = "list" => linkUp /\ a.list = SessionList
      /\ a.kind = "view" => /\ linkUp /\ q.session \in Entries /\ q.method # "list"
                            /\ a.view = SubscribeView(q.session, q.after)
                            /\ a.view.session = q.session /\ a.era = Era
  <2>1. a.kind = "view" => q.method # "list"
    BY <1>2 DEF Answer, Refusal
  <2>2. QED
    BY <2>1, <1>2, <1>3, AnswerIsOf
<1>5. Inserted(w, v, n)
  BY <1>1, <1>2, WayInserted
<1>6. \A i \in 1 .. Len(toPhone') :
          \/ i \in 1 .. n /\ i \in 1 .. Len(toPhone) /\ toPhone'[i] = toPhone[i]
          \/ i = n + 1 /\ toPhone'[i] = a
  BY <1>2, <1>3
<1>7. UNCHANGED <<status, announced, active, events, written, known, text, last,
                  shown, linkUp, phase, intact, skipped, Era, Entries>>
  BY DEF HandleRequest, daemonVars, phoneVars, historyVars, Era, Entries
<1>8. Told'
  <2>1. KeepsOrder(w, v, n, -1) /\ n \in Nat /\ -1 \in Int
    BY <1>5, InsertKeepsOrder
  <2>2. /\ Mounting(w) => Mounting(v)
        /\ AllPlausible(w) => AllPlausible(v)
        /\ \A s : Unheard(w, s) => Unheard(v, s)
    BY <2>1, OrderKept
  <2>3. InOrder'
    BY <2>2, <1>1, <1>2 DEF Told, InOrder
  <2>4. ASSUME NEW s \in Sessions, status[s] = "absent"
        PROVE  /\ s \notin announced /\ Unheard(v, s)
               /\ \A i \in 1 .. Len(toPhone') : toPhone'[i].kind = "view" =>
                      toPhone'[i].view.session # s
    <3>1. /\ s \notin announced /\ Unheard(w, s)
          /\ \A i \in 1 .. Len(toPhone) :
                 toPhone[i].kind = "view" => toPhone[i].view.session # s
      BY <2>4, <1>1, <1>2 DEF Told, Unborn
    <3>2. a.kind = "view" => a.view.session # s
      BY <2>4, <1>4, StartedLive DEF Entries
    <3>3. QED
      BY <3>1, <3>2, <2>2, <1>6
  <2>5. Unborn'
    BY <2>4, <1>2, <1>7 DEF Unborn
  <2>6. HistoryRises' /\ QueueAgrees'
    BY <1>1, <1>7, QueueSame DEF Told, HistoryRises
  <2>7. QED
    BY <2>3, <2>5, <2>6 DEF Told
<1>9. Asked'
  <2>1. AfterKnown'
    BY <1>1, <1>3, <1>7 DEF Asked, AfterKnown
  <2>2. \A i \in 1 .. Len(toPhone') : toPhone'[i].kind = "view" =>
            toPhone'[i].era <= Era /\ (toPhone'[i].era = Era => linkUp)
    BY <1>1, <1>4, <1>6 DEF Asked, EraInv, IsView
  <2>3. ASSUME NEW i \in 1 .. Len(toPhone'), NEW j \in 1 .. Len(toPhone'), i < j,
               toPhone'[i].kind = "view", toPhone'[j].kind = "view"
        PROVE  toPhone'[i].era <= toPhone'[j].era
    <3>1. CASE j = n + 1
      <4>1. toPhone'[j].era = Era
        BY <3>1, <2>3, <1>4, <1>6, <1>3
      <4>2. QED
        BY <4>1, <2>2, <2>3
    <3>2. CASE j # n + 1
      <4>1. i \in 1 .. Len(toPhone) /\ j \in 1 .. Len(toPhone)
                /\ toPhone'[i] = toPhone[i] /\ toPhone'[j] = toPhone[j]
        BY <3>2, <2>3, <1>3, <1>6
      <4>2. QED
        BY <4>1, <2>3, <1>1 DEF Asked, EraInv, IsView
    <3>3. QED
      BY <3>1, <3>2
  <2>4. EraInv'
    BY <2>2, <2>3, <1>7 DEF EraInv, IsView
  <2>5. QED
    BY <2>1, <2>4 DEF Asked
<1>10. ASSUME NEW k \in 0 .. n, NEW s, NEW b, NEW x
       PROVE  /\ StatusIn(w, k, s, b, x) => StatusIn(v, k, s, b, x)
              /\ PromptIn(w, k, s, b, x) => PromptIn(v, k, s, b, x)
              /\ Carries(w, k, s, b, x) => Carries(v, k, s, b, x)
  BY <1>5, DueInserted
<1>11. ASSUME NEW s \in Entries
       PROVE  /\ StatusIn(v, n + 1, s, status[s], status[s])
              /\ PromptIn(v, n + 1, s, active[s], active[s])
  <2>1. n \in 0 .. n
    BY <1>3
  <2>2. StatusIn(w, n, s, status[s], status[s]) /\ PromptIn(w, n, s, active[s], active[s])
    BY <1>1, <1>2, FreshIsDue
  <2>3. QED
    BY <2>1, <2>2, <1>5, DueInserted
<1>12. ListsDue'
  <2>1. SUFFICES ASSUME linkUp, NEW i \in 1 .. Len(toPhone'),
                        toPhone'[i].kind = "list", NEW s \in announced \cap Entries
                 PROVE  StatusIn(v, i, s, toPhone'[i].list[s], status[s])
    BY <1>2, <1>7 DEF ListsDue
  <2>2. CASE i \in 1 .. n /\ i \in 1 .. Len(toPhone) /\ toPhone'[i] = toPhone[i]
    <3>1. StatusIn(w, i, s, toPhone[i].list[s], status[s]) /\ i \in 0 .. n
      BY <2>1, <2>2, <1>1, <1>2 DEF Due, ListsDue
    <3>2. QED
      BY <3>1, <2>2, <1>10
  <2>3. CASE i = n + 1 /\ toPhone'[i] = a
    <3>1. a.list[s] = status[s]
      BY <2>1, <2>3, <1>4 DEF SessionList, Entries
    <3>2. QED
      BY <3>1, <2>1, <2>3, <1>11
  <2>4. QED
    BY <2>2, <2>3, <1>6
<1>13. ViewsDue'
  <2>1. SUFFICES ASSUME NEW i \in 1 .. Len(toPhone'), toPhone'[i].kind = "view",
                        NEW o, o = toPhone'[i].view,
                        NEW era, era = toPhone'[i].era
                 PROVE  ViewDue(o, era, i)'
    BY DEF ViewsDue, ViewDue, IsView
  <2>2. PICK s : s = o.session
    OBVIOUS
  <2>3. SUFFICES
          /\ o.status \in Live
          /\ linkUp /\ s \in Entries => StatusIn(v, i, s, o.status, status[s])
          /\ era = Era =>
                /\ s \in Entries => PromptIn(v, i, s, o.active, active[s])
                /\ o.mode = "snapshot" => Carries(v, i, s, Last(o.text), written[s])
                /\ o.mode # "snapshot" /\ last[s] = NoSeq =>
                      Carries(v, i, s, NoSeq, written[s])
    BY <2>2, <1>2, <1>7 DEF ViewDue
  <2>4. CASE i \in 1 .. n /\ i \in 1 .. Len(toPhone) /\ toPhone'[i] = toPhone[i]
    <3>1. ViewDue(o, era, i)
      BY <2>1, <2>4, <1>1 DEF Due, ViewsDue, IsView
    <3>2. /\ o.status \in Live
          /\ linkUp /\ s \in Entries => StatusIn(w, i, s, o.status, status[s])
          /\ era = Era =>
                /\ s \in Entries => PromptIn(w, i, s, o.active, active[s])
                /\ o.mode = "snapshot" => Carries(w, i, s, Last(o.text), written[s])
                /\ o.mode # "snapshot" /\ last[s] = NoSeq =>
                      Carries(w, i, s, NoSeq, written[s])
      BY <3>1, <2>2, <1>2 DEF ViewDue
    <3>3. i \in 0 .. n
      BY <2>4
    <3>4. QED
      BY <3>2, <3>3, <1>10
  <2>5. CASE i = n + 1 /\ toPhone'[i] = a
    <3>1. /\ s \in Entries /\ s = q.session /\ q.method # "list"
          /\ o = SubscribeView(s, q.after) /\ era = Era
      BY <2>1, <2>2, <2>5, <1>4
    <3>2. o.status = status[s] /\ o.active = active[s] /\ status[s] \in Live
      BY <3>1 DEF SubscribeView, Entries
    <3>3. StatusIn(v, i, s, o.status, status[s]) /\ PromptIn(v, i, s, o.active, active[s])
      BY <3>1, <3>2, <2>5, <1>11
    <3>4. o.mode = "snapshot" => Carries(v, i, s, Last(o.text), written[s])
      BY <3>1, <1>1, ViewIsComplete DEF Carries
    <3>5. ASSUME o.mode # "snapshot", last[s] = NoSeq
          PROVE  Carries(v, i, s, NoSeq, written[s])
      <4>1. q.method = "subscribe" /\ s \in Sessions
        BY <3>1, <1>3 DEF Request, Entries
      <4>2. q.after = NoSeq
        BY <4>1, <3>1, <3>5, <1>1, <1>3 DEF Asked, AfterKnown
      <4>3. Len(written[s]) = 0
        BY <4>2, <3>1, <3>5, <1>1, ViewIsComplete
      <4>4. QED
        BY <4>3 DEF Carries
    <3>6. QED
      BY <3>2, <3>3, <3>4, <3>5
  <2>6. QED
    BY <2>4, <2>5, <1>6
<1>14. KnownDue'
  <2>1. 0 \in 0 .. n
    BY <1>3
  <2>2. ASSUME NEW s, StatusIn(w, 0, s, known[s], status[s])
        PROVE  StatusIn(v, 0, s, known[s], status[s])
    BY <2>1, <2>2, <1>10
  <2>3. QED
    BY <2>2, <1>1, <1>2, <1>7 DEF Due, KnownDue
<1>15. IntactWhile'
  <2>1. ASSUME intact # {}
        PROVE  /\ linkUp /\ phase = "online"
               /\ \A i \in 1 .. Len(toPhone') : toPhone'[i].kind = "view" =>
                      toPhone'[i].era = Era
    BY <2>1, <1>1, <1>4, <1>6 DEF Due, IntactWhile, IsView
  <2>2. QED
    BY <2>1, <1>7 DEF IntactWhile, IsView
<1>16. IntactDue'
  <2>1. 0 \in 0 .. n
    BY <1>3
  <2>2. ASSUME NEW s
        PROVE  /\ Carries(w, 0, s, last[s], written[s]) =>
                      Carries(v, 0, s, last[s], written[s])
               /\ PromptIn(w, 0, s, shown[s], active[s]) =>
                      PromptIn(v, 0, s, shown[s], active[s])
    BY <2>1, <1>10
  <2>3. QED
    BY <2>2, <1>1, <1>2, <1>7 DEF Due, IntactDue
<1>17. QED
  BY <1>8, <1>9, <1>12, <1>13, <1>14, <1>15, <1>16 DEF Due

-----------------------------------------------------------------------------
(* The phone receives a message: what was due to who had received it is    *)
(* due to the phone.                                                       *)

LEMMA DueShifted ==
    ASSUME NEW w, NEW v, Shifted(w, v), NEW s, NEW b, NEW x
    PROVE  /\ \A k \in 1 .. Len(w) :
                  /\ StatusIn(w, k, s, b, x) => StatusIn(v, k - 1, s, b, x)
                  /\ PromptIn(w, k, s, b, x) => PromptIn(v, k - 1, s, b, x)
                  /\ Carries(w, k, s, b, x) => Carries(v, k - 1, s, b, x)
           /\ ~About(w[1], s, StatusNames) /\ StatusIn(w, 0, s, b, x) =>
                  StatusIn(v, 0, s, b, x)
           /\ ~About(w[1], s, PromptNames) /\ PromptIn(w, 0, s, b, x) =>
                  PromptIn(v, 0, s, b, x)
           /\ ~About(w[1], s, OutputName) /\ Carries(w, 0, s, b, x) =>
                  Carries(v, 0, s, b, x)
<1>1. Len(w) \in Nat \ {0} /\ 0 \in 0 .. Len(w)
  BY DEF Shifted
<1>2. /\ \A k \in 1 .. Len(w) : Lists(w, k, s, b) => Lists(v, k - 1, s, b)
      /\ Lists(w, 0, s, b) /\ ~About(w[1], s, {"session.created", "session.updated"})
            => Lists(v, 0, s, b)
  BY ListsStays
<1>3. /\ \A k \in 1 .. Len(w) : Carries(w, k, s, b, x) => Carries(v, k - 1, s, b, x)
      /\ Carries(w, 0, s, b, x) /\ ~About(w[1], s, OutputName) =>
             Carries(v, 0, s, b, x)
  BY CarriesStays
<1>4. ~About(w[1], s, StatusNames) =>
          ~About(w[1], s, {"session.created", "session.updated"})
  BY DEF About, Of, StatusNames
<1>5. ASSUME NEW N, NEW k \in 1 .. Len(w), Says(w, k, s, N, b, x)
      PROVE  Says(v, k - 1, s, N, b, x)
  <2>1. k \in 0 .. Len(w) /\ k # 0
    BY <1>1
  <2>2. QED
    BY <2>1, <1>5, SaysShifted
<1>6. ASSUME NEW N, Says(w, 0, s, N, b, x), ~About(w[1], s, N)
      PROVE  Says(v, 0, s, N, b, x)
  BY <1>1, <1>6, SaysShifted
<1>7. QED
  BY <1>2, <1>3, <1>4, <1>5, <1>6 DEF StatusIn, PromptIn

LEMMA ReceivedKeeps ==
    ASSUME ChannelInv, Received, UNCHANGED <<daemonVars, linkUp, daemonDrops>>,
           \A s \in Sessions : last'[s] = NoSeq => last[s] = NoSeq
    PROVE  Told' /\ EraInv' /\ ListsDue' /\ ViewsDue'
<1>1. /\ SyncInv /\ Told /\ Asked /\ Due
      /\ \A i \in 1 .. Len(toPhone') :
             i + 1 \in 1 .. Len(toPhone) /\ toPhone'[i] = toPhone[i + 1]
  BY ReceivedAt DEF ChannelInv, AskedInv
<1>2. UNCHANGED <<status, announced, active, events, written, linkUp, Era, Entries>>
  BY DEF daemonVars, Era, Entries
<1>3. PICK w, v : w = Way /\ v = Way'
  OBVIOUS
<1>4. Shifted(w, v) /\ Len(toPhone) \in 1 .. Len(w)
  BY <1>1, <1>2, <1>3, WayShifted
<1>5. Told'
  <2>1. KeepsOrder(w, v, 0, 1) /\ 0 \in Nat /\ 1 \in Int
    BY <1>4, ShiftKeepsOrder
  <2>2. \A i \in 1 .. Len(toPhone') : \E j \in 1 .. Len(toPhone) :
            toPhone[j] = toPhone'[i]
    BY <1>1
  <2>3. QueueAgrees'
    BY <1>1, <1>2, QueueSame
  <2>4. QED
    BY <2>1, <2>2, <2>3, <1>1, <1>2, <1>3, ToldCut
<1>6. EraInv'
  <2>1. \A i \in 1 .. Len(toPhone') : toPhone'[i].kind = "view" =>
            toPhone'[i].era <= Era /\ (toPhone'[i].era = Era => linkUp)
    BY <1>1 DEF Asked, EraInv, IsView
  <2>2. ASSUME NEW i \in 1 .. Len(toPhone'), NEW j \in 1 .. Len(toPhone'), i < j,
               toPhone'[i].kind = "view", toPhone'[j].kind = "view"
        PROVE  toPhone'[i].era <= toPhone'[j].era
    <3>1. PICK k \in 1 .. Len(toPhone), l \in 1 .. Len(toPhone) :
              k < l /\ toPhone'[i] = toPhone[k] /\ toPhone'[j] = toPhone[l]
      <4>1. i + 1 < j + 1
        BY <2>2
      <4>2. QED
        BY <4>1, <1>1
    <3>2. QED
      BY <3>1, <2>2, <1>1 DEF Asked, EraInv, IsView
  <2>3. QED
    BY <2>1, <2>2, <1>2 DEF EraInv, IsView
<1>7. ASSUME NEW i \in 1 .. Len(toPhone')
      PROVE  \E k \in 1 .. Len(w) : k \in 1 .. Len(toPhone) /\ i = k - 1
                                       /\ toPhone'[i] = toPhone[k]
  <2>1. /\ i + 1 \in 1 .. Len(toPhone) /\ i = (i + 1) - 1
        /\ toPhone'[i] = toPhone[i + 1]
    BY <1>1
  <2>2. i + 1 \in 1 .. Len(w)
    BY <2>1, <1>4
  <2>3. QED
    BY <2>1, <2>2
<1>8. ListsDue'
  <2>1. SUFFICES ASSUME linkUp, NEW i \in 1 .. Len(toPhone'),
                        toPhone'[i].kind = "list", NEW s \in announced \cap Entries
                 PROVE  StatusIn(v, i, s, toPhone'[i].list[s], status[s])
    BY <1>2, <1>3 DEF ListsDue
  <2>2. PICK k \in 1 .. Len(w) : k \in 1 .. Len(toPhone) /\ i = k - 1
                                    /\ toPhone'[i] = toPhone[k]
    BY <1>7
  <2>3. StatusIn(w, k, s, toPhone[k].list[s], status[s])
    BY <2>1, <2>2, <1>1, <1>3 DEF Due, ListsDue
  <2>4. StatusIn(v, k - 1, s, toPhone[k].list[s], status[s])
    BY <2>3, <1>4, DueShifted
  <2>5. QED
    BY <2>2, <2>4
<1>9. ViewsDue'
  <2>1. SUFFICES ASSUME NEW i \in 1 .. Len(toPhone'), toPhone'[i].kind = "view",
                        NEW o, o = toPhone'[i].view,
                        NEW era, era = toPhone'[i].era
                 PROVE  ViewDue(o, era, i)'
    BY DEF ViewsDue, ViewDue, IsView
  <2>2. PICK s : s = o.session
    OBVIOUS
  <2>3. PICK k \in 1 .. Len(w) : k \in 1 .. Len(toPhone) /\ i = k - 1
                                    /\ toPhone'[i] = toPhone[k]
    BY <1>7
  <2>4. ViewDue(o, era, k)
    BY <2>1, <2>3, <1>1 DEF Due, ViewsDue, IsView
  <2>5. s \in Sessions
    <3>1. toPhone[k] \in Message
      BY <2>3, <1>1, PhaseValues
    <3>2. QED
      BY <3>1, <2>1, <2>2, <2>3, MessageKinds
  <2>6. /\ o.status \in Live
        /\ linkUp /\ s \in Entries => StatusIn(w, k, s, o.status, status[s])
        /\ era = Era =>
              /\ s \in Entries => PromptIn(w, k, s, o.active, active[s])
              /\ o.mode = "snapshot" => Carries(w, k, s, Last(o.text), written[s])
              /\ o.mode # "snapshot" /\ last[s] = NoSeq =>
                    Carries(w, k, s, NoSeq, written[s])
    BY <2>2, <2>4, <1>3 DEF ViewDue
  <2>7. ASSUME NEW b, NEW x
        PROVE  /\ StatusIn(w, k, s, b, x) => StatusIn(v, i, s, b, x)
               /\ PromptIn(w, k, s, b, x) => PromptIn(v, i, s, b, x)
               /\ Carries(w, k, s, b, x) => Carries(v, i, s, b, x)
    BY <2>3, <1>4, DueShifted
  <2>8. last'[s] = NoSeq => last[s] = NoSeq
    BY <2>5
  <2>9. QED
    BY <2>2, <2>6, <2>7, <2>8, <1>2, <1>3 DEF ViewDue
<1>10. QED
  BY <1>5, <1>6, <1>8, <1>9

\* The head event has been heard: what was known of the session it is about.
LEMMA StatusTaken ==
    ASSUME NEW w, NEW v, Shifted(w, v), AllPlausible(w), Pushed(w[1]),
           NEW s, NEW b, NEW c, NEW x, Of(w[1].event, s, StatusNames),
           StatusIn(w, 0, s, b, x),
           c = IF w[1].event.event # "session.ended" THEN w[1].event.status
               ELSE IF b = "absent" THEN "absent" ELSE "stopped"
    PROVE  StatusIn(v, 0, s, c, x)
<1>1. PICK e : e = w[1].event
  OBVIOUS
<1>2. /\ Len(w) \in Nat \ {0} /\ Len(v) = Len(w) - 1 /\ 0 \in 0 .. Len(w)
      /\ \A p \in 1 .. Len(v) : v[p] = w[p + 1]
  BY DEF Shifted
<1>3. About(w[1], s, StatusNames)
  BY DEF About
<1>4. Says(w, 0, s, StatusNames, b, x) /\ Lists(w, 0, s, b)
  BY DEF StatusIn
<1>5. /\ Says(v, 0, s, StatusNames, What(w[1].event), x)
      /\ (\E p \in 1 .. Len(v) : About(v[p], s, StatusNames)) =>
             \A any : Says(v, 0, s, StatusNames, any, x)
  BY <1>2, <1>3, <1>4, SaysShifted
<1>6. What(w[1].event) = e.status
  BY <1>1, <1>3 DEF What, About, Of, StatusNames, PromptNames
<1>7. e.status \in Live /\ (e.event = "session.ended" => e.status = "stopped")
  <2>1. 1 \in 1 .. Len(w)
    BY <1>2
  <2>2. Plausible(e) /\ e.event \in StatusNames
    BY <2>1, <1>1 DEF AllPlausible, Of
  <2>3. QED
    BY <2>2 DEF Plausible
<1>8. CASE c = e.status
  <2>1. c # "absent"
    BY <1>7, <1>8 DEF Live
  <2>2. QED
    BY <2>1, <1>1, <1>5, <1>6, <1>8 DEF StatusIn, Lists
<1>9. CASE c # e.status
  <2>1. e.event = "session.ended" /\ b = "absent" /\ c = "absent"
    BY <1>1, <1>7, <1>9
  <2>2. PICK p \in 0 + 1 .. Len(w) :
            About(w[p], s, {"session.created", "session.updated"})
    BY <2>1, <1>4 DEF Lists
  <2>3. p # 1
    BY <2>1, <2>2, <1>1 DEF About, Of
  <2>4. PICK r \in 1 .. Len(v) : v[r] = w[p]
    <3>1. p - 1 \in 1 .. Len(v) /\ (p - 1) + 1 = p
      BY <2>2, <2>3, <1>2
    <3>2. QED
      BY <3>1, <1>2
  <2>5. About(v[r], s, {"session.created", "session.updated"})
    BY <2>2, <2>4
  <2>6. About(v[r], s, StatusNames)
    BY <2>5 DEF About, Of, StatusNames
  <2>7. Says(v, 0, s, StatusNames, c, x)
    BY <2>6, <1>5
  <2>8. r \in 0 + 1 .. Len(v)
    BY <2>4
  <2>9. QED
    BY <2>5, <2>7, <2>8 DEF StatusIn, Lists
<1>10. QED
  BY <1>8, <1>9

LEMMA PromptTaken ==
    ASSUME NEW w, NEW v, Shifted(w, v), Pushed(w[1]), NEW s, NEW b, NEW x,
           Of(w[1].event, s, PromptNames), PromptIn(w, 0, s, b, x)
    PROVE  PromptIn(v, 0, s, IF w[1].event.event = "interaction.requested"
                             THEN w[1].event.n ELSE 0, x)
<1>1. 0 \in 0 .. Len(w) /\ About(w[1], s, PromptNames)
  BY DEF About, Shifted
<1>2. Says(v, 0, s, PromptNames, What(w[1].event), x)
  BY <1>1, SaysShifted DEF PromptIn
<1>3. What(w[1].event) = IF w[1].event.event = "interaction.requested"
                         THEN w[1].event.n ELSE 0
  BY DEF What, Of
<1>4. QED
  BY <1>2, <1>3 DEF PromptIn

\* Outputs after the head, or after what came later, are still to come.
LEMMA OutputTaken ==
    ASSUME NEW w, NEW v, Shifted(w, v), NEW s, NEW h \in Seq(Nat),
           NEW n \in Nat, w[1].event.n = n,
           NEW b \in Nat \cup {NoSeq}, NEW c \in Nat, c >= b, c >= n,
           Carries(w, 0, s, b, h)
    PROVE  Carries(v, 0, s, c, h)
<1>1. /\ Len(w) \in Nat \ {0} /\ Len(v) = Len(w) - 1
      /\ \A p \in 1 .. Len(v) : v[p] = w[p + 1]
  BY DEF Shifted
<1>2. b \in Int
  BY DEF NoSeq
<1>3. SUFFICES ASSUME NEW j \in 1 .. Len(h), h[j] > c
               PROVE  \E p \in 0 + 1 .. Len(v) :
                          About(v[p], s, OutputName) /\ v[p].event.n = h[j]
  BY DEF Carries
<1>4. h[j] \in Nat
  BY ElementOfSeq
<1>5. h[j] > b /\ h[j] > n
  BY <1>2, <1>3, <1>4
<1>6. PICK p \in 0 + 1 .. Len(w) :
          About(w[p], s, OutputName) /\ w[p].event.n = h[j]
  BY <1>5 DEF Carries
<1>7. p # 1
  BY <1>4, <1>5, <1>6
<1>8. p - 1 \in 0 + 1 .. Len(v) /\ p - 1 \in 1 .. Len(v) /\ (p - 1) + 1 = p
  BY <1>1, <1>6, <1>7
<1>9. v[p - 1] = w[p]
  BY <1>1, <1>8
<1>10. QED
  BY <1>6, <1>8, <1>9

\* An output that is newer than the terminal is the next one of its history.
LEMMA RunTaken ==
    ASSUME SyncInv, Told, NEW s \in Sessions, NEW n, n = Way[1].event.n,
           Len(Way) > 0, About(Way[1], s, OutputName), n > last[s],
           Carries(Way, 0, s, last[s], written[s]), RunOf(text[s], written[s])
    PROVE  RunOf(Trim(Append(text[s], n)), written[s])
<1>1. PICK t, h : t = text[s] /\ h = written[s]
  OBVIOUS
<1>2. /\ t \in Seq(Nat) /\ h \in Seq(Nat) /\ Increasing(h) /\ RunOf(t, h)
      /\ last[s] = IF t = <<>> THEN NoSeq ELSE Last(t)
      /\ \A j \in 1 .. Len(h) : h[j] \in Nat
  <2>1. t \in Seq(Nat) /\ h \in Seq(Nat)
    BY <1>1 DEF SyncInv, TypeOK, RegistryTypeOK, PhoneTypeOK
  <2>2. Increasing(h) /\ last[s] = IF t = <<>> THEN NoSeq ELSE Last(t)
    BY <1>1 DEF Told, HistoryRises, SyncInv, TranscriptOrdered
  <2>3. QED
    BY <1>1, <2>1, <2>2, ElementOfSeq
<1>3. Len(Way) \in Nat /\ 1 \in 1 .. Len(Way)
  BY OnWay
<1>4. PICK l \in 1 .. Len(h) : n = h[l]
  BY <1>1, <1>3, WaySound
<1>5. ASSUME t # <<>>, NEW j \in 1 .. Len(h), h[j] > Last(t)
      PROVE  h[j] >= n
  <2>1. h[j] > last[s]
    BY <1>2, <1>5
  <2>2. PICK p \in 0 + 1 .. Len(Way) :
            About(Way[p], s, OutputName) /\ Way[p].event.n = h[j]
    BY <2>1, <1>1 DEF Carries
  <2>3. CASE p = 1
    <3>1. h[j] = n
      BY <2>2, <2>3
    <3>2. h[j] \in Nat
      BY <1>2
    <3>3. QED
      BY <3>1, <3>2
  <2>4. CASE p # 1
    <3>1. 1 < p /\ p \in 1 .. Len(Way)
      BY <2>2, <2>4
    <3>2. Way[1].event.n < Way[p].event.n
      BY <3>1, <2>2, <1>3 DEF Told, InOrder, Mounting
    <3>3. n < h[j] /\ n \in Nat /\ h[j] \in Nat
      BY <3>2, <2>2, <1>2, <1>4
    <3>4. QED
      BY <3>3
  <2>5. QED
    BY <2>3, <2>4
<1>6. RunOf(Append(t, n), h)
  <2>1. t # <<>> => h[l] > Last(t)
    BY <1>2, <1>4
  <2>2. t # <<>> => \A j \in 1 .. Len(h) : h[j] > Last(t) => h[j] >= h[l]
    BY <1>4, <1>5
  <2>3. RunOf(Append(t, h[l]), h)
    BY <2>1, <2>2, <1>2, RunGoesOn
  <2>4. QED
    BY <2>3, <1>4
<1>7. Append(t, n) \in Seq(Nat)
  BY <1>2, <1>4, AppendNat
<1>8. RunOf(Trim(Append(t, n)), h)
  BY <1>2, <1>6, <1>7, RunTrimmed
<1>9. QED
  BY <1>1, <1>8

\* What receiveEvent does, session by session.
LEMMA EventTaken ==
    ASSUME SyncInv, NEW e \in Event, ReceiveEvent(e)
    PROVE  /\ \A s \in Sessions :
                 known'[s] = IF Of(e, s, StatusNames)
                             THEN IF e.event # "session.ended" THEN e.status
                                  ELSE IF known[s] = "absent" THEN "absent"
                                       ELSE "stopped"
                             ELSE known[s]
           /\ \A s \in Sessions :
                 shown'[s] = IF Of(e, s, PromptNames)
                             THEN IF e.event = "interaction.requested" THEN e.n ELSE 0
                             ELSE shown[s]
           /\ \A s \in Sessions :
                 IF Of(e, s, OutputName) /\ e.n > last[s]
                 THEN text'[s] = Trim(Append(text[s], e.n)) /\ last'[s] = e.n
                 ELSE text'[s] = text[s] /\ last'[s] = last[s]
<1>1. /\ e.session \in Sessions
      /\ known \in [Sessions -> Status] /\ shown \in [Sessions -> Nat]
      /\ text \in [Sessions -> Seq(Nat)] /\ last \in [Sessions -> Nat \cup {NoSeq}]
  BY DEF Event, SyncInv, TypeOK, PhoneTypeOK
<1>2. CASE e.event = "terminal.output" /\ ReduceOutput(e)
  <2>1. \A s \in Sessions : /\ ~Of(e, s, StatusNames) /\ ~Of(e, s, PromptNames)
                            /\ Of(e, s, OutputName) <=> s = e.session
    BY <1>2 DEF Of, StatusNames, PromptNames, OutputName
  <2>2. UNCHANGED <<known, shown>>
    BY <1>2 DEF ReduceOutput
  <2>3. CASE /\ e.n > last[e.session]
             /\ text' = [text EXCEPT ![e.session] = Trim(Append(@, e.n))]
             /\ last' = [last EXCEPT ![e.session] = e.n]
    BY <2>1, <2>2, <2>3, <1>1
  <2>4. CASE ~(e.n > last[e.session]) /\ UNCHANGED <<text, last>>
    BY <2>1, <2>2, <2>4, <1>1
  <2>5. QED
    BY <2>3, <2>4, <1>2 DEF ReduceOutput, IsNew
<1>3. CASE e.event \in {"session.created", "session.updated"} /\ ReduceSession(e)
  <2>1. \A s \in Sessions : /\ ~Of(e, s, OutputName) /\ ~Of(e, s, PromptNames)
                            /\ Of(e, s, StatusNames) <=> s = e.session
                            /\ e.event # "session.ended"
    BY <1>3 DEF Of, StatusNames, PromptNames, OutputName
  <2>2. QED
    BY <2>1, <1>1, <1>3 DEF ReduceSession
<1>4. CASE e.event = "session.ended" /\ ReduceEnded(e)
  <2>1. \A s \in Sessions : /\ ~Of(e, s, OutputName) /\ ~Of(e, s, PromptNames)
                            /\ Of(e, s, StatusNames) <=> s = e.session
    BY <1>4 DEF Of, StatusNames, PromptNames, OutputName
  <2>2. QED
    BY <2>1, <1>1, <1>4 DEF ReduceEnded
<1>5. CASE /\ e.event \in {"interaction.requested", "interaction.resolved"}
           /\ ReduceInteraction(e)
  <2>1. \A s \in Sessions : /\ ~Of(e, s, OutputName) /\ ~Of(e, s, StatusNames)
                            /\ Of(e, s, PromptNames) <=> s = e.session
    BY <1>5 DEF Of, StatusNames, PromptNames, OutputName
  <2>2. QED
    BY <2>1, <1>1, <1>5 DEF ReduceInteraction
<1>6. QED
  BY <1>2, <1>3, <1>4, <1>5 DEF ReceiveEvent

LEMMA PushedKeeps ==
    ASSUME ChannelInv, ReceivePushed
    PROVE  Told' /\ Asked' /\ Due'
<1>1. /\ SyncInv /\ TypeOK /\ Told /\ Asked /\ Due /\ Received
      /\ Head(toPhone) = toPhone[1] /\ Head(toPhone) \in Message
      /\ 1 \in 1 .. Len(toPhone)
      /\ \A i \in 1 .. Len(toPhone') :
             i + 1 \in 1 .. Len(toPhone) /\ toPhone'[i] = toPhone[i + 1]
  BY ReceivedAt DEF ChannelInv, AskedInv, SyncInv, ReceivePushed
<1>2. /\ UNCHANGED <<daemonVars, linkUp, daemonDrops, phase, toDaemon, intact>>
      /\ UNCHANGED <<status, announced, active, events, written, Era, Entries>>
  BY DEF ReceivePushed, daemonVars, Era, Entries
<1>3. PICK w, v, e : w = Way /\ v = Way' /\ e = Head(toPhone).event
  OBVIOUS
<1>4. /\ Shifted(w, v) /\ w[1] = Head(toPhone) /\ Pushed(w[1]) /\ w[1].event = e
      /\ e \in Event /\ e.n \in Nat
  <2>1. Head(toPhone).kind = "event"
    BY DEF ReceivePushed
  <2>2. e \in Event /\ e.n \in Nat
    BY <2>1, <1>1, <1>3 DEF Message, Event
  <2>3. QED
    BY <2>1, <2>2, <1>1, <1>2, <1>3, WayShifted DEF Pushed
<1>5. \A s, N : About(w[1], s, N) <=> Of(e, s, N)
  BY <1>4 DEF About
<1>6. Len(w) \in Nat \ {0} /\ Len(w) > 0
  BY <1>4 DEF Shifted
<1>7. \/ phase = "online" /\ ReceiveEvent(e) /\ UNCHANGED skipped
      \/ /\ phase # "online" /\ UNCHANGED phoneVars
         /\ skipped' = IF e.event \in StatusNames
                       THEN skipped \cup {e.session} ELSE skipped
  BY <1>3 DEF ReceivePushed, StatusNames
<1>8. \A s \in Sessions : last'[s] = NoSeq => last[s] = NoSeq
  <2>1. CASE ReceiveEvent(e)
    <3>1. e.n # NoSeq
      BY <1>4 DEF NoSeq
    <3>2. QED
      BY <3>1, <2>1, <1>1, <1>4, EventTaken
  <2>2. CASE UNCHANGED phoneVars
    BY <2>2 DEF phoneVars
  <2>3. QED
    BY <2>1, <2>2, <1>7
<1>9. Told' /\ EraInv' /\ ListsDue' /\ ViewsDue'
  BY <1>1, <1>2, <1>8, ReceivedKeeps
<1>10. AfterKnown'
  BY <1>1, <1>2, <1>8 DEF Asked, AfterKnown
<1>11. \A s \in intact : s \in Sessions
  BY <1>1 DEF TypeOK
<1>12. KnownDue'
  <2>1. SUFFICES ASSUME linkUp, phase \in {"subscribing", "online"},
                        NEW s \in Entries, s \in (announced \ skipped') \cup intact
                 PROVE  StatusIn(v, 0, s, known'[s], status[s])
    BY <1>2, <1>3 DEF KnownDue
  <2>2. s \in Sessions
    BY DEF Entries
  <2>3. s \in (announced \ skipped) \cup intact
    BY <2>1, <1>7
  <2>4. StatusIn(w, 0, s, known[s], status[s])
    BY <2>1, <2>3, <1>1, <1>3 DEF Due, KnownDue
  <2>5. CASE ~Of(e, s, StatusNames)
    <3>1. known'[s] = known[s]
      BY <2>2, <2>5, <1>1, <1>4, <1>7, EventTaken DEF phoneVars
    <3>2. StatusIn(v, 0, s, known[s], status[s])
      BY <2>4, <2>5, <1>4, <1>5, DueShifted
    <3>3. QED
      BY <3>1, <3>2
  <2>6. CASE Of(e, s, StatusNames)
    <3>1. phase = "online"
      <4>1. SUFFICES ASSUME phase # "online" PROVE FALSE
        OBVIOUS
      <4>2. intact = {}
        BY <4>1, <1>1 DEF Due, IntactWhile
      <4>3. s \in skipped'
        BY <4>1, <2>6, <1>7 DEF Of
      <4>4. QED
        BY <4>2, <4>3, <2>1
    <3>2. PICK c : c = known'[s]
      OBVIOUS
    <3>3. c = IF e.event # "session.ended" THEN e.status
              ELSE IF known[s] = "absent" THEN "absent" ELSE "stopped"
      BY <3>1, <3>2, <2>2, <2>6, <1>1, <1>4, <1>7, EventTaken
    <3>4. AllPlausible(w) /\ Of(w[1].event, s, StatusNames)
      BY <2>6, <1>1, <1>3, <1>4 DEF Told, InOrder
    <3>5. c = IF w[1].event.event # "session.ended" THEN w[1].event.status
              ELSE IF known[s] = "absent" THEN "absent" ELSE "stopped"
      BY <3>3, <1>4
    <3>6. StatusIn(v, 0, s, c, status[s])
      BY <3>4, <3>5, <2>4, <1>4, StatusTaken
    <3>7. QED
      BY <3>2, <3>6
  <2>7. QED
    BY <2>5, <2>6
<1>13. IntactWhile'
  BY <1>1, <1>2 DEF Due, IntactWhile, IsView
<1>14. IntactDue'
  <2>1. SUFFICES ASSUME NEW s \in intact
                 PROVE  /\ status[s] # "absent"
                        /\ RunOf(text'[s], written[s])
                        /\ Carries(v, 0, s, last'[s], written[s])
                        /\ s \in Entries => PromptIn(v, 0, s, shown'[s], active[s])
    BY <1>2, <1>3 DEF IntactDue
  <2>2. /\ status[s] # "absent" /\ RunOf(text[s], written[s])
        /\ Carries(w, 0, s, last[s], written[s])
        /\ s \in Entries => PromptIn(w, 0, s, shown[s], active[s])
        /\ s \in Sessions /\ phase = "online"
    BY <1>1, <1>3, <1>11 DEF Due, IntactDue, IntactWhile
  <2>3. ReceiveEvent(e)
    BY <2>2, <1>7
  <2>4. /\ written[s] \in Seq(Nat) /\ last[s] \in Nat \cup {NoSeq}
    BY <2>2, <1>1 DEF TypeOK, RegistryTypeOK, PhoneTypeOK
  <2>5. RunOf(text'[s], written[s]) /\ Carries(v, 0, s, last'[s], written[s])
    <3>1. CASE ~Of(e, s, OutputName)
      <4>1. text'[s] = text[s] /\ last'[s] = last[s]
        BY <3>1, <2>2, <2>3, <1>1, <1>4, EventTaken
      <4>2. Carries(v, 0, s, last[s], written[s])
        BY <3>1, <2>2, <1>4, <1>5, DueShifted
      <4>3. QED
        BY <4>1, <4>2, <2>2
    <3>2. CASE Of(e, s, OutputName) /\ e.n > last[s]
      <4>1. text'[s] = Trim(Append(text[s], e.n)) /\ last'[s] = e.n
        BY <3>2, <2>2, <2>3, <1>1, <1>4, EventTaken
      <4>2. e.n >= last[s] /\ e.n >= e.n
        BY <3>2, <2>4, <1>4 DEF NoSeq
      <4>3. Carries(v, 0, s, e.n, written[s])
        BY <4>2, <2>2, <2>4, <1>4, OutputTaken
      <4>4. About(Way[1], s, OutputName) /\ e.n = Way[1].event.n /\ Len(Way) > 0
        BY <3>2, <1>3, <1>4, <1>5, <1>6
      <4>5. RunOf(Trim(Append(text[s], e.n)), written[s])
        BY <4>4, <3>2, <2>2, <1>1, <1>3, RunTaken
      <4>6. QED
        BY <4>1, <4>3, <4>5
    <3>3. CASE Of(e, s, OutputName) /\ ~(e.n > last[s])
      <4>1. text'[s] = text[s] /\ last'[s] = last[s]
        BY <3>3, <2>2, <2>3, <1>1, <1>4, EventTaken
      <4>2. PICK c : c = last[s]
        OBVIOUS
      <4>3. c \in Nat /\ c >= c /\ c >= e.n
        BY <4>2, <3>3, <2>4, <1>4 DEF NoSeq
      <4>4. Carries(v, 0, s, c, written[s])
        <5>1. c \in Nat \cup {NoSeq} /\ Carries(w, 0, s, c, written[s])
          BY <4>2, <2>2, <2>4
        <5>2. QED
          BY <5>1, <4>3, <2>4, <1>4, OutputTaken
      <4>5. QED
        BY <4>1, <4>2, <4>4, <2>2
    <3>4. QED
      BY <3>1, <3>2, <3>3
  <2>6. s \in Entries => PromptIn(v, 0, s, shown'[s], active[s])
    <3>1. SUFFICES ASSUME s \in Entries
                   PROVE  PromptIn(v, 0, s, shown'[s], active[s])
      OBVIOUS
    <3>2. PICK x, y : x = active[s] /\ y = shown'[s]
      OBVIOUS
    <3>3. PromptIn(w, 0, s, shown[s], x)
      BY <3>1, <3>2, <2>2
    <3>4. CASE ~Of(e, s, PromptNames)
      <4>1. y = shown[s]
        BY <3>2, <3>4, <2>2, <2>3, <1>1, <1>4, EventTaken
      <4>2. PromptIn(v, 0, s, shown[s], x)
        BY <3>3, <3>4, <1>4, <1>5, DueShifted
      <4>3. QED
        BY <4>1, <4>2, <3>2
    <3>5. CASE Of(e, s, PromptNames)
      <4>1. y = IF e.event = "interaction.requested" THEN e.n ELSE 0
        BY <3>2, <3>5, <2>2, <2>3, <1>1, <1>4, EventTaken
      <4>2. Of(w[1].event, s, PromptNames)
        BY <3>5, <1>4
      <4>3. PromptIn(v, 0, s, IF w[1].event.event = "interaction.requested"
                              THEN w[1].event.n ELSE 0, x)
        BY <4>2, <3>3, <1>4, PromptTaken
      <4>4. QED
        BY <4>1, <4>3, <3>2, <1>4
    <3>6. QED
      BY <3>4, <3>5
  <2>7. QED
    BY <2>2, <2>5, <2>6
<1>15. QED
  BY <1>9, <1>10, <1>12, <1>13, <1>14 DEF Asked, Due

\* Anything else than an event leaves what is due to who does not take it.
LEMMA StillDue ==
    ASSUME ChannelInv, Received, ~Pushed(Head(toPhone)), UNCHANGED events,
           NEW s, NEW b, NEW x
    PROVE  /\ StatusIn(Way, 0, s, b, x) => StatusIn(Way', 0, s, b, x)
           /\ PromptIn(Way, 0, s, b, x) => PromptIn(Way', 0, s, b, x)
           /\ Carries(Way, 0, s, b, x) => Carries(Way', 0, s, b, x)
           /\ Len(toPhone) \in Nat /\ Way[1] = toPhone[1]
           /\ StatusIn(Way, 1, s, b, x) => StatusIn(Way', 0, s, b, x)
           /\ PromptIn(Way, 1, s, b, x) => PromptIn(Way', 0, s, b, x)
           /\ Carries(Way, 1, s, b, x) => Carries(Way', 0, s, b, x)
<1>1. SyncInv /\ Head(toPhone) = toPhone[1] /\ Len(toPhone) \in Nat
  BY ReceivedAt DEF ChannelInv, AskedInv
<1>2. PICK w, v : w = Way /\ v = Way'
  OBVIOUS
<1>3. Shifted(w, v) /\ w[1] = Head(toPhone) /\ Len(toPhone) \in 1 .. Len(w)
  BY <1>1, <1>2, WayShifted
<1>4. \A N : ~About(w[1], s, N)
  BY <1>3 DEF About
<1>5. 1 \in 1 .. Len(w) /\ 1 - 1 = 0
  BY <1>3 DEF Shifted
<1>6. /\ StatusIn(w, 0, s, b, x) => StatusIn(v, 0, s, b, x)
      /\ PromptIn(w, 0, s, b, x) => PromptIn(v, 0, s, b, x)
      /\ Carries(w, 0, s, b, x) => Carries(v, 0, s, b, x)
  BY <1>3, <1>4, DueShifted
<1>7. /\ StatusIn(w, 1, s, b, x) => StatusIn(v, 1 - 1, s, b, x)
      /\ PromptIn(w, 1, s, b, x) => PromptIn(v, 1 - 1, s, b, x)
      /\ Carries(w, 1, s, b, x) => Carries(v, 1 - 1, s, b, x)
  BY <1>3, <1>5, DueShifted
<1>8. QED
  BY <1>1, <1>2, <1>3, <1>5, <1>6, <1>7

\* An answer the phone has no use for, or an error.
LEMMA PassedKeeps ==
    ASSUME ChannelInv, Received, ~Pushed(Head(toPhone)),
           UNCHANGED <<daemonVars, phoneVars, linkUp, daemonDrops, toDaemon,
                       intact, skipped>>,
           UNCHANGED phase \/ (phase \in {"listing", "subscribing"}
                                  /\ phase' \in {"away", "recovery"})
    PROVE  Told' /\ Asked' /\ Due'
<1>1. /\ SyncInv /\ Told /\ Asked /\ Due
      /\ \A i \in 1 .. Len(toPhone') :
             i + 1 \in 1 .. Len(toPhone) /\ toPhone'[i] = toPhone[i + 1]
  BY ReceivedAt DEF ChannelInv, AskedInv
<1>2. UNCHANGED <<status, announced, active, events, written, known, text, last,
                  shown, Era, Entries>>
  BY DEF daemonVars, phoneVars, Era, Entries
<1>3. Told' /\ EraInv' /\ ListsDue' /\ ViewsDue'
  BY <1>2, ReceivedKeeps
<1>4. AfterKnown'
  BY <1>1, <1>2 DEF Asked, AfterKnown
<1>5. KnownDue'
  <2>1. CASE UNCHANGED phase
    <3>1. SUFFICES ASSUME linkUp, phase \in {"subscribing", "online"},
                          NEW s \in Entries, s \in (announced \ skipped) \cup intact
                   PROVE  StatusIn(Way', 0, s, known[s], status[s])
      BY <2>1, <1>2 DEF KnownDue
    <3>2. StatusIn(Way, 0, s, known[s], status[s])
      BY <3>1, <1>1 DEF Due, KnownDue
    <3>3. QED
      BY <3>2, <1>2, StillDue
  <2>2. CASE phase' \in {"away", "recovery"}
    BY <2>2 DEF KnownDue
  <2>3. QED
    BY <2>1, <2>2
<1>6. IntactWhile'
  <2>1. CASE UNCHANGED phase
    BY <2>1, <1>1, <1>2 DEF Due, IntactWhile, IsView
  <2>2. CASE phase \in {"listing", "subscribing"}
    BY <2>2, <1>1 DEF Due, IntactWhile
  <2>3. QED
    BY <2>1, <2>2
<1>7. IntactDue'
  <2>1. SUFFICES ASSUME NEW s \in intact
                 PROVE  /\ status[s] # "absent"
                        /\ RunOf(text[s], written[s])
                        /\ Carries(Way', 0, s, last[s], written[s])
                        /\ s \in Entries => PromptIn(Way', 0, s, shown[s], active[s])
    BY <1>2 DEF IntactDue
  <2>2. /\ status[s] # "absent" /\ RunOf(text[s], written[s])
        /\ Carries(Way, 0, s, last[s], written[s])
        /\ s \in Entries => PromptIn(Way, 0, s, shown[s], active[s])
    BY <1>1 DEF Due, IntactDue
  <2>3. QED
    BY <2>2, <1>2, StillDue
<1>8. QED
  BY <1>3, <1>4, <1>5, <1>6, <1>7 DEF Asked, Due

LEMMA ErrorKeeps ==
    ASSUME ChannelInv, ReceiveError
    PROVE  Told' /\ Asked' /\ Due'
<1>1. /\ Received /\ ~Pushed(Head(toPhone)) /\ Head(toPhone).kind # "list"
      /\ UNCHANGED <<daemonVars, phoneVars, linkUp, daemonDrops, toDaemon, intact,
                     skipped>>
      /\ \/ Head(toPhone).by = "sync" /\ phase' \in {"away", "recovery"}
         \/ Head(toPhone).by = "open" /\ UNCHANGED phase
  BY DEF ReceiveError, Pushed, historyVars
<1>2. AskedInv
  BY DEF ChannelInv
<1>3. Head(toPhone).by = "sync" => phase \in {"listing", "subscribing"}
  BY <1>1, <1>2, AnsweredPhase
<1>4. QED
  BY <1>1, <1>3, PassedKeeps

LEMMA ListKeeps ==
    ASSUME ChannelInv, ReceiveList
    PROVE  Told' /\ Asked' /\ Due'
<1>1. /\ Received /\ Head(toPhone).kind = "list" /\ phase = "listing"
      /\ known' = Head(toPhone).list /\ skipped' = {}
      /\ UNCHANGED <<daemonVars, linkUp, daemonDrops, intact, last, text, shown>>
      /\ UNCHANGED <<status, announced, active, events, written, Era, Entries>>
  BY DEF ReceiveList, ListReceived, daemonVars, Era, Entries
<1>2. /\ SyncInv /\ AskedInv /\ Told /\ Asked /\ Due
      /\ Head(toPhone) = toPhone[1] /\ 1 \in 1 .. Len(toPhone)
  BY <1>1, ReceivedAt DEF ChannelInv, AskedInv
<1>3. Told' /\ EraInv' /\ ListsDue' /\ ViewsDue'
  BY <1>1, ReceivedKeeps
<1>4. toDaemon = <<>>
  BY <1>1, <1>2, SyncAnswered DEF Pushed
<1>5. AfterKnown'
  <2>1. CASE UNCHANGED toDaemon
    BY <2>1, <1>1, <1>2 DEF Asked, AfterKnown
  <2>2. CASE ~UNCHANGED toDaemon
    <3>1. PICK q : q = [method |-> "subscribe", session |-> open,
                        after |-> last[open], by |-> "sync"]
      OBVIOUS
    <3>2. toDaemon' = Append(<<>>, q)
      BY <3>1, <2>2, <1>4 DEF ReceiveList
    <3>3. toDaemon' = <<q>>
      BY <3>2
    <3>4. \A i \in 1 .. Len(toDaemon') : toDaemon'[i] = q
      BY <3>3
    <3>5. q.session = open /\ q.after = last[open]
      BY <3>1
    <3>6. QED
      BY <3>4, <3>5, <1>1 DEF AfterKnown
  <2>3. QED
    BY <2>1, <2>2
<1>6. intact = {}
  BY <1>1, <1>2 DEF Due, IntactWhile
<1>7. KnownDue'
  <2>1. SUFFICES ASSUME linkUp, NEW s \in announced \cap Entries
                 PROVE  StatusIn(Way', 0, s, known'[s], status[s])
    BY <1>1, <1>6 DEF KnownDue
  <2>2. PICK c : c = toPhone[1].list[s]
    OBVIOUS
  <2>3. StatusIn(Way, 1, s, c, status[s])
    BY <2>1, <2>2, <1>1, <1>2 DEF Due, ListsDue
  <2>4. StatusIn(Way', 0, s, c, status[s])
    BY <2>3, <1>1, StillDue DEF Pushed
  <2>5. QED
    BY <2>2, <2>4, <1>1, <1>2
<1>8. IntactWhile' /\ IntactDue'
  BY <1>1, <1>6 DEF IntactWhile, IntactDue
<1>9. QED
  BY <1>3, <1>5, <1>7, <1>8 DEF Asked, Due

LEMMA OpenKeeps ==
    ASSUME ChannelInv, NEW o \in Sessions, OpenSession(o)
    PROVE  Told' /\ Asked' /\ Due'
<1>1. /\ SyncInv /\ Told /\ Asked /\ Due
  BY DEF ChannelInv, AskedInv
<1>2. UNCHANGED <<status, announced, active, events, written, known, text, last,
                  shown, linkUp, phase, toPhone, intact, skipped, Era, Entries, Way>>
  BY DEF OpenSession, Opened, daemonVars, historyVars, Era, Entries, Way
<1>3. Told' /\ EraInv' /\ Due'
  BY <1>1, <1>2 DEF Told, InOrder, Unborn, HistoryRises, QueueAgrees, Asked, EraInv,
     IsView, Due, ListsDue, ViewsDue, ViewDue, KnownDue, IntactWhile, IntactDue
<1>4. AfterKnown'
  <2>1. CASE UNCHANGED toDaemon
    BY <2>1, <1>1, <1>2 DEF Asked, AfterKnown
  <2>2. CASE ~UNCHANGED toDaemon
    <3>1. PICK q : q = [method |-> "subscribe", session |-> o,
                        after |-> IF open = o THEN last[o] ELSE NoSeq,
                        by |-> "open"]
      OBVIOUS
    <3>2. toDaemon' = Append(toDaemon, q)
      BY <3>1, <2>2 DEF OpenSession
    <3>3. PICK S : S = Request \cup {q}
      OBVIOUS
    <3>4. toDaemon \in Seq(S) /\ q \in S
      BY <3>3, <1>1, PhaseValues, SeqMonotonic
    <3>5. \A i \in 1 .. Len(toDaemon') :
              (i \in 1 .. Len(toDaemon) /\ toDaemon'[i] = toDaemon[i])
                  \/ toDaemon'[i] = q
      BY <3>2, <3>4, AppendAt
    <3>6. q.session = o /\ (q.after # NoSeq => last[o] # NoSeq)
      BY <3>1
    <3>7. QED
      BY <3>5, <3>6, <1>1, <1>2 DEF Asked, AfterKnown
  <2>3. QED
    BY <2>1, <2>2
<1>5. QED
  BY <1>3, <1>4 DEF Asked

\* What a view does to the terminal, session by session.
LEMMA ViewShown ==
    ASSUME SyncInv, NEW o \in SoundView, SubscribeReceived(o)
    PROVE  /\ \A s \in Sessions :
                 known'[s] = IF s = o.session THEN o.status ELSE known[s]
           /\ \A s \in Sessions :
                 shown'[s] = IF s = o.session THEN o.active ELSE shown[s]
           /\ \A s \in Sessions :
                 IF s = o.session /\ o.mode = "snapshot"
                 THEN text'[s] = Trim(o.text) /\ last'[s] = Last(o.text)
                 ELSE text'[s] = text[s] /\ last'[s] = last[s]
           /\ o.mode = "snapshot" => Last(o.text) \in Nat
<1>1. /\ o.session \in Sessions /\ o.text \in Seq(Nat)
      /\ known \in [Sessions -> Status] /\ shown \in [Sessions -> Nat]
      /\ text \in [Sessions -> Seq(Nat)] /\ last \in [Sessions -> Nat \cup {NoSeq}]
  BY DEF SoundView, View, SyncInv, TypeOK, PhoneTypeOK
<1>2. o.mode = "snapshot" => Last(o.text) \in Nat
  BY <1>1, LastIsLargest DEF SoundView
<1>3. CASE /\ o.mode = "snapshot"
           /\ text' = [text EXCEPT ![o.session] = SnapshotOf(o)]
           /\ last' = [last EXCEPT ![o.session] = Last(o.text)]
  BY <1>1, <1>2, <1>3 DEF SubscribeReceived, SnapshotOf
<1>4. CASE o.mode # "snapshot" /\ UNCHANGED <<text, last>>
  BY <1>1, <1>4 DEF SubscribeReceived
<1>5. QED
  BY <1>3, <1>4 DEF SubscribeReceived

\* From here on the terminal misses nothing: a snapshot is a run of the
\* history, and so is no text at all.
LEMMA RunShown ==
    ASSUME SyncInv, NEW o \in SoundView, SubscribeReceived(o), NEW s, s = o.session,
           o.mode = "snapshot" \/ last[s] = NoSeq
    PROVE  RunOf(text'[s], written[s])
<1>1. /\ s \in Sessions /\ o.text \in Seq(Nat)
      /\ written[s] \in Seq(Nat) /\ text[s] \in Seq(Nat)
  BY DEF SoundView, View, SyncInv, TypeOK, RegistryTypeOK, PhoneTypeOK
<1>2. CASE o.mode = "snapshot"
  <2>1. o.text \in Terminal!Runs(written[s])
    BY <1>2 DEF SoundView
  <2>2. RunOf(o.text, written[s])
    BY <2>1, <1>1, RunFromWindow
  <2>3. RunOf(Trim(o.text), written[s])
    BY <2>2, <1>1, RunTrimmed
  <2>4. text'[s] = Trim(o.text)
    BY <1>1, <1>2, ViewShown
  <2>5. QED
    BY <2>3, <2>4
<1>3. CASE o.mode # "snapshot"
  <2>1. text'[s] = text[s]
    BY <1>1, <1>3, ViewShown
  <2>2. text[s] = <<>>
    <3>1. SUFFICES ASSUME text[s] # <<>> PROVE FALSE
      OBVIOUS
    <3>2. Increasing(text[s]) /\ last[s] = Last(text[s])
      BY <1>1, <3>1 DEF SyncInv, TranscriptOrdered
    <3>3. last[s] \in Nat
      BY <3>1, <3>2, <1>1, LastIsLargest
    <3>4. QED
      BY <3>3, <1>3 DEF NoSeq
  <2>3. QED
    BY <2>1, <2>2, <1>1, EmptyRun
<1>4. QED
  BY <1>2, <1>3

LEMMA SubscribedKeeps ==
    ASSUME ChannelInv, Received, Head(toPhone).kind = "view",
           SubscribeReceived(Head(toPhone).view), Viewed(Head(toPhone)),
           phase \in {"subscribing", "online"}, phase' = "online",
           UNCHANGED <<daemonVars, linkUp, daemonDrops, toDaemon, skipped>>
    PROVE  Told' /\ Asked' /\ Due'
<1>1. /\ SyncInv /\ TypeOK /\ Told /\ Asked /\ Due /\ Era \in Nat
      /\ Head(toPhone) = toPhone[1] /\ 1 \in 1 .. Len(toPhone)
      /\ Len(toPhone) \in Nat
      /\ \A i \in 1 .. Len(toPhone') :
             i + 1 \in 1 .. Len(toPhone) /\ toPhone'[i] = toPhone[i + 1]
  BY ReceivedAt, EraTyped DEF ChannelInv, AskedInv, SyncInv
<1>2. UNCHANGED <<status, announced, active, events, written, Era, Entries>>
  BY DEF daemonVars, Era, Entries
<1>3. PICK m, o, s0 : m = toPhone[1] /\ o = m.view /\ s0 = o.session
  OBVIOUS
<1>4. /\ m = Head(toPhone) /\ m.kind = "view" /\ ~Pushed(Head(toPhone))
      /\ o \in SoundView /\ s0 \in Sessions /\ SubscribeReceived(o)
      /\ intact' = IF m.era = Era /\ (o.mode = "snapshot" \/ last[s0] = NoSeq)
                   THEN intact \cup {s0} ELSE intact
  BY <1>1, <1>3, ViewTaken DEF Pushed, Viewed
<1>5. /\ linkUp /\ s0 \in Entries => StatusIn(Way, 1, s0, o.status, status[s0])
      /\ m.era = Era =>
            /\ s0 \in Entries => PromptIn(Way, 1, s0, o.active, active[s0])
            /\ o.mode = "snapshot" => Carries(Way, 1, s0, Last(o.text), written[s0])
            /\ o.mode # "snapshot" /\ last[s0] = NoSeq =>
                  Carries(Way, 1, s0, NoSeq, written[s0])
  <2>1. ViewDue(o, m.era, 1)
    BY <1>1, <1>3, <1>4 DEF Due, ViewsDue, IsView
  <2>2. QED
    BY <2>1, <1>3 DEF ViewDue
<1>6. m.era = Era => linkUp /\ \A i \in 1 .. Len(toPhone') :
                                  toPhone'[i].kind = "view" => toPhone'[i].era = Era
  <2>1. m.era = Era => linkUp
    BY <1>1, <1>3, <1>4 DEF Asked, EraInv, IsView
  <2>2. ASSUME m.era = Era, NEW i \in 1 .. Len(toPhone'), toPhone'[i].kind = "view"
        PROVE  toPhone'[i].era = Era
    <3>1. PICK k \in 1 .. Len(toPhone) : 1 < k /\ toPhone'[i] = toPhone[k]
      <4>1. 1 < i + 1
        BY <2>2
      <4>2. QED
        BY <4>1, <1>1
    <3>2. m.era <= toPhone[k].era /\ toPhone[k].era <= Era
      BY <3>1, <2>2, <1>1, <1>3, <1>4 DEF Asked, EraInv, IsView
    <3>3. toPhone[k].era \in Nat
      <4>1. toPhone[k] \in Message
        BY <1>1, PhaseValues
      <4>2. QED
        BY <4>1, <3>1, <2>2 DEF Message
    <3>4. QED
      BY <3>1, <3>2, <3>3, <2>2, <1>1
  <2>3. QED
    BY <2>1, <2>2
<1>7. \A s \in Sessions : last'[s] = NoSeq => last[s] = NoSeq
  <2>1. o.mode = "snapshot" => Last(o.text) # NoSeq
    BY <1>1, <1>4, ViewShown DEF NoSeq
  <2>2. QED
    BY <2>1, <1>1, <1>4, ViewShown
<1>8. Told' /\ EraInv' /\ ListsDue' /\ ViewsDue'
  BY <1>2, <1>7, ReceivedKeeps
<1>9. AfterKnown'
  BY <1>1, <1>7 DEF Asked, AfterKnown
<1>10. \A s \in intact : s \in Sessions
  BY <1>1 DEF TypeOK
<1>11. KnownDue'
  <2>1. SUFFICES ASSUME linkUp, NEW s \in Entries,
                        s \in (announced \ skipped) \cup intact'
                 PROVE  StatusIn(Way', 0, s, known'[s], status[s])
    BY <1>2 DEF KnownDue
  <2>2. s \in Sessions
    BY DEF Entries
  <2>3. PICK c : c = known'[s]
    OBVIOUS
  <2>4. CASE s = s0
    <3>1. c = o.status
      BY <2>2, <2>3, <2>4, <1>1, <1>3, <1>4, ViewShown
    <3>2. StatusIn(Way, 1, s, c, status[s])
      BY <3>1, <2>1, <2>4, <1>5
    <3>3. QED
      BY <3>2, <2>3, <1>2, <1>4, StillDue
  <2>5. CASE s # s0
    <3>1. c = known[s]
      BY <2>2, <2>3, <2>5, <1>1, <1>3, <1>4, ViewShown
    <3>2. s \in (announced \ skipped) \cup intact
      BY <2>1, <2>5, <1>4
    <3>3. StatusIn(Way, 0, s, c, status[s])
      BY <3>1, <3>2, <2>1, <1>1 DEF Due, KnownDue
    <3>4. QED
      BY <3>3, <2>3, <1>2, <1>4, StillDue
  <2>6. QED
    BY <2>4, <2>5
<1>12. IntactWhile'
  <2>1. CASE intact # {}
    <3>1. linkUp /\ \A i \in 1 .. Len(toPhone') :
                       toPhone'[i].kind = "view" => toPhone'[i].era = Era
      BY <2>1, <1>1 DEF Due, IntactWhile, IsView
    <3>2. QED
      BY <3>1, <1>2 DEF IntactWhile, IsView
  <2>2. CASE intact = {} /\ intact' # {}
    <3>1. m.era = Era
      BY <2>2, <1>4
    <3>2. QED
      BY <3>1, <1>2, <1>6 DEF IntactWhile, IsView
  <2>3. QED
    BY <2>1, <2>2 DEF IntactWhile
<1>13. IntactDue'
  <2>1. SUFFICES ASSUME NEW s \in intact'
                 PROVE  /\ status[s] # "absent"
                        /\ RunOf(text'[s], written[s])
                        /\ Carries(Way', 0, s, last'[s], written[s])
                        /\ s \in Entries => PromptIn(Way', 0, s, shown'[s], active[s])
    BY <1>2 DEF IntactDue
  <2>2. PICK l, x : l = last'[s] /\ x = shown'[s]
    OBVIOUS
  <2>3. CASE s # s0
    <3>1. s \in intact /\ s \in Sessions
      BY <2>1, <2>3, <1>4, <1>10
    <3>2. text'[s] = text[s] /\ l = last[s] /\ x = shown[s]
      BY <3>1, <2>2, <2>3, <1>1, <1>3, <1>4, ViewShown
    <3>3. /\ status[s] # "absent" /\ RunOf(text[s], written[s])
          /\ Carries(Way, 0, s, l, written[s])
          /\ s \in Entries => PromptIn(Way, 0, s, x, active[s])
      BY <3>1, <3>2, <1>1 DEF Due, IntactDue
    <3>4. /\ Carries(Way', 0, s, l, written[s])
          /\ s \in Entries => PromptIn(Way', 0, s, x, active[s])
      BY <3>3, <1>2, <1>4, StillDue
    <3>5. QED
      BY <3>2, <3>3, <3>4, <2>2
  <2>4. CASE s = s0
    <3>1. m.era = Era
      <4>1. s0 \in intact => m.era = Era
        BY <1>1, <1>3, <1>4 DEF Due, IntactWhile, IsView
      <4>2. QED
        BY <4>1, <2>1, <2>4, <1>4
    <3>2. status[s] # "absent"
      BY <2>4, <1>1, <1>3, <1>4 DEF Told, Unborn
    <3>3. x = o.active
      BY <2>2, <2>4, <1>1, <1>3, <1>4, ViewShown
    <3>4. s \in Entries => PromptIn(Way', 0, s, x, active[s])
      BY <3>1, <3>3, <2>4, <1>2, <1>4, <1>5, StillDue
    <3>5. RunOf(text'[s], written[s]) /\ Carries(Way', 0, s, l, written[s])
      <4>1. CASE o.mode = "snapshot"
        <5>1. l = Last(o.text)
          BY <4>1, <2>2, <2>4, <1>1, <1>3, <1>4, ViewShown
        <5>2. Carries(Way, 1, s, l, written[s])
          BY <5>1, <4>1, <3>1, <2>4, <1>5
        <5>3. Carries(Way', 0, s, l, written[s])
          BY <5>2, <1>2, <1>4, StillDue
        <5>4. QED
          BY <5>3, <4>1, <2>4, <1>1, <1>3, <1>4, RunShown
      <4>2. CASE o.mode # "snapshot" /\ last[s] = NoSeq
        <5>1. l = NoSeq
          BY <4>2, <2>2, <2>4, <1>1, <1>3, <1>4, ViewShown
        <5>2. Carries(Way, 1, s, l, written[s])
          BY <5>1, <4>2, <3>1, <2>4, <1>5
        <5>3. Carries(Way', 0, s, l, written[s])
          BY <5>2, <1>2, <1>4, StillDue
        <5>4. QED
          BY <5>3, <4>2, <2>4, <1>1, <1>3, <1>4, RunShown
      <4>3. CASE o.mode # "snapshot" /\ last[s] # NoSeq
        <5>1. s \in intact
          BY <4>3, <2>1, <2>4, <1>4
        <5>2. text'[s] = text[s] /\ l = last[s]
          BY <4>3, <2>2, <2>4, <1>1, <1>3, <1>4, ViewShown
        <5>3. RunOf(text[s], written[s]) /\ Carries(Way, 0, s, l, written[s])
          BY <5>1, <5>2, <1>1 DEF Due, IntactDue
        <5>4. Carries(Way', 0, s, l, written[s])
          BY <5>3, <1>2, <1>4, StillDue
        <5>5. QED
          BY <5>2, <5>3, <5>4
      <4>4. QED
        BY <4>1, <4>2, <4>3
    <3>6. QED
      BY <3>2, <3>4, <3>5, <2>2
  <2>5. QED
    BY <2>3, <2>4
<1>14. QED
  BY <1>8, <1>9, <1>11, <1>12, <1>13 DEF Asked, Due

LEMMA ViewKeeps ==
    ASSUME ChannelInv, ReceiveSync \/ ReceiveOpened
    PROVE  Told' /\ Asked' /\ Due'
<1>1. CASE ReceiveSync
  BY <1>1, SubscribedKeeps DEF ReceiveSync
<1>2. CASE ReceiveOpened
  <2>1. /\ Received /\ Head(toPhone).kind = "view" /\ Head(toPhone).by = "open"
        /\ UNCHANGED <<daemonVars, linkUp, daemonDrops, toDaemon, skipped, phase>>
        /\ \/ SubscribeReceived(Head(toPhone).view) /\ Viewed(Head(toPhone))
           \/ UNCHANGED <<phoneVars, intact>>
    BY <1>2 DEF ReceiveOpened
  <2>2. AskedInv /\ ~Pushed(Head(toPhone))
    BY <2>1 DEF ChannelInv, Pushed
  <2>3. Head(toPhone).kind # "list" /\ Head(toPhone).by # "sync"
    BY <2>1
  <2>4. phase = "online"
    BY <2>1, <2>2, <2>3, AnsweredPhase
  <2>5. CASE SubscribeReceived(Head(toPhone).view) /\ Viewed(Head(toPhone))
    BY <2>1, <2>4, <2>5, SubscribedKeeps
  <2>6. CASE UNCHANGED <<phoneVars, intact>>
    BY <2>1, <2>2, <2>6, PassedKeeps
  <2>7. QED
    BY <2>1, <2>5, <2>6
<1>3. QED
  BY <1>1, <1>2

-----------------------------------------------------------------------------
(* The theorems.                                                           *)

LEMMA ChannelSame ==
    ASSUME ChannelInv, UNCHANGED syncVars
    PROVE  Told' /\ Asked' /\ Due'
<1>1. UNCHANGED <<status, announced, active, events, written, known, text, last,
                  shown, linkUp, phase, toPhone, toDaemon, intact, skipped,
                  daemonDrops, restarts>>
  BY DEF syncVars, daemonVars, phoneVars, linkVars, historyVars
<1>2. UNCHANGED <<Era, Entries, Way>>
  BY <1>1 DEF Era, Entries, Way
<1>3. Told /\ Asked /\ Due
  BY DEF ChannelInv
<1>4. Told'
  BY <1>1, <1>2, <1>3 DEF Told, InOrder, Unborn, HistoryRises, QueueAgrees
<1>5. Asked'
  BY <1>1, <1>2, <1>3 DEF Asked, AfterKnown, EraInv, IsView
<1>6. Due'
  BY <1>1, <1>2, <1>3 DEF Due, ListsDue, ViewsDue, ViewDue, KnownDue, IntactWhile,
     IntactDue, IsView
<1>7. QED
  BY <1>4, <1>5, <1>6

LEMMA ChannelStart == Init => Told /\ Asked /\ Due
<1>1. SUFFICES ASSUME Init PROVE Told /\ Asked /\ Due
  OBVIOUS
<1>2. /\ toPhone = <<>> /\ events = <<>> /\ toDaemon = <<>> /\ intact = {}
      /\ announced = {} /\ phase = "away"
      /\ \A s \in Sessions : status[s] = "absent" /\ written[s] = <<>>
  BY <1>1 DEF Init, RegistryInit
<1>3. Len(Way) = 0
  <2>1. toPhone \in Seq(Message) /\ events \in Seq(Event)
    BY <1>1, SyncInvInit, ChannelTypes
  <2>2. Len(toPhone) = 0 /\ Len(events) = 0
    BY <1>2
  <2>3. Len(Way) = Len(toPhone) + Len(events)
    BY <2>1, LaidAt DEF Way
  <2>4. QED
    BY <2>2, <2>3
<1>4. Entries = {}
  BY <1>2 DEF Entries, Live
<1>5. Told
  BY <1>2, <1>3, <1>4
     DEF Told, InOrder, Mounting, AllPlausible, Unborn, Unheard, HistoryRises,
         Increasing, QueueAgrees
<1>6. Asked
  BY <1>2 DEF Asked, AfterKnown, EraInv
<1>7. Due
  BY <1>2 DEF Due, ListsDue, ViewsDue, KnownDue, IntactWhile, IntactDue
<1>8. QED
  BY <1>5, <1>6, <1>7

LEMMA ChannelStep1 ==
    ASSUME ChannelInv, [Next]_syncVars, AskedInv'
    PROVE  ChannelInv'
<1>1. Told' /\ Asked' /\ Due'
  <2>1. CASE UNCHANGED syncVars
    BY <2>1, ChannelSame
  <2>2. CASE DaemonActs
    BY <2>2, ActsKeep
  <2>3. CASE SendEvent
    BY <2>3, SendKeeps
  <2>4. CASE HandleRequest
    BY <2>4, HandleKeeps
  <2>5. CASE DaemonDrop \/ DaemonCrash
    BY <2>5, DropKeeps DEF AskedInv
  <2>6. CASE DaemonRegister
    BY <2>6, RegisterKeeps
  <2>7. CASE Synchronize \/ Disconnect \/ Retry
    BY <2>7, SocketKeeps
  <2>8. CASE ReceivePushed
    BY <2>8, PushedKeeps
  <2>9. CASE ReceiveList
    BY <2>9, ListKeeps
  <2>10. CASE ReceiveSync \/ ReceiveOpened
    BY <2>10, ViewKeeps
  <2>11. CASE ReceiveError
    BY <2>11, ErrorKeeps
  <2>12. CASE \E s \in Sessions : OpenSession(s)
    BY <2>12, OpenKeeps
  <2>13. QED
    BY <2>1, <2>2, <2>3, <2>4, <2>5, <2>6, <2>7, <2>8, <2>9, <2>10, <2>11,
       <2>12 DEF Next, Receive
<1>2. QED
  BY <1>1 DEF ChannelInv

LEMMA ChannelInvariant == Spec => []ChannelInv
<1>1. Init /\ AskedInv => ChannelInv
  BY ChannelStart DEF ChannelInv
<1>2. ChannelInv /\ [Next]_syncVars /\ AskedInv' => ChannelInv'
  BY ChannelStep1
<1>3. QED
  BY <1>1, <1>2, AskedInvariant, PTL DEF Spec

\* When all has arrived, the phone has been told all there is to tell.
LEMMA QuietIsTold ==
    ASSUME SyncInv, Quiet, NEW s, NEW N, NEW b, NEW x, NEW h
    PROVE  /\ Says(Way, 0, s, N, b, x) => b = x
           /\ Carries(Way, 0, s, b, h) => \A j \in 1 .. Len(h) : ~(h[j] > b)
<1>1. Len(toPhone) = 0 /\ Len(events) = 0
  BY DEF Quiet
<1>2. Len(Way) = 0
  <2>1. toPhone \in Seq(Message) /\ events \in Seq(Event)
    BY ChannelTypes
  <2>2. Len(Way) = Len(toPhone) + Len(events)
    BY <2>1, LaidAt DEF Way
  <2>3. QED
    BY <1>1, <2>2
<1>3. \A p : p \notin 0 + 1 .. Len(Way)
  BY <1>2
<1>4. QED
  BY <1>3 DEF Says, Carries

\* From a view on, while both connections last, the terminal of the phone is a
\* stretch of what the session has put out, without a hole, although the
\* answers of _handle_request overtake the events of _emit.
THEOREM NoGap == Spec => []NoGapSinceView
<1>1. ChannelInv => NoGapSinceView
  BY DEF ChannelInv, Due, IntactDue, NoGapSinceView
<1>2. QED
  BY <1>1, ChannelInvariant, PTL

\* After a synchronisation the list of the phone has, once everything sent has
\* arrived, the status of every session the daemon has announced, unless an
\* event of it was dropped because the coordinator was not online.
THEOREM ListCurrent == Spec => []ListCurrentUnlessSkipped
<1>1. ChannelInv => ListCurrentUnlessSkipped
  <2>1. SUFFICES ASSUME ChannelInv, Quiet,
                        NEW s \in (announced \cap Entries) \ skipped
                 PROVE  known[s] = status[s]
    BY DEF ListCurrentUnlessSkipped
  <2>2. SyncInv /\ KnownDue
    BY <2>1 DEF ChannelInv, AskedInv, Due
  <2>3. StatusIn(Way, 0, s, known[s], status[s])
    BY <2>1, <2>2 DEF KnownDue, Quiet
  <2>4. QED
    BY <2>1, <2>2, <2>3, QuietIsTold DEF StatusIn
<1>2. QED
  BY <1>1, ChannelInvariant, PTL

\* And of a session viewed since the last loss it shows all there is: the last
\* output, the status and the interaction of the daemon's registry.
THEOREM Current == Spec => []CurrentSinceView
<1>1. ChannelInv => CurrentSinceView
  <2>1. SUFFICES ASSUME ChannelInv, Quiet, NEW s \in intact \cap Entries
                 PROVE  /\ written[s] # <<>> => last[s] = Last(written[s])
                        /\ known[s] = status[s] /\ shown[s] = active[s]
    BY DEF CurrentSinceView
  <2>2. SyncInv /\ KnownDue /\ IntactDue /\ HistoryRises /\ s \in Sessions
    BY <2>1 DEF ChannelInv, AskedInv, Told, Due, Entries
  <2>3. known[s] = status[s]
    <3>1. StatusIn(Way, 0, s, known[s], status[s])
      BY <2>1, <2>2 DEF KnownDue, Quiet
    <3>2. QED
      BY <3>1, <2>1, <2>2, QuietIsTold DEF StatusIn
  <2>4. shown[s] = active[s]
    <3>1. PromptIn(Way, 0, s, shown[s], active[s])
      BY <2>1, <2>2 DEF IntactDue
    <3>2. QED
      BY <3>1, <2>1, <2>2, QuietIsTold DEF PromptIn
  <2>5. ASSUME written[s] # <<>> PROVE last[s] = Last(written[s])
    <3>1. PICK t, h, n : t = text[s] /\ h = written[s] /\ n = Len(h)
      OBVIOUS
    <3>2. /\ t \in Seq(Nat) /\ h \in Seq(Nat) /\ h # <<>>
          /\ Increasing(h) /\ Increasing(t) /\ PartOf(t, h)
          /\ last[s] = IF t = <<>> THEN NoSeq ELSE Last(t)
      BY <3>1, <2>2, <2>5
         DEF SyncInv, TypeOK, RegistryTypeOK, PhoneTypeOK, HistoryRises,
             TranscriptOrdered
    <3>3. n \in Nat \ {0} /\ \A j \in 1 .. n : h[j] \in Nat
      BY <3>1, <3>2, EmptySeq, ElementOfSeq
    <3>4. n \in 1 .. n /\ ~(h[n] > last[s])
      <4>1. Carries(Way, 0, s, last[s], h)
        BY <3>1, <2>1, <2>2 DEF IntactDue
      <4>2. \A j \in 1 .. Len(h) : ~(h[j] > last[s])
        BY <4>1, <2>1, <2>2, QuietIsTold
      <4>3. QED
        BY <4>2, <3>1, <3>3
    <3>5. t # <<>>
      <4>1. h[n] \in Nat
        BY <3>3, <3>4
      <4>2. h[n] > NoSeq
        BY <4>1 DEF NoSeq
      <4>3. QED
        BY <4>2, <3>2, <3>4
    <3>6. Len(t) \in 1 .. Len(t) /\ last[s] = t[Len(t)]
      BY <3>2, <3>5, EmptySeq DEF Last
    <3>7. PICK j \in 1 .. n : t[Len(t)] = h[j]
      BY <3>1, <3>2, <3>6 DEF PartOf
    <3>8. j = n \/ h[j] < h[n]
      <4>1. j = n \/ j < n
        BY <3>3
      <4>2. QED
        BY <4>1, <3>1, <3>2, <3>4 DEF Increasing
    <3>9. h[j] \in Nat /\ h[n] \in Nat /\ ~(h[n] > h[j])
      BY <3>3, <3>4, <3>6, <3>7
    <3>10. h[j] = h[n]
      BY <3>8, <3>9
    <3>11. QED
      BY <3>1, <3>6, <3>7, <3>10 DEF Last
  <2>6. QED
    BY <2>3, <2>4, <2>5
<1>2. QED
  BY <1>1, ChannelInvariant, PTL
=============================================================================
