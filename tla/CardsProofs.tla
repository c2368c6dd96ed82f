---------------------------- MODULE CardsProofs ----------------------------
(***************************************************************************)
(* Theorems about the zones of ActionCards, for any number of prompts and  *)
(* of events, taps among them.                                             *)
(***************************************************************************)
EXTENDS ActionCards, SequenceTheorems, FiniteSetTheorems, TLAPS

ZoneStates == [phase : Phases \cup {"none"}, drawn : Phases \cup {"none"}, pending : BOOLEAN]

\* Types of what a zone keeps.
ZonesTyped ==
  /\ zone \in [Places -> ZoneStates]
  /\ sent \in [Places -> Nat]
  /\ replied = [z \in Places |-> replied[z]]
  /\ \A r \in asked :
       r \in [nr : {r.nr}, from : Places, id : {r.id}, live : BOOLEAN, adrift : BOOLEAN]

\* pendingRef is set by the only response of a showing and until the next one,
\* but for a response sent before the effect, which the effect forgets.
Early(z) == IF z \in hasty THEN 1 ELSE 0
PendingMarks ==
  \A z \in Places :
    \/ sent[z] = Early(z) /\ (z \in due /\ z \in hasty => zone[z].pending)
    \/ sent[z] = Early(z) + 1 /\ z \notin due /\ zone[z].pending

\* A zone that takes no answer though its effect has run, or whose response is on
\* its way, has answered what it was drawn with, or has crossed; without another
\* object it still shows that.
Spoiled(z) == zone[z].pending \/ zone[z].phase \notin {"none", "idle"}
Used(z) == (z \notin due /\ Spoiled(z)) \/ Answering(z)
UsedForItsOwn ==
  /\ ~fresh => card = seen.card
  /\ \A z \in Places : Used(z) => seen.card \in replied[z] \/ z \in crossed

CardsInv == ZonesTyped /\ PendingMarks /\ UsedForItsOwn

-----------------------------------------------------------------------------
(* Steps.                                                                  *)

\* What the invariant speaks of.
kept == <<zone, due, historyVars, asked, seen, card, fresh>>

LEMMA Untouched ==
  ASSUME CardsInv, UNCHANGED kept
  PROVE  CardsInv'
BY DEF kept, historyVars, CardsInv, ZonesTyped, PendingMarks, Early, UsedForItsOwn, Used,
       Spoiled, Answering

\* A response that is settled changes the phase of a zone that has sent it.
LEMMA SettleKeeps ==
  ASSUME CardsInv, NEW responses \in SUBSET asked, NEW phase \in Phases,
         Settle(responses, phase), UNCHANGED <<historyVars, due, seen, card, fresh>>
  PROVE  CardsInv'
<1> USE DEF historyVars
<1>1. \A z \in Places :
        zone'[z] = IF \E r \in responses : r.from = z /\ r.live
                   THEN [zone[z] EXCEPT !.phase = phase] ELSE zone[z]
  BY DEF Settle
<1>2. zone' \in [Places -> ZoneStates]
  <2>1. \A z \in Places : [zone[z] EXCEPT !.phase = phase] \in ZoneStates
    BY DEF CardsInv, ZonesTyped, ZoneStates
  <2> QED
    BY <2>1 DEF Settle, CardsInv, ZonesTyped
<1>3. ZonesTyped'
  BY <1>2 DEF CardsInv, ZonesTyped, Settle
<1>4. \A z \in Places : zone'[z].pending = zone[z].pending /\ zone'[z].drawn = zone[z].drawn
  <2> TAKE z \in Places
  <2>1. zone[z] \in ZoneStates
    BY DEF CardsInv, ZonesTyped
  <2>2. /\ [zone[z] EXCEPT !.phase = phase].pending = zone[z].pending
        /\ [zone[z] EXCEPT !.phase = phase].drawn = zone[z].drawn
    BY <2>1 DEF ZoneStates
  <2> QED
    BY <1>1, <2>2
<1>5. PendingMarks'
  BY <1>4 DEF CardsInv, PendingMarks, Early
<1>6. \A z \in Places : Used(z)' => Used(z)
  <2> SUFFICES ASSUME NEW z \in Places, Used(z)' PROVE Used(z)
    OBVIOUS
  <2>1. CASE \E r \in responses : r.from = z /\ r.live
    BY <2>1 DEF Used, Answering
  <2>2. CASE ~\E r \in responses : r.from = z /\ r.live
    BY <2>2, <1>1 DEF Used, Spoiled, Answering, Settle
  <2> QED
    BY <2>1, <2>2
<1>7. UsedForItsOwn'
  BY <1>6 DEF CardsInv, UsedForItsOwn
<1> QED
  BY <1>3, <1>5, <1>7 DEF CardsInv

\* Another object on the way to the screen changes nothing that is drawn.
LEMMA RefreshKeeps ==
  ASSUME CardsInv, NEW id, Refresh(id), UNCHANGED <<zone, due, historyVars, asked, seen>>
  PROVE  CardsInv'
BY DEF Refresh, historyVars, CardsInv, ZonesTyped, PendingMarks, Early, UsedForItsOwn, Used,
       Spoiled, Answering

LEMMA ReceiveKeeps ==
  ASSUME CardsInv, Receive
  PROVE  CardsInv'
<1> DEFINE m == Head(toPhone)
<1>1. UNCHANGED <<historyVars, due, seen>>
  BY DEF Receive
<1>2. CASE /\ Settle({r \in asked : r.nr = m.nr}, IF m.ok THEN "submitted" ELSE "failed")
           /\ UNCHANGED <<card, fresh>>
  <2>1. (IF m.ok THEN "submitted" ELSE "failed") \in Phases
    BY DEF Phases
  <2> QED
    BY <1>1, <1>2, <2>1, SettleKeeps
<1>3. CASE (\E id \in {m.id, m.session.prompt, 0} : Refresh(id)) /\ UNCHANGED <<asked, zone>>
  BY <1>1, <1>3, RefreshKeeps
<1>4. CASE UNCHANGED <<card, fresh, asked, zone>>
  BY <1>1, <1>4, Untouched DEF kept
<1> QED
  BY <1>2, <1>3, <1>4 DEF Receive

\* What Render makes of one zone.
LEMMA RenderZone ==
  ASSUME CardsInv, Render, NEW z \in Places
  PROVE  /\ zone'[z] \in ZoneStates
         /\ sent'[z] = (IF Stays(z) /\ ~fresh THEN sent[z] ELSE 0)
         /\ z \in hasty' <=> z \in hasty /\ Stays(z) /\ ~fresh
         /\ Stays(z) => zone'[z] = [zone[z] EXCEPT !.drawn = zone[z].phase]
         /\ ~Stays(z) => zone'[z] = IF z \in due' THEN Mounted ELSE Unmounted
         /\ z \notin due
         /\ Stays(z) => (z \in due' <=> fresh)
<1> USE DEF Render
<1>1. Stays(z) => Shows(z)
  BY DEF Stays
<1>2. [zone[z] EXCEPT !.drawn = zone[z].phase] \in ZoneStates /\ {Unmounted, Mounted} \subseteq ZoneStates
  BY DEF CardsInv, ZonesTyped, ZoneStates, Unmounted, Mounted, Phases
<1>3. zone'[z] = IF ~Shows(z) THEN Unmounted ELSE IF ~Stays(z) THEN Mounted
                 ELSE [zone[z] EXCEPT !.drawn = zone[z].phase]
  OBVIOUS
<1> QED
  BY <1>1, <1>2, <1>3

LEMMA RenderKeeps ==
  ASSUME CardsInv, Render
  PROVE  CardsInv'
<1>1. ZonesTyped'
  <2>1. zone' \in [Places -> ZoneStates]
    BY RenderZone DEF Render
  <2>2. sent' \in [Places -> Nat]
    BY DEF Render, CardsInv, ZonesTyped
  <2>3. ASSUME NEW r \in asked PROVE
          LET q == [r EXCEPT !.live = r.live /\ Stays(r.from)]
          IN  q \in [nr : {q.nr}, from : Places, id : {q.id}, live : BOOLEAN, adrift : BOOLEAN]
    <3> HIDE DEF Stays
    <3>1. r \in [nr : {r.nr}, from : Places, id : {r.id}, live : BOOLEAN, adrift : BOOLEAN]
      BY DEF CardsInv, ZonesTyped
    <3> QED
      BY <3>1
  <2> QED
    BY <2>1, <2>2, <2>3 DEF Render, ZonesTyped
<1>2. PendingMarks'
  <2> SUFFICES ASSUME NEW z \in Places
               PROVE  \/ sent'[z] = Early(z)' /\ (z \in due' /\ z \in hasty' => zone'[z].pending)
                      \/ sent'[z] = Early(z)' + 1 /\ z \notin due' /\ zone'[z].pending
    BY DEF PendingMarks
  <2>1. CASE Stays(z) /\ ~fresh
    <3>1. /\ sent'[z] = sent[z] /\ Early(z)' = Early(z) /\ z \notin due'
          /\ zone'[z].pending = zone[z].pending
      BY <2>1, RenderZone DEF Early, CardsInv, ZonesTyped, ZoneStates
    <3> QED
      BY <3>1 DEF CardsInv, PendingMarks
  <2> QED
    BY <2>1, RenderZone DEF Early
<1>3. UsedForItsOwn'
  <2>1. seen'.card = card' /\ card' = card
    BY DEF Render, Drawn
  <2> SUFFICES ASSUME NEW z \in Places, Used(z)'
               PROVE  seen'.card \in replied'[z] \/ z \in crossed'
    BY <2>1 DEF UsedForItsOwn
  <2>2. Answering(z)' => Answering(z) /\ Stays(z)
    <3> SUFFICES ASSUME NEW r \in asked,
                        [r EXCEPT !.live = r.live /\ Stays(r.from)].from = z,
                        [r EXCEPT !.live = r.live /\ Stays(r.from)].live
                 PROVE  r.from = z /\ r.live /\ Stays(z)
      BY DEF Answering, Render
    <3>1. r \in [nr : {r.nr}, from : Places, id : {r.id}, live : BOOLEAN, adrift : BOOLEAN]
      BY DEF CardsInv, ZonesTyped
    <3> QED
      BY <3>1
  <2>3. CASE Stays(z) /\ ~fresh
    <3>1. Used(z)
      BY <2>2, <2>3, RenderZone DEF Used, Spoiled, CardsInv, ZonesTyped, ZoneStates
    <3>2. seen'.card = seen.card
      BY <2>1, <2>3 DEF CardsInv, UsedForItsOwn
    <3>3. replied'[z] = replied[z] /\ (z \in crossed => z \in crossed')
      BY <2>3 DEF Render
    <3> QED
      BY <3>1, <3>2, <3>3 DEF CardsInv, UsedForItsOwn
  <2>4. CASE ~Stays(z) \/ fresh
    <3>1. z \in due' \/ zone'[z] = Unmounted
      BY <2>4, RenderZone
    <3>2. z \in due' \/ ~Spoiled(z)'
      BY <3>1 DEF Unmounted, Spoiled
    <3>3. Answering(z)'
      BY <3>2 DEF Used
    <3> QED
      BY <2>2, <2>4, <3>3 DEF Render
  <2> QED
    BY <2>3, <2>4
<1> QED
  BY <1>1, <1>2, <1>3 DEF CardsInv

\* The effects undo what was tapped before them, and no more.
LEMMA EffectsKeeps ==
  ASSUME CardsInv, Effects
  PROVE  CardsInv'
<1>1. /\ due' = {} /\ UNCHANGED <<historyVars, asked, seen, card, fresh>>
      /\ zone' = [z \in Places |-> IF z \in due THEN Renewed(z) ELSE zone[z]]
  BY DEF Effects, phoneVars, stateVars
<1>2. \A z \in Places :
        /\ zone'[z] \in ZoneStates
        /\ z \notin due => zone'[z] = zone[z]
        /\ z \in due => ~zone'[z].pending /\ zone'[z].phase = "idle"
  <2> SUFFICES ASSUME NEW z \in Places
               PROVE  /\ zone'[z] \in ZoneStates
                      /\ z \notin due => zone'[z] = zone[z]
                      /\ z \in due => ~zone'[z].pending /\ zone'[z].phase = "idle"
    OBVIOUS
  <2>1. zone[z] \in ZoneStates /\ "idle" \in Phases
    BY DEF CardsInv, ZonesTyped, Phases
  <2>2. /\ Renewed(z) \in ZoneStates
        /\ ~Renewed(z).pending /\ Renewed(z).phase = "idle"
    BY <2>1 DEF Renewed, ZoneStates
  <2> QED
    BY <1>1, <2>1, <2>2
<1>3. ZonesTyped'
  BY <1>1, <1>2 DEF CardsInv, ZonesTyped, historyVars
<1>4. PendingMarks'
  BY <1>1, <1>2 DEF CardsInv, PendingMarks, Early, historyVars
<1>5. \A z \in Places : Used(z)' => Used(z)
  BY <1>1, <1>2 DEF Used, Spoiled, Answering
<1>6. UsedForItsOwn'
  BY <1>1, <1>5 DEF CardsInv, UsedForItsOwn, historyVars
<1> QED
  BY <1>3, <1>4, <1>6 DEF CardsInv

LEMMA SubmitKeeps ==
  ASSUME CardsInv, NEW z \in Places, Submit(z)
  PROVE  CardsInv'
<1> DEFINE phase == IF net = "away" THEN "failed" ELSE "submitting"
<1>1. zone' = [zone EXCEPT ![z].pending = TRUE, ![z].phase = phase]
  BY DEF Submit
<1>2. /\ sent' = [sent EXCEPT ![z] = @ + 1]
      /\ replied' = [replied EXCEPT ![z] = @ \cup {seen.card}]
      /\ hasty' = hasty \cup ({z} \cap due)
      /\ UNCHANGED <<seen, due, crossed, card, fresh>>
  BY DEF Submit, phoneVars, stateVars
<1>3. /\ zone' \in [Places -> ZoneStates]
      /\ zone'[z].pending
      /\ \A y \in Places \ {z} : zone'[y] = zone[y]
  BY <1>1 DEF CardsInv, ZonesTyped, ZoneStates, Phases
<1>4. ZonesTyped'
  <2> DEFINE q == [nr |-> spent', from |-> z, id |-> seen.card, live |-> TRUE, adrift |-> FALSE]
  <2>1. asked' \subseteq asked \cup {q}
    BY DEF Submit, Request
  <2>2. q \in [nr : {q.nr}, from : Places, id : {q.id}, live : BOOLEAN, adrift : BOOLEAN]
    OBVIOUS
  <2>3. \A r \in asked' :
          r \in [nr : {r.nr}, from : Places, id : {r.id}, live : BOOLEAN, adrift : BOOLEAN]
    <3> HIDE DEF q
    <3> QED
      BY <2>1, <2>2 DEF CardsInv, ZonesTyped
  <2>4. sent' \in [Places -> Nat]
    BY <1>2 DEF CardsInv, ZonesTyped
  <2>5. replied' = [y \in Places |-> replied'[y]]
    BY <1>2 DEF CardsInv, ZonesTyped
  <2> QED
    BY <1>3, <2>3, <2>4, <2>5 DEF ZonesTyped
<1>5. sent[z] = Early(z) /\ ~(z \in due /\ z \in hasty)
  BY DEF Submit, CanSubmit, CardsInv, PendingMarks
<1>6. PendingMarks'
  <2>1. sent'[z] = sent[z] + 1 /\ \A y \in Places \ {z} : sent'[y] = sent[y]
    BY <1>2 DEF CardsInv, ZonesTyped
  <2>2. \A y \in Places \ {z} : Early(y)' = Early(y) /\ (y \in hasty' <=> y \in hasty)
    BY <1>2 DEF Early
  <2>3. Early(z)' = IF z \in due THEN 1 ELSE Early(z)
    BY <1>2 DEF Early
  <2>4. IF z \in due THEN sent'[z] = Early(z)' ELSE sent'[z] = Early(z)' + 1
    BY <1>5, <2>1, <2>3 DEF Early
  <2>5. \A y \in Places \ {z} :
          \/ sent'[y] = Early(y)' /\ (y \in due' /\ y \in hasty' => zone'[y].pending)
          \/ sent'[y] = Early(y)' + 1 /\ y \notin due' /\ zone'[y].pending
    BY <1>2, <1>3, <2>1, <2>2 DEF CardsInv, PendingMarks
  <2> QED
    BY <1>2, <1>3, <2>4, <2>5 DEF PendingMarks
<1>7. \A y \in Places \ {z} : Used(y)' => Used(y)
  BY <1>2, <1>3 DEF Used, Spoiled, Answering, Submit, Request
<1>8. seen.card \in replied'[z] /\ \A y \in Places \ {z} : replied'[y] = replied[y]
  BY <1>2 DEF CardsInv, ZonesTyped
<1>9. UsedForItsOwn'
  BY <1>2, <1>7, <1>8 DEF CardsInv, UsedForItsOwn
<1> QED
  BY <1>4, <1>6, <1>9 DEF CardsInv

LEMMA StepKeeps ==
  ASSUME CardsInv, [CardsNext]_cardVars
  PROVE  CardsInv'
<1> USE DEF phoneVars, stateVars, zoneVars
<1>1. CASE Prompts \/ Withdraws \/ Touched \/ Exits \/ Handles
  BY <1>1, Untouched DEF kept, Prompts, Withdraws, Touched, Exits, Handles
<1>2. CASE TimesOut \/ DaemonLost \/ Registers
  BY <1>2, Untouched DEF kept, TimesOut, DaemonLost, Registers
<1>3. CASE Receive
  BY <1>3, ReceiveKeeps
<1>4. CASE PhoneLost
  <2>1. "failed" \in Phases /\ asked \in SUBSET asked
    BY DEF Phases
  <2> QED
    BY <1>4, <2>1, SettleKeeps DEF PhoneLost, Outstanding
<1>5. CASE Retry \/ RunFails \/ TimerFires
  BY <1>5, Untouched DEF kept, Retry, RunFails, TimerFires, Replace
<1>6. CASE Render \/ Effects
  BY <1>6, RenderKeeps, EffectsKeeps
<1>7. CASE \E z \in Places : Submit(z)
  BY <1>7, SubmitKeeps
<1>8. CASE Dismiss \/ Open \/ Back
  BY <1>8, Untouched DEF kept, Dismiss, Open, Back
<1>9. CASE Reconnects
  <2>1. /\ asked' = {[r EXCEPT !.adrift = TRUE] : r \in asked}
        /\ UNCHANGED <<zone, due, historyVars, seen, card, fresh>>
    BY <1>9 DEF Reconnects
  <2>2. \A r \in asked :
          LET q == [r EXCEPT !.adrift = TRUE]
          IN  /\ q \in [nr : {q.nr}, from : Places, id : {q.id}, live : BOOLEAN, adrift : BOOLEAN]
              /\ q.from = r.from /\ q.live = r.live
    BY DEF CardsInv, ZonesTyped
  <2>3. \A z \in Places : Used(z)' => Used(z)
    BY <2>1, <2>2 DEF Used, Spoiled, Answering
  <2>4. ZonesTyped'
    BY <2>1, <2>2 DEF CardsInv, ZonesTyped, historyVars
  <2> QED
    BY <2>1, <2>3, <2>4 DEF CardsInv, PendingMarks, Early, UsedForItsOwn, historyVars
<1>10. CASE UNCHANGED cardVars
  BY <1>10, Untouched DEF kept, cardVars
<1> QED
  BY <1>1, <1>2, <1>3, <1>4, <1>5, <1>6, <1>7, <1>8, <1>9, <1>10 DEF CardsNext

LEMMA InitInv == CardsInit => CardsInv
BY DEF CardsInit, CardsInv, ZonesTyped, ZoneStates, PendingMarks, Early, UsedForItsOwn, Used,
       Spoiled, Answering, Unmounted, Phases

-----------------------------------------------------------------------------
(* Theorems.                                                               *)

\* A zone sends at most one response for an interaction object it is shown
\* (submit in StructuredActionZone.tsx), however many taps there are; two if the
\* first tap came after the drawing and before its effect, and never a third.
THEOREM AnsweredOnce == CardsSpec => []OneAnswerPerShowing
<1>1. CardsInv => OneAnswerPerShowing
  BY DEF CardsInv, PendingMarks, Early, OneAnswerPerShowing
<1> QED
  BY <1>1, InitInv, StepKeeps, PTL DEF CardsSpec

\* A zone that takes no answer once its effect has run was used for what it
\* shows, or was given it while its response was on its way.
THEOREM UsedZones == CardsSpec => []OwnUnlessInFlight
<1>1. CardsInv => OwnUnlessInFlight
  BY DEF CardsInv, UsedForItsOwn, Used, Spoiled, OwnUnlessInFlight
<1> QED
  BY <1>1, InitInv, StepKeeps, PTL DEF CardsSpec

-----------------------------------------------------------------------------
(* Types: what is on its way, and what was drawn.                          *)

DaemonMessage ==
  {Ask(kind) : kind \in {"list", "view", "open"}}
    \cup {Respond(nr, id) : nr \in 1..MaxEvents, id \in Ids \ {0}}
PhoneMessage ==
  {Told(kind, s) : kind \in {"session", "list", "view", "open"}, s \in Session}
    \cup {Requested(id) : id \in Ids} \cup {Resolved, Offline}
    \cup {Answer(nr, ok) : nr \in 1..MaxEvents, ok \in BOOLEAN}

Wired ==
  /\ toDaemon \in Seq(DaemonMessage) /\ toPhone \in Seq(PhoneMessage)
  /\ seen \in [session : Session, card : Ids, online : BOOLEAN, route : {"inbox", "session"}]
  /\ spent \in 0..MaxEvents
  /\ \A r \in asked : r.live => zone[r.from] # Unmounted
  /\ \A z \in due : zone[z] # Unmounted
  /\ \A z \in Places : sent[z] <= spent

TypeInv == CardsTypeOK /\ Wired /\ CardsInv

LEMMA BecomesTyped ==
  ASSUME NEW status \in {"running", "waiting", "stopped"}, NEW stamp \in Nat, NEW id \in Ids
  PROVE  Becomes(status, stamp, id) \in Session
BY DEF Becomes, Session

LEMMA MessagesTyped ==
  /\ \A kind \in {"session", "list", "view", "open"}, s \in Session : Told(kind, s) \in PhoneMessage
  /\ \A id \in Ids : Requested(id) \in PhoneMessage
  /\ Resolved \in PhoneMessage /\ Offline \in PhoneMessage
  /\ \A nr \in 1..MaxEvents, ok \in BOOLEAN : Answer(nr, ok) \in PhoneMessage
BY DEF PhoneMessage

LEMMA RequestsTyped ==
  /\ \A kind \in {"list", "view", "open"} : Ask(kind) \in DaemonMessage
  /\ \A nr \in 1..MaxEvents, id \in Ids \ {0} : Respond(nr, id) \in DaemonMessage
BY DEF DaemonMessage

\* What a message of each kind carries.
LEMMA Carries ==
  ASSUME NEW m \in PhoneMessage
  PROVE  /\ m.kind \in {"session", "list", "view", "open"} =>
              m.session \in Session /\ m = Told(m.kind, m.session)
         /\ m.kind = "requested" => m.id \in Ids
         /\ m.kind = "answer" => m.nr \in 1..MaxEvents /\ m.ok \in BOOLEAN /\ m = Answer(m.nr, m.ok)
         /\ m.kind \in {"session", "list", "view", "open", "requested", "resolved", "offline", "answer"}
<1>1. CASE \E kind \in {"session", "list", "view", "open"}, s \in Session : m = Told(kind, s)
  BY <1>1 DEF Told
<1>2. CASE \E id \in Ids : m = Requested(id)
  BY <1>2 DEF Requested
<1>3. CASE m \in {Resolved, Offline}
  BY <1>3 DEF Resolved, Offline
<1>4. CASE \E nr \in 1..MaxEvents, ok \in BOOLEAN : m = Answer(nr, ok)
  BY <1>4 DEF Answer
<1> QED
  BY <1>1, <1>2, <1>3, <1>4 DEF PhoneMessage

LEMMA Asks ==
  ASSUME NEW m \in DaemonMessage
  PROVE  /\ m.kind = "respond" => m.nr \in 1..MaxEvents /\ m.id \in Ids \ {0} /\ m = Respond(m.nr, m.id)
         /\ m.kind \in {"respond", "list", "view", "open"}
BY DEF DaemonMessage, Ask, Respond

\* SetToSeq lists a finite set.
LEMMA SetListed ==
  ASSUME NEW S, IsFiniteSet(S)
  PROVE  SetToSeq(S) \in Seq(S) /\ \A x \in S : \E i \in DOMAIN SetToSeq(S) : SetToSeq(S)[i] = x
<1> DEFINE n == Cardinality(S)
           g == SetToSeq(S)
<1>1. n \in Nat /\ ExistsBijection(1..n, S)
  BY FS_CardinalityType
<1>2. PICK f : f \in Bijection(1..n, S)
  BY <1>1 DEF ExistsBijection
<1>3. f \in [1..n -> S] /\ \A a, b \in 1..n : f[a] = f[b] => a = b
  BY <1>2 DEF Bijection, Injection, IsInjective
<1>4. g \in [1..n -> S] /\ \A a, b \in 1..n : g[a] = g[b] => a = b
  <2>1. \E h \in [1..n -> S] : IsInjective(h)
    BY <1>3 DEF IsInjective
  <2>2. g \in [1..n -> S] /\ IsInjective(g)
    BY <2>1 DEF SetToSeq
  <2> QED
    BY <2>2 DEF IsInjective
<1>5. g \in Seq(S) /\ DOMAIN g = 1..n
  BY <1>1, <1>4
<1>6. ASSUME NEW x \in S, \A i \in 1..n : g[i] # x PROVE FALSE
  <2>1. IsFiniteSet(S \ {x}) /\ Cardinality(S \ {x}) = n - 1
    BY FS_RemoveElement
  <2>2. g \in [1..n -> S \ {x}]
    BY <1>4, <1>6
  <2>3. IsFiniteSet(1..n) /\ Cardinality(1..n) = n
    BY <1>1, FS_Interval
  <2>4. \E a, b \in 1..n : a # b /\ g[a] = g[b]
    <3> HIDE DEF g, n
    <3> QED
      BY <1>1, <2>1, <2>2, <2>3, FS_PigeonHole
  <2> QED
    BY <1>4, <2>4
<1> QED
  BY <1>5, <1>6

\* What the daemon emits is of the types of the messages.
LEMMA EmittedTyped ==
  ASSUME NEW events \in Seq(PhoneMessage)
  PROVE  Emitted(events) \in Seq(PhoneMessage)
<1>1. <<>> \in Seq(PhoneMessage)
  OBVIOUS
<1> QED
  BY <1>1 DEF Emitted

LEMMA EmitTyped ==
  ASSUME TypeInv, NEW events \in Seq(PhoneMessage), Emit(events)
  PROVE  toPhone' \in Seq(PhoneMessage)
<1>1. toPhone \in Seq(PhoneMessage) /\ Emitted(events) \in Seq(PhoneMessage)
  BY DEF TypeInv, Wired, Emitted
<1> QED
  BY <1>1, ConcatProperties DEF Emit

\* What Wired says of the phone's own state.
LEMMA WiredKept ==
  ASSUME TypeInv, toDaemon' \in Seq(DaemonMessage), toPhone' \in Seq(PhoneMessage),
         UNCHANGED <<zoneVars, asked>>, spent' \in spent..MaxEvents
  PROVE  Wired'
<1>1. spent \in 0..MaxEvents /\ \A z \in Places : sent[z] \in 0..MaxEvents
  BY DEF TypeInv, Wired, CardsTypeOK
<1>2. spent' \in 0..MaxEvents /\ \A z \in Places : sent[z] <= spent => sent[z] <= spent'
  BY <1>1, BoundsAssumption
<1> QED
  BY <1>2 DEF TypeInv, Wired, zoneVars, historyVars

LEMMA SpendTyped ==
  ASSUME TypeInv, Spend
  PROVE  spent' = spent + 1 /\ spent' \in 1..MaxEvents /\ spent' \in spent..MaxEvents
BY BoundsAssumption DEF TypeInv, Wired, Spend

LEMMA DaemonTyped ==
  ASSUME TypeInv, Prompts \/ Withdraws \/ Touched \/ Exits
  PROVE  CardsTypeOK' /\ Wired'
<1> USE DEF phoneVars, stateVars, zoneVars, historyVars
<1>1. /\ session \in Session /\ lastId \in Ids /\ toPhone \in Seq(PhoneMessage)
      /\ session.stamp \in Nat /\ Now \in Nat /\ Now + 1 \in Nat /\ 0 \in Ids
      /\ spent \in spent..MaxEvents
  BY BoundsAssumption DEF TypeInv, CardsTypeOK, Wired, Session, Now, Ids
<1>2. Closing \in Seq(PhoneMessage)
  <2>1. Resolved \in PhoneMessage /\ Told("session", Becomes("running", Now, 0)) \in PhoneMessage
    BY <1>1, BecomesTyped, MessagesTyped
  <2> QED
    BY <2>1 DEF Closing
<1>3. CASE Prompts
  <2>1. lastId + 1 \in Ids
    BY <1>1, <1>3, BoundsAssumption DEF Prompts, Ids
  <2>2. session' \in Session
    BY <1>1, <1>3, <2>1, BecomesTyped DEF Prompts
  <2>3. <<Requested(lastId + 1), Told("session", session')>> \in Seq(PhoneMessage)
    <3>1. Requested(lastId + 1) \in PhoneMessage /\ Told("session", session') \in PhoneMessage
      BY <2>1, <2>2, MessagesTyped
    <3> QED
      BY <3>1
  <2>4. toPhone' \in Seq(PhoneMessage)
    <3> DEFINE found == <<Requested(lastId + 1), Told("session", session')>>
    <3>1. Closing \o found \in Seq(PhoneMessage) /\ Emit(Closing \o found)
      BY <1>2, <1>3, <2>3, ConcatProperties DEF Prompts
    <3> HIDE DEF found
    <3> QED
      BY <3>1, EmitTyped
  <2>5. Wired'
    BY <1>1, <1>3, <2>4, WiredKept DEF TypeInv, Wired, Prompts
  <2> QED
    BY <1>3, <2>1, <2>2, <2>5 DEF TypeInv, CardsTypeOK, Prompts
<1>4. CASE Withdraws
  <2>1. session' \in Session
    BY <1>1, <1>4, BecomesTyped DEF Withdraws
  <2>2. Wired'
    BY <1>1, <1>2, <1>4, EmitTyped, WiredKept DEF TypeInv, Wired, Withdraws
  <2> QED
    BY <1>4, <2>1, <2>2 DEF TypeInv, CardsTypeOK, Withdraws
<1>5. CASE Touched
  <2>1. session' \in Session
    BY <1>1, <1>5 DEF Touched, Session
  <2>2. Wired'
    BY <1>1, <1>5, SpendTyped, WiredKept DEF TypeInv, Wired, Touched
  <2> QED
    BY <1>5, <2>1, <2>2 DEF TypeInv, CardsTypeOK, Touched
<1>6. CASE Exits
  <2>1. session' \in Session
    BY <1>1, <1>6, BecomesTyped DEF Exits
  <2>2. toPhone' \in Seq(PhoneMessage)
    <3> DEFINE told == Told("session", Becomes("stopped", Now + 1, 0))
               closed == IF session.prompt = 0 THEN <<>> ELSE <<Resolved>>
    <3>1. told \in PhoneMessage /\ Resolved \in PhoneMessage
      BY <1>1, BecomesTyped, MessagesTyped
    <3>2. Emit(closed \o <<told>>)
      BY <1>6 DEF Exits
    <3> HIDE DEF told
    <3>3. closed \in Seq(PhoneMessage) /\ <<told>> \in Seq(PhoneMessage)
      BY <3>1
    <3> HIDE DEF closed
    <3>4. closed \o <<told>> \in Seq(PhoneMessage)
      BY <3>3, ConcatProperties
    <3> QED
      BY <3>2, <3>4, EmitTyped
  <2>3. Wired'
    BY <1>1, <1>6, <2>2, WiredKept DEF TypeInv, Wired, Exits
  <2> QED
    BY <1>6, <2>1, <2>3 DEF TypeInv, CardsTypeOK, Exits
<1> QED
  BY <1>3, <1>4, <1>5, <1>6

LEMMA HandlesTyped ==
  ASSUME TypeInv, Handles
  PROVE  CardsTypeOK' /\ Wired'
<1> DEFINE r == Head(toDaemon)
<1>1. /\ session \in Session /\ session.stamp \in Nat /\ Now \in Nat /\ 0 \in Ids
      /\ toDaemon # <<>> /\ toDaemon \in Seq(DaemonMessage) /\ toPhone \in Seq(PhoneMessage)
      /\ spent \in spent..MaxEvents
  BY BoundsAssumption DEF TypeInv, CardsTypeOK, Wired, Session, Now, Ids, Handles
<1>2. r \in DaemonMessage /\ toDaemon' \in Seq(DaemonMessage)
  BY <1>1, HeadTailProperties DEF Handles
<1>3. ASSUME NEW ok \in BOOLEAN, r.kind = "respond" PROVE Reply(r.nr, ok) \in Seq(PhoneMessage)
  <2>1. Answer(r.nr, ok) \in PhoneMessage
    BY <1>2, <1>3, Asks, MessagesTyped
  <2> QED
    BY <2>1 DEF Reply
<1>4. Closing \in Seq(PhoneMessage)
  <2>1. Resolved \in PhoneMessage /\ Told("session", Becomes("running", Now, 0)) \in PhoneMessage
    BY <1>1, BecomesTyped, MessagesTyped
  <2> QED
    BY <2>1 DEF Closing
<1>5. session' \in Session /\ toPhone' \in Seq(PhoneMessage)
  <2>1. CASE /\ r.kind \in {"list", "view", "open"} /\ UNCHANGED session
             /\ toPhone' \in {toPhone, Append(toPhone, Told(r.kind, session))}
    <3>1. Told(r.kind, session) \in PhoneMessage
      BY <1>1, <2>1, MessagesTyped
    <3> QED
      BY <1>1, <2>1, <3>1, AppendProperties
  <2>2. CASE /\ r.kind = "respond" /\ session' = Becomes("running", Now, 0)
             /\ toPhone' = toPhone \o Reply(r.nr, TRUE) \o Emitted(Closing)
    <3>1. Emitted(Closing) \in Seq(PhoneMessage)
      BY <1>4 DEF Emitted
    <3>2. toPhone \o Reply(r.nr, TRUE) \in Seq(PhoneMessage)
      BY <1>1, <1>3, <2>2, ConcatProperties
    <3>3. toPhone' \in Seq(PhoneMessage)
      BY <2>2, <3>1, <3>2, ConcatProperties
    <3> QED
      BY <1>1, <2>2, <3>3, BecomesTyped
  <2>3. CASE r.kind = "respond" /\ toPhone' = toPhone \o Reply(r.nr, FALSE) /\ UNCHANGED session
    BY <1>1, <1>3, <2>3, ConcatProperties
  <2> QED
    BY <2>1, <2>2, <2>3 DEF Handles
<1>6. Wired'
  BY <1>1, <1>2, <1>5, WiredKept DEF Handles
<1> QED
  BY <1>5, <1>6 DEF TypeInv, CardsTypeOK, Handles, phoneVars, stateVars, zoneVars, historyVars

\* The refusals of DaemonLost are answers, one for each number.
Refused(open) == SetToSeq({Answer(nr, FALSE) : nr \in open})

\* The responses that are in flight when n messages have been delivered.
InFlight(n) ==
  LET told == SubSeq(toPhone, 1, n)
  IN  {r.nr : r \in {a \in asked : ~a.adrift}}
        \ {told[i].nr : i \in {j \in DOMAIN told : told[j].kind = "answer"}}

LEMMA RefusedAll ==
  ASSUME NEW open \in SUBSET (1..MaxEvents)
  PROVE  /\ Refused(open) \in Seq({Answer(nr, FALSE) : nr \in open})
         /\ Refused(open) \in Seq(PhoneMessage)
         /\ \A nr \in open : \E i \in DOMAIN Refused(open) : Refused(open)[i] = Answer(nr, FALSE)
<1> DEFINE S == {Answer(nr, FALSE) : nr \in open}
           f == [nr \in open |-> Answer(nr, FALSE)]
<1>1. IsFiniteSet(open)
  <2>1. IsFiniteSet(1..MaxEvents)
    BY BoundsAssumption, FS_Interval
  <2> QED
    BY <2>1, FS_Subset
<1>2. f \in Surjection(open, S)
  BY DEF Surjection
<1>3. IsFiniteSet(S)
  BY <1>1, <1>2, FS_Surjection
<1>4. S \subseteq PhoneMessage
  BY MessagesTyped
<1>5. Refused(open) \in Seq(S) /\ \A x \in S : \E i \in DOMAIN Refused(open) : Refused(open)[i] = x
  <2> HIDE DEF S
  <2>1. Refused(open) = SetToSeq(S)
    BY DEF Refused, S
  <2> QED
    BY <1>3, <2>1, SetListed
<1>6. Refused(open) \in Seq(PhoneMessage)
  <2> HIDE DEF S
  <2> QED
    BY <1>4, <1>5
<1> QED
  BY <1>5, <1>6

\* What the close of the daemon's websocket leaves for the phone.
LostAt(n) ==
  LET told == SubSeq(toPhone, 1, n)
  IN  /\ told \in Seq(PhoneMessage) /\ Len(told) = n
      /\ \A i \in 1..n : told[i] = toPhone[i]
      /\ InFlight(n) \subseteq 1..MaxEvents
      /\ \E last \in {<<>>, <<Offline>>} :
           /\ last = <<Offline>> => \A i \in 1..n : told[i].kind # net
           /\ toPhone' = told \o Refused(InFlight(n)) \o last

LEMMA LostShape ==
  ASSUME TypeInv, DaemonLost
  PROVE  \E n \in 0..Len(toPhone) : LostAt(n)
<1>1. PICK n \in 0..Len(toPhone) :
       LET told == SubSeq(toPhone, 1, n)
           kinds == {told[i].kind : i \in DOMAIN told}
       IN  toPhone' = told \o Refused(InFlight(n))
             \o (IF net \in {"list", "view"} /\ net \notin kinds THEN <<Offline>> ELSE <<>>)
  BY DEF DaemonLost, Refused, InFlight
<1> DEFINE told == SubSeq(toPhone, 1, n)
<1>2. toPhone \in Seq(PhoneMessage) /\ n \in Nat /\ n <= Len(toPhone)
  <2>1. toPhone \in Seq(PhoneMessage) /\ Len(toPhone) \in Nat
    BY LenProperties DEF TypeInv, Wired
  <2> QED
    BY <2>1
<1>3. told \in Seq(PhoneMessage) /\ Len(told) = n /\ \A i \in 1..n : told[i] = toPhone[i]
  BY <1>2, SubSeqProperties
<1>4. InFlight(n) \subseteq 1..MaxEvents
  BY DEF TypeInv, CardsTypeOK, Response, InFlight
<1>5. \E last \in {<<>>, <<Offline>>} :
           /\ last = <<Offline>> => \A i \in 1..n : told[i].kind # net
           /\ toPhone' = told \o Refused(InFlight(n)) \o last
  <2> DEFINE last == IF net \in {"list", "view"} /\ net \notin {told[i].kind : i \in DOMAIN told}
                     THEN <<Offline>> ELSE <<>>
  <2>1. <<Offline>> # <<>>
    OBVIOUS
  <2>2. DOMAIN told = 1..n
    BY <1>3, LenProperties
  <2>3. last = <<Offline>> => \A i \in 1..n : told[i].kind # net
    BY <2>1, <2>2
  <2> QED
    BY <1>1, <2>3
<1> QED
  BY <1>3, <1>4, <1>5 DEF LostAt

LEMMA LostTyped ==
  ASSUME TypeInv, DaemonLost
  PROVE  CardsTypeOK' /\ Wired'
<1>1. PICK n \in 0..Len(toPhone) : LostAt(n)
  BY LostShape
<1> DEFINE told == SubSeq(toPhone, 1, n)
<1>2. PICK last \in {<<>>, <<Offline>>} : toPhone' = told \o Refused(InFlight(n)) \o last
  BY <1>1 DEF LostAt
<1>3. told \in Seq(PhoneMessage) /\ InFlight(n) \subseteq 1..MaxEvents
  BY <1>1 DEF LostAt
<1> HIDE DEF told
<1>4. last \in Seq(PhoneMessage)
  <2>1. <<>> \in Seq(PhoneMessage) /\ <<Offline>> \in Seq(PhoneMessage)
    BY MessagesTyped
  <2> QED
    BY <2>1
<1>5. toPhone' \in Seq(PhoneMessage)
  <2>1. told \o Refused(InFlight(n)) \in Seq(PhoneMessage)
    BY <1>3, RefusedAll, ConcatProperties
  <2> QED
    BY <1>2, <1>4, <2>1, ConcatProperties
<1>6. toDaemon' \in Seq(DaemonMessage)
  BY DEF DaemonLost
<1>7. Wired'
  BY <1>5, <1>6, SpendTyped, WiredKept DEF DaemonLost
<1> QED
  BY <1>7 DEF TypeInv, CardsTypeOK, DaemonLost, phoneVars, stateVars, zoneVars, historyVars

LEMMA RelayTyped ==
  ASSUME TypeInv, TimesOut \/ Registers
  PROVE  CardsTypeOK' /\ Wired'
<1> USE DEF phoneVars, stateVars, zoneVars, historyVars, daemonVars
<1>1. /\ toDaemon \in Seq(DaemonMessage) /\ toPhone \in Seq(PhoneMessage)
      /\ session \in Session /\ spent \in spent..MaxEvents
  BY DEF TypeInv, CardsTypeOK, Wired
<1>2. CASE TimesOut
  <2>1. PICK r \in asked : toPhone' = Append(toPhone, Answer(r.nr, FALSE))
    BY <1>2 DEF TimesOut
  <2>2. Answer(r.nr, FALSE) \in PhoneMessage
    BY MessagesTyped DEF TypeInv, CardsTypeOK, Response
  <2>3. toPhone' \in Seq(PhoneMessage)
    BY <1>1, <2>1, <2>2, AppendProperties
  <2>4. Wired'
    BY <1>1, <1>2, <2>3, SpendTyped, WiredKept DEF TimesOut
  <2> QED
    BY <1>2, <2>4 DEF TypeInv, CardsTypeOK, TimesOut
<1>3. CASE Registers
  <2>1. Told("session", session) \in PhoneMessage
    BY <1>1, MessagesTyped
  <2>2. toPhone' \in Seq(PhoneMessage)
    BY <1>1, <1>3, <2>1, AppendProperties DEF Registers
  <2>3. Wired'
    BY <1>1, <1>3, <2>2, WiredKept DEF Registers
  <2> QED
    BY <1>3, <2>3 DEF TypeInv, CardsTypeOK, Registers
<1> QED
  BY <1>2, <1>3

\* A settled response leaves a zone that stands a zone that stands.
LEMMA SettleTyped ==
  ASSUME TypeInv, NEW responses \in SUBSET asked, NEW phase \in Phases, Settle(responses, phase)
  PROVE  /\ zone' \in [Places -> {Unmounted} \cup [pending : BOOLEAN, phase : Phases, drawn : Phases]]
         /\ \A r \in asked' : r \in asked /\ (r.live => zone'[r.from] # Unmounted)
         /\ \A z \in Places : zone[z] # Unmounted => zone'[z] # Unmounted
<1> DEFINE Standing == [pending : BOOLEAN, phase : Phases, drawn : Phases]
<1>1. /\ zone \in [Places -> {Unmounted} \cup Standing]
      /\ \A r \in asked : r \in Response /\ (r.live => zone[r.from] # Unmounted)
  BY DEF TypeInv, CardsTypeOK, Wired
<1>2. \A w \in Standing : [w EXCEPT !.phase = phase] \in Standing
  OBVIOUS
<1>3. Unmounted \notin Standing
  BY DEF Unmounted, Phases
<1>4. \A z \in Places :
        zone'[z] = IF \E r \in responses : r.from = z /\ r.live
                   THEN [zone[z] EXCEPT !.phase = phase] ELSE zone[z]
  BY DEF Settle
<1>5. \A z \in Places : IF \E r \in responses : r.from = z /\ r.live
                        THEN zone[z] \in Standing /\ zone'[z] \in Standing ELSE zone'[z] = zone[z]
  <2> SUFFICES ASSUME NEW r \in responses, r.live
               PROVE  zone[r.from] \in Standing /\ zone'[r.from] \in Standing
    BY <1>4
  <2>1. r.from \in Places /\ zone[r.from] \in Standing
    BY <1>1 DEF Response
  <2>2. zone'[r.from] = [zone[r.from] EXCEPT !.phase = phase]
    BY <1>4, <2>1
  <2> QED
    BY <1>2, <2>1, <2>2
<1>6. zone' \in [Places -> {Unmounted} \cup Standing]
  <2>1. zone' = [z \in Places |-> zone'[z]]
    BY DEF Settle
  <2> QED
    BY <1>1, <1>5, <2>1
<1>7. \A r \in asked' : r \in asked /\ r.from \in Places
  BY <1>1 DEF Settle, Response
<1>8. \A r \in asked' : r.live => zone'[r.from] # Unmounted
  BY <1>1, <1>3, <1>5, <1>7
<1>9. \A z \in Places : zone[z] # Unmounted => zone'[z] # Unmounted
  BY <1>3, <1>5
<1> QED
  BY <1>6, <1>7, <1>8, <1>9

LEMMA ReceiveTyped ==
  ASSUME TypeInv, Receive
  PROVE  CardsTypeOK' /\ Wired'
<1> DEFINE m == Head(toPhone)
           subscribes == m.kind = "list" /\ net = "list" /\ opened
<1>1. /\ toDaemon \in Seq(DaemonMessage) /\ toPhone \in Seq(PhoneMessage) /\ toPhone # <<>>
      /\ known \in Session /\ 0 \in Ids
  BY BoundsAssumption DEF TypeInv, CardsTypeOK, Wired, Receive, Ids
<1>2. m \in PhoneMessage /\ Tail(toPhone) \in Seq(PhoneMessage)
  BY <1>1, HeadTailProperties
<1>3. /\ toPhone' = Tail(toPhone) \o (IF subscribes /\ ~linked THEN <<Offline>> ELSE <<>>)
      /\ toDaemon' = toDaemon \o (IF subscribes /\ linked THEN <<Ask("view")>> ELSE <<>>)
  BY DEF Receive
<1> HIDE DEF m, subscribes
<1>4. toPhone' \in Seq(PhoneMessage)
  <2>1. <<>> \in Seq(PhoneMessage) /\ <<Offline>> \in Seq(PhoneMessage)
    BY MessagesTyped
  <2> QED
    BY <1>2, <1>3, <2>1, ConcatProperties
<1>5. toDaemon' \in Seq(DaemonMessage)
  <2>1. <<>> \in Seq(DaemonMessage) /\ <<Ask("view")>> \in Seq(DaemonMessage)
    BY RequestsTyped
  <2> QED
    BY <1>1, <1>3, <2>1, ConcatProperties
<1>6. \/ /\ m.kind = "answer"
         /\ Settle({r \in asked : r.nr = m.nr}, IF m.ok THEN "submitted" ELSE "failed")
         /\ UNCHANGED <<net, known, card, fresh>>
      \/ /\ UNCHANGED <<asked, zone>>
         /\ known' \in Session /\ card' \in Ids /\ fresh' \in BOOLEAN
         /\ net' \in {"away", "list", "view", "online", "failed", "backoff"}
  <2>1. /\ card \in Ids /\ fresh \in BOOLEAN
        /\ net \in {"away", "list", "view", "online", "failed", "backoff"}
        /\ m.kind \in {"session", "list", "view", "open"} => m.session \in Session
        /\ m.kind = "requested" => m.id \in Ids
    BY <1>2, Carries DEF TypeInv, CardsTypeOK
  <2>2. m.kind \in {"view", "open"} => m.session.prompt \in Ids
    BY <2>1 DEF Session
  <2>3. \A id \in Ids : Refresh(id) => card' \in Ids /\ fresh' \in BOOLEAN
    BY DEF Refresh
  <2> QED
    BY <1>1, <2>1, <2>2, <2>3 DEF Receive, m
<1>7. /\ asked' \subseteq asked
      /\ zone' \in [Places -> {Unmounted} \cup [pending : BOOLEAN, phase : Phases, drawn : Phases]]
      /\ \A r \in asked' : r.live => zone'[r.from] # Unmounted
      /\ \A z \in Places : zone[z] # Unmounted => zone'[z] # Unmounted
  <2>1. CASE Settle({r \in asked : r.nr = m.nr}, IF m.ok THEN "submitted" ELSE "failed")
    <3>1. (IF m.ok THEN "submitted" ELSE "failed") \in Phases
      BY DEF Phases
    <3>2. {r \in asked : r.nr = m.nr} \in SUBSET asked
      OBVIOUS
    <3> QED
      BY <2>1, <3>1, <3>2, SettleTyped
  <2>2. CASE UNCHANGED <<asked, zone>>
    BY <2>2 DEF TypeInv, CardsTypeOK, Wired
  <2> QED
    BY <1>6, <2>1, <2>2
<1>8. Wired'
  BY <1>4, <1>5, <1>7 DEF TypeInv, CardsTypeOK, Wired, Receive, historyVars
<1> QED
  BY <1>6, <1>7 , <1>8 DEF TypeInv, CardsTypeOK, Receive, daemonVars, historyVars

\* The messages of a longer channel are of one of its parts.
LEMMA Parts ==
  ASSUME NEW S, NEW s \in Seq(S), NEW t \in Seq(S)
  PROVE  /\ Len(s) \in Nat /\ Len(t) \in Nat /\ Len(s \o t) = Len(s) + Len(t)
         /\ DOMAIN s = 1..Len(s) /\ DOMAIN t = 1..Len(t) /\ DOMAIN (s \o t) = 1..(Len(s) + Len(t))
         /\ \A i \in 1..Len(s) : (s \o t)[i] = s[i]
         /\ \A i \in 1..Len(t) : (s \o t)[Len(s) + i] = t[i]
         /\ \A i \in 1..(Len(s) + Len(t)) :
              i \in 1..Len(s) \/ (i - Len(s) \in 1..Len(t) /\ (s \o t)[i] = t[i - Len(s)])
<1>1. /\ Len(s) \in Nat /\ Len(t) \in Nat /\ Len(s \o t) = Len(s) + Len(t) /\ s \o t \in Seq(S)
      /\ DOMAIN s = 1..Len(s) /\ DOMAIN t = 1..Len(t) /\ DOMAIN (s \o t) = 1..Len(s \o t)
      /\ \A i \in 1..Len(s) : (s \o t)[i] = s[i]
      /\ \A i \in 1..Len(t) : (s \o t)[Len(s) + i] = t[i]
  BY ConcatProperties, LenProperties
<1>2. ASSUME NEW i \in 1..(Len(s) + Len(t)), i \notin 1..Len(s)
      PROVE  i - Len(s) \in 1..Len(t) /\ (s \o t)[i] = t[i - Len(s)]
  <2>1. i - Len(s) \in 1..Len(t) /\ Len(s) + (i - Len(s)) = i
    BY <1>1, <1>2
  <2> QED
    BY <1>1, <2>1
<1> QED
  BY <1>1, <1>2

\* Of the requests that a closed websocket carried, the responses remain.
LEMMA CutTyped ==
  ASSUME TypeInv, NEW requests \in Seq(DaemonMessage), Cut(requests)
  PROVE  /\ toDaemon' \in Seq(DaemonMessage)
         /\ \E d \in Nat : \A i \in DOMAIN toDaemon' :
              \/ toDaemon'[i].kind = "respond"
              \/ i - d \in DOMAIN requests /\ toDaemon'[i] = requests[i - d]
<1>1. PICK n \in 0..Len(toDaemon) :
    LET responses == {i \in 1..n : toDaemon[i].kind = "respond"}
    IN  \E at \in [1..Cardinality(responses) -> responses] :
          toDaemon' = [i \in DOMAIN at |-> toDaemon[at[i]]] \o requests
  BY DEF Cut
<1> DEFINE responses == {i \in 1..n : toDaemon[i].kind = "respond"}
<1>2. toDaemon \in Seq(DaemonMessage) /\ n \in Nat /\ n <= Len(toDaemon)
  <2>1. toDaemon \in Seq(DaemonMessage) /\ Len(toDaemon) \in Nat
    BY LenProperties DEF TypeInv, Wired
  <2> QED
    BY <2>1
<1>3. PICK at \in [1..Cardinality(responses) -> responses] :
        toDaemon' = [i \in DOMAIN at |-> toDaemon[at[i]]] \o requests
  BY <1>1
<1>4. Cardinality(responses) \in Nat
  <2>1. IsFiniteSet(1..n) /\ responses \subseteq 1..n
    BY <1>2, FS_Interval
  <2> QED
    BY <2>1, FS_Subset, FS_CardinalityType
<1>5. \A i \in responses : toDaemon[i] \in DaemonMessage /\ toDaemon[i].kind = "respond"
  BY <1>2
<1> HIDE DEF responses
<1> DEFINE left == [i \in DOMAIN at |-> toDaemon[at[i]]]
<1>6. /\ left \in [1..Cardinality(responses) -> DaemonMessage]
      /\ \A i \in 1..Cardinality(responses) : left[i].kind = "respond"
  BY <1>3, <1>5
<1>7. toDaemon' = left \o requests
  BY <1>3
<1> HIDE DEF left
<1>8. left \in Seq(DaemonMessage) /\ \A i \in DOMAIN left : left[i].kind = "respond"
  BY <1>4, <1>6
<1>9. toDaemon' \in Seq(DaemonMessage)
  BY <1>7, <1>8, ConcatProperties
<1>10. \A i \in DOMAIN toDaemon' :
         \/ toDaemon'[i].kind = "respond"
         \/ i - Len(left) \in DOMAIN requests /\ toDaemon'[i] = requests[i - Len(left)]
  BY <1>7, <1>8, Parts
<1>11. Len(left) \in Nat
  BY <1>8, LenProperties
<1> QED
  BY <1>9, <1>10, <1>11

LEMMA CloseTyped ==
  ASSUME TypeInv, PhoneLost \/ Retry \/ RunFails \/ TimerFires \/ Reconnects
  PROVE  CardsTypeOK' /\ Wired'
<1> USE DEF stateVars, historyVars, daemonVars
<1>1. CASE PhoneLost
  <2>1. "failed" \in Phases /\ asked \in SUBSET asked
    BY DEF Phases
  <2>2. /\ asked' \subseteq asked
        /\ zone' \in [Places -> {Unmounted} \cup [pending : BOOLEAN, phase : Phases, drawn : Phases]]
        /\ \A r \in asked' : r.live => zone'[r.from] # Unmounted
        /\ \A z \in Places : zone[z] # Unmounted => zone'[z] # Unmounted
    BY <1>1, <2>1, SettleTyped DEF PhoneLost, Outstanding
  <2>3. toDaemon' \in Seq(DaemonMessage) /\ toPhone' \in Seq(PhoneMessage)
    <3>1. Cut(<<>>) /\ toPhone' = <<>>
      BY <1>1 DEF PhoneLost
    <3>2. <<>> \in Seq(DaemonMessage)
      OBVIOUS
    <3>3. toDaemon' \in Seq(DaemonMessage)
      BY ONLY TypeInv, <3>1, <3>2, CutTyped
    <3> QED
      BY <3>1, <3>3
  <2>4. spent' = spent + 1 /\ spent' \in 1..MaxEvents /\ spent \in 0..MaxEvents
    BY <1>1, SpendTyped DEF PhoneLost, TypeInv, Wired
  <2>5. \A z \in Places : sent[z] <= spent'
    <3>1. \A z \in Places : sent[z] \in Nat /\ sent[z] <= spent
      BY DEF TypeInv, Wired, CardsInv, ZonesTyped
    <3> QED
      BY <2>4, <3>1
  <2>6. due \subseteq Places
    BY DEF TypeInv, CardsTypeOK
  <2>7. Wired'
    BY <1>1, <2>2, <2>3, <2>4, <2>5, <2>6, BoundsAssumption DEF TypeInv, Wired, PhoneLost
  <2> QED
    BY <1>1, <2>2, <2>7 DEF TypeInv, CardsTypeOK, PhoneLost
<1>2. CASE Retry \/ RunFails \/ TimerFires
  <2>1. /\ UNCHANGED <<daemonVars, toDaemon, toPhone, stuck, stateVars, zoneVars, asked, ignored>>
        /\ net' \in {"away", "backoff"}
    BY <1>2 DEF Retry, RunFails, TimerFires, Replace
  <2>2. spent' \in spent..MaxEvents
    <3>1. spent \in spent..MaxEvents
      BY BoundsAssumption DEF TypeInv, Wired
    <3> QED
      BY <1>2, <3>1, SpendTyped DEF Retry, RunFails, TimerFires
  <2>3. Wired'
    BY <2>1, <2>2, WiredKept DEF TypeInv, Wired
  <2> QED
    BY <2>1, <2>3 DEF TypeInv, CardsTypeOK, zoneVars
<1>3. CASE Reconnects
  <2>1. toDaemon' \in Seq(DaemonMessage) /\ toPhone' \in Seq(PhoneMessage)
    <3>1. Cut(<<Ask("list")>>) /\ toPhone' = <<>>
      BY <1>3 DEF Reconnects
    <3>2. <<Ask("list")>> \in Seq(DaemonMessage)
      BY RequestsTyped
    <3>3. toDaemon' \in Seq(DaemonMessage)
      BY ONLY TypeInv, <3>1, <3>2, CutTyped
    <3> QED
      BY <3>1, <3>3
  <2>2. asked' \subseteq Response /\ \A r \in asked' : r.live => zone[r.from] # Unmounted
    <3>1. \A r \in asked : r \in Response /\ (r.live => zone[r.from] # Unmounted)
      BY DEF TypeInv, CardsTypeOK, Wired
    <3> SUFFICES ASSUME NEW q \in asked'
                 PROVE  q \in Response /\ (q.live => zone[q.from] # Unmounted)
      OBVIOUS
    <3>2. PICK r \in asked : q = [r EXCEPT !.adrift = TRUE]
      BY <1>3 DEF Reconnects
    <3>3. q \in Response /\ q.live = r.live /\ q.from = r.from
      BY <3>1, <3>2 DEF Response
    <3> QED
      BY <3>1, <3>3
  <2>3. stuck' \in BOOLEAN
    BY <1>3 DEF Reconnects, Subscribing, TypeInv, CardsTypeOK
  <2>4. Wired'
    BY <1>3, <2>1, <2>2 DEF TypeInv, Wired, Reconnects, zoneVars
  <2> QED
    BY <1>3, <2>2, <2>3, <2>4 DEF TypeInv, CardsTypeOK, Reconnects, zoneVars
<1> QED
  BY <1>1, <1>2, <1>3

\* Render keeps the responses, and the zones that stand among those of live ones.
LEMMA RenderTyped ==
  ASSUME TypeInv, Render
  PROVE  CardsTypeOK' /\ Wired'
<1> DEFINE Standing == [pending : BOOLEAN, phase : Phases, drawn : Phases]
<1>1. Mounted \in Standing /\ Mounted # Unmounted /\ Unmounted \notin Standing
  BY DEF Mounted, Unmounted, Phases
<1>2. zone \in [Places -> {Unmounted} \cup Standing]
  BY DEF TypeInv, CardsTypeOK
<1>3. ASSUME NEW z \in Places PROVE
        /\ zone'[z] \in {Unmounted} \cup Standing
        /\ Stays(z) \/ z \in due' => zone'[z] # Unmounted
  <2>1. /\ zone'[z] = IF ~Shows(z) THEN Unmounted ELSE IF ~Stays(z) THEN Mounted
                      ELSE [zone[z] EXCEPT !.drawn = zone[z].phase]
        /\ z \in due' => Shows(z)
    BY DEF Render
  <2>2. Stays(z) => Shows(z) /\ zone[z] \in Standing
    BY <1>2 DEF Stays
  <2>3. Stays(z) => [zone[z] EXCEPT !.drawn = zone[z].phase] \in Standing
    BY <2>2
  <2> QED
    BY <1>1, <2>1, <2>2, <2>3
<1>4. zone' \in [Places -> {Unmounted} \cup Standing]
  <2> HIDE DEF Standing
  <2>1. zone' = [z \in Places |-> zone'[z]]
    BY DEF Render
  <2> QED
    BY <1>3, <2>1
<1>5. ASSUME NEW r \in asked, NEW q, q = [r EXCEPT !.live = r.live /\ Stays(r.from)]
      PROVE  q \in Response /\ (q.live => zone'[q.from] # Unmounted)
  <2>1. r \in Response
    BY DEF TypeInv, CardsTypeOK
  <2>2. r.from \in Places /\ q.from = r.from /\ (q.live <=> r.live /\ Stays(r.from))
    BY <1>5, <2>1 DEF Response
  <2>3. q \in Response
    BY <1>5, <2>1 DEF Response
  <2> QED
    BY <1>3, <2>2, <2>3
<1>6. asked' \subseteq Response /\ \A r \in asked' : r.live => zone'[r.from] # Unmounted
  <2>1. \A q \in asked' : \E r \in asked : q = [r EXCEPT !.live = r.live /\ Stays(r.from)]
    BY DEF Render
  <2> QED
    BY <1>5, <2>1
<1>7. seen' = Drawn /\ Drawn \in [session : Session, card : Ids, online : BOOLEAN, route : {"inbox", "session"}]
  BY DEF Render, Drawn, Online, TypeInv, CardsTypeOK
<1>8. Wired'
  <2>1. due' \subseteq Places /\ \A z \in due' : zone'[z] # Unmounted
    BY <1>3 DEF Render
  <2>2. \A z \in Places : sent'[z] <= spent'
    <3>1. spent' = spent /\ spent \in 0..MaxEvents
      BY DEF Render, TypeInv, Wired
    <3>2. \A z \in Places : sent'[z] \in {sent[z], 0} /\ sent[z] <= spent
      BY DEF Render, TypeInv, Wired
    <3> QED
      BY <3>1, <3>2, BoundsAssumption
  <2> QED
    BY <1>6, <1>7, <2>1, <2>2 DEF TypeInv, Wired, Render
<1>9. sent' \in [Places -> 0..MaxEvents] /\ replied' \in [Places -> SUBSET Ids]
  <2>1. 0 \in 0..MaxEvents
    BY BoundsAssumption
  <2> QED
    BY <2>1 DEF Render, TypeInv, CardsTypeOK
<1>10. crossed' \subseteq Places /\ due' \subseteq Places /\ hasty' \subseteq Places
  BY DEF Render, TypeInv, CardsTypeOK
<1> QED
  BY <1>4, <1>6, <1>8, <1>9, <1>10 DEF TypeInv, CardsTypeOK, Render, daemonVars

LEMMA EffectsTyped ==
  ASSUME TypeInv, Effects
  PROVE  CardsTypeOK' /\ Wired'
<1> DEFINE Standing == [pending : BOOLEAN, phase : Phases, drawn : Phases]
<1>1. zone \in [Places -> {Unmounted} \cup Standing] /\ due \subseteq Places
  BY DEF TypeInv, CardsTypeOK
<1>2. Unmounted \notin Standing /\ "idle" \in Phases
  BY DEF Unmounted, Phases
<1>3. ASSUME NEW z \in due PROVE Renewed(z) \in Standing
  <2>1. zone[z] \in Standing
    BY <1>1 DEF TypeInv, Wired
  <2> QED
    BY <1>2, <2>1 DEF Renewed
<1>4. /\ zone' = [z \in Places |-> IF z \in due THEN Renewed(z) ELSE zone[z]]
      /\ due' = {}
      /\ UNCHANGED <<daemonVars, toDaemon, toPhone, phoneVars, seen, historyVars, asked, ignored, spent>>
  BY DEF Effects
<1>5. zone' \in [Places -> {Unmounted} \cup Standing]
  <2> HIDE DEF Standing
  <2> QED
    BY <1>1, <1>3, <1>4
<1>6. \A z \in Places : zone[z] # Unmounted => zone'[z] # Unmounted
  <2> HIDE DEF Standing
  <2> QED
    BY <1>2, <1>3, <1>4
<1>7. \A r \in asked : r.from \in Places
  BY DEF TypeInv, CardsTypeOK, Response
<1>8. Wired'
  BY <1>4, <1>6, <1>7 DEF TypeInv, Wired, historyVars
<1> QED
  BY <1>4, <1>5, <1>8 DEF TypeInv, CardsTypeOK, daemonVars, phoneVars, stateVars, historyVars

LEMMA SubmitTyped ==
  ASSUME TypeInv, NEW z \in Places, Submit(z)
  PROVE  CardsTypeOK' /\ Wired'
<1> DEFINE Standing == [pending : BOOLEAN, phase : Phases, drawn : Phases]
           q == [nr |-> spent', from |-> z, id |-> seen.card, live |-> TRUE, adrift |-> FALSE]
<1>1. /\ toDaemon \in Seq(DaemonMessage) /\ toPhone \in Seq(PhoneMessage)
      /\ spent' = spent + 1 /\ spent' \in 1..MaxEvents /\ seen.card \in Ids \ {0}
  BY SpendTyped DEF TypeInv, Wired, Submit, CanSubmit
<1>2. zone \in [Places -> {Unmounted} \cup Standing] /\ zone[z] \in Standing
  BY DEF TypeInv, CardsTypeOK, Submit, CanSubmit, Unmounted
<1>3. /\ \A y \in Places \ {z} : zone'[y] = zone[y]
      /\ zone'[z] \in Standing
      /\ zone' \in [Places -> {Unmounted} \cup Standing]
  <2> DEFINE phase == IF net = "away" THEN "failed" ELSE "submitting"
             marked == [zone EXCEPT ![z].pending = TRUE]
  <2>1. phase \in Phases
    BY DEF Phases
  <2>2. zone' = [marked EXCEPT ![z].phase = phase]
    BY DEF Submit
  <2>3. marked \in [Places -> {Unmounted} \cup Standing] /\ marked[z] \in Standing
    BY <1>2
  <2>4. \A y \in Places \ {z} : marked[y] = zone[y]
    BY <1>2
  <2> HIDE DEF phase, marked
  <2> QED
    BY <2>1, <2>2, <2>3, <2>4
<1>4. q \in Response
  BY <1>1 DEF Response
<1>5. /\ asked' \subseteq asked \cup {q}
      /\ toDaemon' \in Seq(DaemonMessage) /\ toPhone' \in Seq(PhoneMessage)
  <2>1. <<Respond(spent', seen.card)>> \in Seq(DaemonMessage) /\ <<>> \in Seq(DaemonMessage)
    BY <1>1, RequestsTyped
  <2> DEFINE refusal == Answer(spent', FALSE)
  <2>2. <<refusal>> \in Seq(PhoneMessage) /\ <<>> \in Seq(PhoneMessage)
    <3>1. refusal \in PhoneMessage
      BY <1>1, MessagesTyped
    <3> HIDE DEF refusal
    <3> QED
      BY <3>1
  <2>3. CASE net = "away"
    BY <1>1, <2>3 DEF Submit, Request
  <2>4. CASE net # "away"
    <3>1. /\ asked' = asked \cup {q}
          /\ toDaemon' = toDaemon \o (IF linked THEN <<Respond(spent', seen.card)>> ELSE <<>>)
          /\ toPhone' = toPhone \o (IF linked THEN <<>> ELSE <<refusal>>)
      BY <2>4 DEF Submit, Request
    <3> HIDE DEF q, refusal
    <3> QED
      BY <1>1, <2>1, <2>2, <3>1, ConcatProperties
  <2> QED
    BY <2>3, <2>4
<1>6. asked' \subseteq Response /\ \A r \in asked' : r.live => zone'[r.from] # Unmounted
  <2>1. Unmounted \notin Standing
    BY DEF Unmounted, Phases
  <2>2. \A r \in asked : r \in Response /\ r.from \in Places /\ (r.live => zone[r.from] # Unmounted)
    BY DEF TypeInv, CardsTypeOK, Wired, Response
  <2>3. zone'[z] # Unmounted
    BY <1>3, <2>1
  <2>4. \A r \in asked : r.live => zone'[r.from] # Unmounted
    BY <1>3, <2>2, <2>3
  <2>5. q.from = z
    OBVIOUS
  <2> HIDE DEF q
  <2> QED
    BY <1>4, <1>5, <2>2, <2>3, <2>4, <2>5
<1>7. /\ sent' \in [Places -> 0..MaxEvents] /\ replied' \in [Places -> SUBSET Ids]
      /\ \A y \in Places : sent'[y] <= spent'
  <2>1. \A y \in Places : sent[y] \in 0..MaxEvents /\ sent[y] <= spent
    BY DEF TypeInv, CardsTypeOK, Wired
  <2>2. spent \in Nat /\ sent[z] + 1 <= spent' /\ sent[z] + 1 \in 0..MaxEvents
    BY <1>1, <2>1, BoundsAssumption DEF TypeInv, Wired
  <2>3. sent' = [sent EXCEPT ![z] = @ + 1] /\ sent \in [Places -> 0..MaxEvents]
    BY DEF TypeInv, CardsTypeOK, Submit
  <2>4. \A y \in Places : sent'[y] <= spent'
    BY <1>1, <2>1, <2>2, <2>3
  <2> QED
    BY <1>1, <2>2, <2>3, <2>4 DEF TypeInv, CardsTypeOK, Submit
<1>8. due' = due /\ due \subseteq Places /\ \A y \in due : zone'[y] # Unmounted
  <2>1. zone'[z] # Unmounted
    BY <1>3 DEF Unmounted, Phases
  <2>2. due' = due /\ due \subseteq Places /\ \A y \in due : zone[y] # Unmounted
    BY DEF TypeInv, CardsTypeOK, Wired, Submit
  <2> QED
    BY <1>3, <2>1, <2>2
<1>9. Wired'
  <2>1. spent' \in 0..MaxEvents /\ seen' = seen
    BY <1>1, BoundsAssumption DEF Submit
  <2>2. \A y \in due' : zone'[y] # Unmounted
    BY <1>8
  <2> QED
    BY <1>5, <1>6, <1>7, <2>1, <2>2 DEF TypeInv, Wired
<1>10. hasty' \subseteq Places
  BY DEF TypeInv, CardsTypeOK, Submit
<1> QED
  BY <1>3, <1>6, <1>7, <1>8, <1>9, <1>10
     DEF TypeInv, CardsTypeOK, Submit, daemonVars, phoneVars, stateVars

LEMMA UserTyped ==
  ASSUME TypeInv, Dismiss \/ Open \/ Back
  PROVE  CardsTypeOK' /\ Wired'
<1> USE DEF daemonVars, zoneVars, historyVars
<1>1. /\ toDaemon \in Seq(DaemonMessage) /\ toPhone \in Seq(PhoneMessage)
      /\ seen.session \in Session /\ spent \in spent..MaxEvents
  BY BoundsAssumption DEF TypeInv, Wired
<1>2. CASE Dismiss
  <2>1. Wired'
    BY <1>1, <1>2, SpendTyped, WiredKept DEF Dismiss
  <2>2. Key(seen.session) \in [status : {"waiting", "stopped"}, stamp : Nat] /\ seen.session.prompt \in Ids
    BY <1>1, <1>2 DEF Dismiss, Attention, Key, Session
  <2> QED
    BY <1>2, <2>1, <2>2 DEF TypeInv, CardsTypeOK, Dismiss
<1>3. CASE Open
  <2>1. <<>> \in Seq(DaemonMessage) /\ <<Ask("open")>> \in Seq(DaemonMessage)
    BY RequestsTyped
  <2>2. toDaemon' \in Seq(DaemonMessage)
    BY <1>1, <1>3, <2>1, ConcatProperties DEF Open
  <2>3. Wired'
    BY <1>1, <1>3, <2>2, SpendTyped, WiredKept DEF Open
  <2> QED
    BY <1>3, <2>3 DEF TypeInv, CardsTypeOK, Open
<1>4. CASE Back
  <2>1. Wired'
    BY <1>1, <1>4, WiredKept DEF Back
  <2> QED
    BY <1>4, <2>1 DEF TypeInv, CardsTypeOK, Back
<1> QED
  BY <1>2, <1>3, <1>4

LEMMA TypeStep ==
  ASSUME TypeInv, [CardsNext]_cardVars
  PROVE  TypeInv'
<1>1. CardsInv'
  BY StepKeeps DEF TypeInv
<1>2. CASE CardsNext
  BY <1>1, <1>2, DaemonTyped, HandlesTyped, LostTyped, RelayTyped, ReceiveTyped, CloseTyped,
     RenderTyped, EffectsTyped, SubmitTyped, UserTyped DEF CardsNext, TypeInv
<1>3. CASE UNCHANGED cardVars
  BY <1>1, <1>3 DEF TypeInv, CardsTypeOK, Wired, cardVars, daemonVars, phoneVars, stateVars,
                    zoneVars, historyVars
<1> QED
  BY <1>2, <1>3

LEMMA InitTypes == CardsInit => TypeInv
<1> SUFFICES ASSUME CardsInit PROVE TypeInv
  OBVIOUS
<1>1. 0 \in Ids /\ 0 \in 0..MaxEvents
  BY BoundsAssumption DEF Ids
<1>2. session \in Session
  BY <1>1 DEF CardsInit, Session
<1>3. CardsTypeOK
  BY <1>1, <1>2 DEF CardsInit, CardsTypeOK
<1>4. Wired
  BY <1>1, <1>2 DEF CardsInit, Wired
<1> QED
  BY <1>3, <1>4, InitInv DEF TypeInv

\* What the phone and the daemon keep of the session, and each zone, stays of
\* its type: a response settles only zones that stand (StructuredActionZone.tsx),
\* and a zone counts at most MaxEvents responses.
THEOREM CardsTyped == CardsSpec => []CardsTypeOK
<1>1. TypeInv => CardsTypeOK
  BY DEF TypeInv
<1> QED
  BY <1>1, InitTypes, TypeStep, PTL DEF CardsSpec

-----------------------------------------------------------------------------
(* Responses on their way.                                                 *)

OnItsWay(nr, id) ==
  \/ \E i \in DOMAIN toDaemon : toDaemon[i] = Respond(nr, id)
  \/ \E i \in DOMAIN toPhone : \E ok \in BOOLEAN : toPhone[i] = Answer(nr, ok)

\* Nothing settles a response that is adrift but the loss of a connection.
Settling(r) == r.adrift \/ OnItsWay(r.nr, r.id)

SendingIsAwaited == \A z \in Places : zone[z].phase = "submitting" => Answering(z)

SettledInv == TypeInv /\ SendingIsAwaited /\ \A r \in asked : Settling(r)

LEMMA SettledIs == SendingIsAwaited /\ (\A r \in asked : Settling(r)) <=> SubmittingIsSettled
BY DEF SendingIsAwaited, Settling, OnItsWay, SubmittingIsSettled

\* What is on its way stays on its way while neither channel loses anything.
LEMMA StaysOnItsWay ==
  ASSUME \A i \in DOMAIN toDaemon : \E j \in DOMAIN toDaemon' : toDaemon'[j] = toDaemon[i],
         \A i \in DOMAIN toPhone : \E j \in DOMAIN toPhone' : toPhone'[j] = toPhone[i],
         NEW nr, NEW id, OnItsWay(nr, id)
  PROVE  OnItsWay(nr, id)'
BY DEF OnItsWay

LEMMA Longer ==
  ASSUME NEW S, NEW s \in Seq(S), NEW t \in Seq(S)
  PROVE  /\ \A i \in DOMAIN s : \E j \in DOMAIN (s \o t) : (s \o t)[j] = s[i]
         /\ \A i \in DOMAIN t : \E j \in DOMAIN (s \o t) : (s \o t)[j] = t[i]
<1>1. /\ Len(s \o t) = Len(s) + Len(t) /\ s \o t \in Seq(S)
      /\ \A i \in 1..Len(s) : (s \o t)[i] = s[i]
      /\ \A i \in 1..Len(t) : (s \o t)[Len(s) + i] = t[i]
      /\ DOMAIN s = 1..Len(s) /\ DOMAIN t = 1..Len(t) /\ DOMAIN (s \o t) = 1..Len(s \o t)
      /\ Len(s) \in Nat /\ Len(t) \in Nat
  BY ConcatProperties, LenProperties
<1>2. ASSUME NEW i \in DOMAIN s PROVE \E j \in DOMAIN (s \o t) : (s \o t)[j] = s[i]
  BY <1>1, <1>2
<1>3. ASSUME NEW i \in DOMAIN t PROVE \E j \in DOMAIN (s \o t) : (s \o t)[j] = t[i]
  <2>1. Len(s) + i \in DOMAIN (s \o t) /\ (s \o t)[Len(s) + i] = t[i]
    BY <1>1, <1>3
  <2> QED
    BY <2>1
<1> QED
  BY <1>2, <1>3

Within(s, t) == \A i \in DOMAIN s : \E j \in DOMAIN t : t[j] = s[i]

LEMMA WithinLonger ==
  ASSUME NEW S, NEW s \in Seq(S), NEW t \in Seq(S)
  PROVE  Within(s, s \o t) /\ Within(t, s \o t) /\ s \o t \in Seq(S)
<1>1. \A i \in DOMAIN s : \E j \in DOMAIN (s \o t) : (s \o t)[j] = s[i]
  BY Longer
<1>2. \A i \in DOMAIN t : \E j \in DOMAIN (s \o t) : (s \o t)[j] = t[i]
  BY Longer
<1>3. s \o t \in Seq(S)
  BY ConcatProperties
<1> QED
  BY <1>1, <1>2, <1>3 DEF Within

LEMMA WithinWithin ==
  ASSUME NEW s, NEW t, NEW u, Within(s, t), Within(t, u)
  PROVE  Within(s, u)
BY DEF Within

LEMMA LongerTwice ==
  ASSUME NEW S, NEW s \in Seq(S), NEW t \in Seq(S), NEW u \in Seq(S)
  PROVE  Within(s, s \o t \o u) /\ Within(t, s \o t \o u)
BY WithinLonger, WithinWithin

LEMMA LongerByOne ==
  ASSUME NEW S, NEW s \in Seq(S), NEW x \in S
  PROVE  \A i \in DOMAIN s : \E j \in DOMAIN Append(s, x) : Append(s, x)[j] = s[i]
BY AppendProperties, LenProperties

LEMMA Lands ==
  ASSUME NEW S, NEW s \in Seq(S), NEW x \in S, NEW t \in Seq(S)
  PROVE  /\ \E j \in DOMAIN (s \o <<x>>) : (s \o <<x>>)[j] = x
         /\ \E j \in DOMAIN (s \o (<<x>> \o t)) : (s \o (<<x>> \o t))[j] = x
<1>1. <<x>> \in Seq(S) /\ 1 \in DOMAIN <<x>> /\ <<x>>[1] = x
  OBVIOUS
<1>2. <<x>> \o t \in Seq(S) /\ 1 \in DOMAIN (<<x>> \o t) /\ (<<x>> \o t)[1] = x
  BY <1>1
<1>3. \E j \in DOMAIN (s \o <<x>>) : (s \o <<x>>)[j] = <<x>>[1]
  <2> DEFINE u == <<x>>
  <2>1. u \in Seq(S) /\ 1 \in DOMAIN u
    BY <1>1
  <2> HIDE DEF u
  <2>2. \E j \in DOMAIN (s \o u) : (s \o u)[j] = u[1]
    BY <2>1, Longer
  <2> QED
    BY <2>2 DEF u
<1>4. \E j \in DOMAIN (s \o (<<x>> \o t)) : (s \o (<<x>> \o t))[j] = (<<x>> \o t)[1]
  <2> DEFINE u == <<x>> \o t
  <2>1. u \in Seq(S) /\ 1 \in DOMAIN u
    BY <1>2
  <2> HIDE DEF u
  <2>2. \E j \in DOMAIN (s \o u) : (s \o u)[j] = u[1]
    BY <2>1, Longer
  <2> QED
    BY <2>2 DEF u
<1> QED
  BY <1>1, <1>2, <1>3, <1>4

LEMMA EmitKeeps ==
  ASSUME TypeInv, NEW events \in Seq(PhoneMessage), Emit(events)
  PROVE  \A i \in DOMAIN toPhone : \E j \in DOMAIN toPhone' : toPhone'[j] = toPhone[i]
<1>1. toPhone \in Seq(PhoneMessage) /\ Emitted(events) \in Seq(PhoneMessage)
  BY DEF TypeInv, Wired, Emitted
<1>2. toPhone' = toPhone \o Emitted(events)
  BY DEF Emit
<1>3. Within(toPhone, toPhone \o Emitted(events))
  BY <1>1, WithinLonger
<1> QED
  BY <1>2, <1>3 DEF Within

\* The events among what the phone is sent.
Event == {Told("session", s) : s \in Session} \cup {Requested(id) : id \in Ids} \cup {Resolved}

LEMMA EventsTyped ==
  /\ \A s \in Session : Told("session", s) \in Event
  /\ \A id \in Ids : Requested(id) \in Event
  /\ Resolved \in Event
  /\ \A events \in Seq(Event) : events \in Seq(PhoneMessage)
<1>1. Event \subseteq PhoneMessage
  BY DEF Event, PhoneMessage
<1>2. \A events \in Seq(Event) : events \in Seq(PhoneMessage)
  BY <1>1, SeqMonotonic
<1> QED
  BY <1>2 DEF Event

LEMMA ClosingTyped ==
  ASSUME TypeInv
  PROVE  /\ Closing \in Seq(Event) /\ Closing \in Seq(PhoneMessage)
         /\ Now \in Nat /\ session \in Session
<1>1. session \in Session /\ Now \in Nat /\ 0 \in Ids
  BY BoundsAssumption DEF TypeInv, CardsTypeOK, Session, Now, Ids
<1>2. Resolved \in Event /\ Told("session", Becomes("running", Now, 0)) \in Event
  BY <1>1, BecomesTyped, EventsTyped
<1>3. Closing \in Seq(Event)
  BY <1>2 DEF Closing
<1> QED
  BY <1>1, <1>3, EventsTyped

\* The events of the daemon's own steps.
LEMMA OwnEvents ==
  ASSUME TypeInv, Prompts \/ Withdraws \/ Touched \/ Exits
  PROVE  toPhone' = toPhone \/ \E events \in Seq(Event) : Emit(events)
<1> DEFINE told == Told("session", Becomes("stopped", Now + 1, 0))
           closed == IF session.prompt = 0 THEN <<>> ELSE <<Resolved>>
           found == <<Requested(lastId + 1), Told("session", session')>>
<1>1. session' \in Session /\ lastId' \in Ids
  BY DaemonTyped DEF CardsTypeOK
<1>2. Closing \in Seq(Event) /\ Now \in Nat
  BY ClosingTyped
<1>3. CASE Prompts
  <2>1. Requested(lastId + 1) \in Event /\ Told("session", session') \in Event
    BY <1>1, <1>3, EventsTyped DEF Prompts
  <2>2. found \in Seq(Event)
    BY <2>1
  <2>3. Emit(Closing \o found)
    BY <1>3 DEF Prompts
  <2> HIDE DEF found
  <2>4. Closing \o found \in Seq(Event)
    BY <1>2, <2>2, ConcatProperties
  <2> QED
    BY <2>3, <2>4
<1>4. CASE Withdraws
  BY <1>2, <1>4 DEF Withdraws
<1>5. CASE Touched
  BY <1>5 DEF Touched
<1>6. CASE Exits
  <2>1. told \in Event /\ Resolved \in Event
    <3>1. 0 \in Ids /\ Now + 1 \in Nat
      BY <1>2, BoundsAssumption DEF Ids
    <3> QED
      BY <3>1, BecomesTyped, EventsTyped
  <2>2. Emit(closed \o <<told>>)
    BY <1>6 DEF Exits
  <2> HIDE DEF told
  <2>3. closed \in Seq(Event) /\ <<told>> \in Seq(Event)
    BY <2>1
  <2> HIDE DEF closed
  <2>4. closed \o <<told>> \in Seq(Event)
    BY <2>3, ConcatProperties
  <2> QED
    BY <2>2, <2>4
<1> QED
  BY <1>3, <1>4, <1>5, <1>6

\* Steps that leave the zones and the awaited responses alone.
LEMMA ChannelsSettled ==
  ASSUME SettledInv, UNCHANGED <<zone, asked>>,
         \A r \in asked : Settling(r)'
  PROVE  SendingIsAwaited' /\ \A r \in asked' : Settling(r)'
BY DEF SettledInv, SendingIsAwaited, Answering

LEMMA HandlesSettled ==
  ASSUME SettledInv, Handles, NEW r \in asked, ~r.adrift
  PROVE  OnItsWay(r.nr, r.id)'
<1> DEFINE h == Head(toDaemon)
<1>1. TypeInv /\ OnItsWay(r.nr, r.id)
  BY DEF SettledInv, Settling
<1>2. /\ toDaemon \in Seq(DaemonMessage) /\ toDaemon # <<>> /\ toDaemon' = Tail(toDaemon)
      /\ toPhone \in Seq(PhoneMessage)
  BY <1>1 DEF Handles, TypeInv, Wired
<1>3. /\ h = toDaemon[1] /\ h \in DaemonMessage
      /\ \A i \in DOMAIN toDaemon : i = 1 \/ \E j \in DOMAIN toDaemon' : toDaemon'[j] = toDaemon[i]
  <2>1. h = toDaemon[1] /\ h \in DaemonMessage
    BY <1>2, HeadTailProperties
  <2>2. \A i \in DOMAIN toDaemon : i # 1 => i - 1 \in DOMAIN Tail(toDaemon) /\ Tail(toDaemon)[i - 1] = toDaemon[i]
    BY <1>2, HeadTailProperties, LenProperties
  <2> QED
    BY <1>2, <2>1, <2>2
<1>4. ASSUME NEW ok \in BOOLEAN, h.kind = "respond" PROVE Reply(h.nr, ok) \in Seq(PhoneMessage)
  <2>1. Answer(h.nr, ok) \in PhoneMessage
    BY <1>3, <1>4, Asks, MessagesTyped
  <2> QED
    BY <2>1 DEF Reply
<1>5. \A i \in DOMAIN toPhone : \E j \in DOMAIN toPhone' : toPhone'[j] = toPhone[i]
  <2>1. CASE /\ h.kind \in {"list", "view", "open"}
             /\ toPhone' \in {toPhone, Append(toPhone, Told(h.kind, session))}
    <3>1. Told(h.kind, session) \in PhoneMessage
      BY <1>1, <2>1, MessagesTyped DEF TypeInv, CardsTypeOK
    <3>2. CASE toPhone' = toPhone
      BY <3>2
    <3>3. CASE toPhone' = Append(toPhone, Told(h.kind, session))
      BY <1>2, <3>1, <3>3, LongerByOne, ZenonT(40)
    <3> QED
      BY <2>1, <3>2, <3>3
  <2>2. CASE h.kind = "respond" /\ toPhone' = toPhone \o Reply(h.nr, TRUE) \o Emitted(Closing)
    <3>1. Reply(h.nr, TRUE) \in Seq(PhoneMessage) /\ Emitted(Closing) \in Seq(PhoneMessage)
      BY <1>1, <1>4, <2>2, ClosingTyped, EmittedTyped
    <3>2. toPhone \in Seq(PhoneMessage)
      BY <1>2
    <3>3. Within(toPhone, toPhone \o Reply(h.nr, TRUE) \o Emitted(Closing))
      BY <3>1, <3>2, LongerTwice
    <3> QED
      BY <2>2, <3>3 DEF Within
  <2>3. CASE h.kind = "respond" /\ toPhone' = toPhone \o Reply(h.nr, FALSE)
    <3> DEFINE reply == Reply(h.nr, FALSE)
    <3>1. reply \in Seq(PhoneMessage)
      BY <1>4, <2>3
    <3>2. toPhone' = toPhone \o reply
      BY <2>3
    <3> HIDE DEF reply
    <3>3. toPhone \in Seq(PhoneMessage)
      BY <1>2
    <3>4. \A i \in DOMAIN toPhone : \E j \in DOMAIN (toPhone \o reply) : (toPhone \o reply)[j] = toPhone[i]
      BY <3>1, <3>3, Longer
    <3> QED
      BY <3>2, <3>4
  <2> QED
    BY <2>1, <2>2, <2>3 DEF Handles
<1>6. CASE \E i \in DOMAIN toPhone : \E ok \in BOOLEAN : toPhone[i] = Answer(r.nr, ok)
  BY <1>5, <1>6 DEF OnItsWay
<1>7. CASE \E i \in DOMAIN toDaemon : i # 1 /\ toDaemon[i] = Respond(r.nr, r.id)
  BY <1>3, <1>7 DEF OnItsWay
<1>8. CASE h = Respond(r.nr, r.id) /\ ~\E i \in DOMAIN toPhone : \E ok \in BOOLEAN : toPhone[i] = Answer(r.nr, ok)
  <2>1. h.kind = "respond" /\ h.nr = r.nr
    BY <1>8 DEF Respond
  <2>2. Awaited(h.nr)
    <3>1. \A i \in DOMAIN toPhone : toPhone[i] \notin {Answer(r.nr, TRUE), Answer(r.nr, FALSE)}
      BY <1>8
    <3> QED
      BY <2>1, <3>1 DEF Awaited
  <2>3. Answer(r.nr, TRUE) \in PhoneMessage /\ Answer(r.nr, FALSE) \in PhoneMessage
    <3>1. r.nr \in 1..MaxEvents
      BY <1>1 DEF TypeInv, CardsTypeOK, Response
    <3> QED
      BY <3>1, MessagesTyped
  <2>4. CASE toPhone' = toPhone \o Reply(h.nr, FALSE)
    <3> DEFINE a == Answer(r.nr, FALSE)
    <3>1. toPhone' = toPhone \o <<a>>
      BY <2>1, <2>2, <2>4 DEF Reply
    <3>2. a \in PhoneMessage
      BY <2>3
    <3> HIDE DEF a
    <3>3. toPhone \in Seq(PhoneMessage)
      BY <1>2
    <3>4. \E j \in DOMAIN (toPhone \o <<a>>) : (toPhone \o <<a>>)[j] = a
      BY <3>2, <3>3, Lands
    <3> QED
      BY <3>1, <3>4 DEF OnItsWay, a
  <2>5. CASE toPhone' = toPhone \o Reply(h.nr, TRUE) \o Emitted(Closing)
    <3> DEFINE a == Answer(r.nr, TRUE)
               reply == <<a>>
    <3>1. toPhone' = toPhone \o reply \o Emitted(Closing)
      BY <2>1, <2>2, <2>5 DEF Reply
    <3>2. a \in PhoneMessage /\ Emitted(Closing) \in Seq(PhoneMessage)
      BY <1>1, <2>3, ClosingTyped, EmittedTyped
    <3> HIDE DEF a
    <3>3. reply \in Seq(PhoneMessage) /\ 1 \in DOMAIN reply /\ reply[1] = a
      BY <3>2
    <3>4. toPhone \in Seq(PhoneMessage)
      BY <1>2
    <3> HIDE DEF reply
    <3>5. Within(reply, toPhone \o reply \o Emitted(Closing))
      BY <3>2, <3>3, <3>4, LongerTwice
    <3> QED
      BY <3>1, <3>3, <3>5 DEF OnItsWay, Within, a
  <2> QED
    BY <2>1, <2>4, <2>5 DEF Handles
<1> QED
  BY <1>1, <1>3, <1>6, <1>7, <1>8 DEF OnItsWay

LEMMA LostSettled ==
  ASSUME SettledInv, DaemonLost, NEW r \in asked, ~r.adrift
  PROVE  OnItsWay(r.nr, r.id)'
<1>1. PICK n \in 0..Len(toPhone) : LostAt(n)
  BY LostShape DEF SettledInv
<1> DEFINE told == SubSeq(toPhone, 1, n)
<1>2. PICK last \in {<<>>, <<Offline>>} : toPhone' = told \o Refused(InFlight(n)) \o last
  BY <1>1 DEF LostAt
<1>3. told \in Seq(PhoneMessage) /\ InFlight(n) \subseteq 1..MaxEvents
  BY <1>1 DEF LostAt
<1>4. r.nr \in InFlight(n) \/ \E i \in DOMAIN told : told[i].kind = "answer" /\ told[i].nr = r.nr
  BY DEF InFlight
<1> HIDE DEF told
<1>5. last \in Seq(PhoneMessage)
  <2>1. <<>> \in Seq(PhoneMessage) /\ <<Offline>> \in Seq(PhoneMessage)
    BY MessagesTyped
  <2> QED
    BY <2>1
<1>6. /\ \A i \in DOMAIN told : \E j \in DOMAIN toPhone' : toPhone'[j] = told[i]
      /\ \A i \in DOMAIN Refused(InFlight(n)) :
           \E j \in DOMAIN toPhone' : toPhone'[j] = Refused(InFlight(n))[i]
  <2> DEFINE ref == Refused(InFlight(n))
  <2>1. ref \in Seq(PhoneMessage) /\ told \in Seq(PhoneMessage)
    BY <1>3, RefusedAll
  <2>2. toPhone' = told \o ref \o last
    BY <1>2
  <2> HIDE DEF ref
  <2>3. Within(told, toPhone') /\ Within(ref, toPhone')
    <3>1. last \in Seq(PhoneMessage)
      BY <1>5
    <3> QED
      BY <2>1, <2>2, <3>1, LongerTwice
  <2> QED
    BY <2>3 DEF ref, Within
<1>7. CASE r.nr \in InFlight(n)
  <2>1. \E i \in DOMAIN Refused(InFlight(n)) : Refused(InFlight(n))[i] = Answer(r.nr, FALSE)
    BY <1>3, <1>7, RefusedAll
  <2> QED
    BY <1>6, <2>1 DEF OnItsWay
<1>8. CASE \E i \in DOMAIN told : told[i].kind = "answer" /\ told[i].nr = r.nr
  <2>1. PICK i \in DOMAIN told : told[i].kind = "answer" /\ told[i].nr = r.nr
    BY <1>8
  <2>2. told[i] \in PhoneMessage
    BY <1>3
  <2>3. told[i].ok \in BOOLEAN /\ told[i] = Answer(r.nr, told[i].ok)
    BY <2>1, <2>2, Carries
  <2> QED
    BY <1>6, <2>3 DEF OnItsWay
<1> QED
  BY <1>4, <1>7, <1>8

\* A settled response's zone says so.
LEMMA SettleAwaited ==
  ASSUME SettledInv, NEW responses \in SUBSET asked, NEW phase \in Phases \ {"submitting"},
         Settle(responses, phase)
  PROVE  SendingIsAwaited'
<1> SUFFICES ASSUME NEW z \in Places, zone'[z].phase = "submitting"
             PROVE  \E r \in asked' : r.from = z /\ r.live
  BY DEF SendingIsAwaited, Answering
<1>1. ~\E r \in responses : r.from = z /\ r.live
  <2> SUFFICES ASSUME NEW r \in responses, r.from = z, r.live PROVE FALSE
    OBVIOUS
  <2>1. zone'[z] = [zone[z] EXCEPT !.phase = phase]
    BY DEF Settle
  <2>2. zone[z] \in ZoneStates
    BY DEF SettledInv, TypeInv, CardsInv, ZonesTyped
  <2>3. zone'[z].phase = phase
    BY <2>1, <2>2 DEF ZoneStates
  <2> QED
    BY <2>3
<1>2. zone'[z] = zone[z]
  BY <1>1 DEF Settle
<1>3. PICK r \in asked : r.from = z /\ r.live
  BY <1>2 DEF SettledInv, SendingIsAwaited, Answering
<1> QED
  BY <1>1, <1>3 DEF Settle

LEMMA ReceiveSettled ==
  ASSUME SettledInv, Receive
  PROVE  SendingIsAwaited' /\ \A r \in asked' : Settling(r)'
<1> DEFINE m == Head(toPhone)
           subscribes == m.kind = "list" /\ net = "list" /\ opened
           more == IF subscribes /\ ~linked THEN <<Offline>> ELSE <<>>
           ask == IF subscribes /\ linked THEN <<Ask("view")>> ELSE <<>>
<1>1. /\ toDaemon \in Seq(DaemonMessage) /\ toPhone \in Seq(PhoneMessage) /\ toPhone # <<>>
      /\ toPhone' = Tail(toPhone) \o more
      /\ toDaemon' = toDaemon \o ask
  BY DEF SettledInv, TypeInv, Wired, Receive
<1>2. \/ /\ m.kind = "answer"
         /\ Settle({r \in asked : r.nr = m.nr}, IF m.ok THEN "submitted" ELSE "failed")
      \/ m.kind # "answer" /\ UNCHANGED <<asked, zone>>
  <2>1. CASE m.kind = "answer" /\ Settle({r \in asked : r.nr = m.nr}, IF m.ok THEN "submitted" ELSE "failed")
    BY <2>1
  <2>2. CASE m.kind # "answer" /\ UNCHANGED <<asked, zone>>
    BY <2>2
  <2> QED
    BY <2>1, <2>2 DEF Receive
<1>3. SendingIsAwaited'
  <2>1. CASE Settle({r \in asked : r.nr = m.nr}, IF m.ok THEN "submitted" ELSE "failed")
    <3>1. (IF m.ok THEN "submitted" ELSE "failed") \in Phases \ {"submitting"}
      BY DEF Phases
    <3>2. {r \in asked : r.nr = m.nr} \in SUBSET asked
      OBVIOUS
    <3> QED
      BY <1>1, <2>1, <3>1, <3>2, SettleAwaited
  <2>2. CASE UNCHANGED <<asked, zone>>
    BY <1>1, <2>2 DEF SettledInv, SendingIsAwaited, Answering
  <2> QED
    BY <1>2, <2>1, <2>2
<1>4. more \in Seq(PhoneMessage) /\ ask \in Seq(DaemonMessage)
  <2>1. <<>> \in Seq(PhoneMessage) /\ <<Offline>> \in Seq(PhoneMessage)
    BY MessagesTyped
  <2>2. <<>> \in Seq(DaemonMessage) /\ <<Ask("view")>> \in Seq(DaemonMessage)
    BY RequestsTyped
  <2> QED
    BY <2>1, <2>2
<1>5. /\ \A i \in DOMAIN toDaemon : \E j \in DOMAIN toDaemon' : toDaemon'[j] = toDaemon[i]
      /\ \A i \in DOMAIN toPhone : toPhone[i] = m \/ \E j \in DOMAIN toPhone' : toPhone'[j] = toPhone[i]
  <2> HIDE DEF more, ask
  <2> DEFINE rest == Tail(toPhone)
  <2>1. /\ rest \in Seq(PhoneMessage)
        /\ \A i \in DOMAIN toPhone : toPhone[i] = m \/ \E j \in DOMAIN rest : rest[j] = toPhone[i]
    <3>1. \A i \in DOMAIN toPhone : i # 1 => i - 1 \in DOMAIN rest /\ rest[i - 1] = toPhone[i]
      BY <1>1, HeadTailProperties, LenProperties
    <3>2. m = toPhone[1] /\ rest \in Seq(PhoneMessage)
      BY <1>1, HeadTailProperties
    <3> QED
      BY <3>1, <3>2
  <2>2. toPhone' = rest \o more
    BY <1>1
  <2> HIDE DEF rest
  <2>3. \A i \in DOMAIN rest : \E j \in DOMAIN (rest \o more) : (rest \o more)[j] = rest[i]
    BY <1>4, <2>1, Longer
  <2>4. \A i \in DOMAIN toDaemon : \E j \in DOMAIN (toDaemon \o ask) : (toDaemon \o ask)[j] = toDaemon[i]
    <3>1. toDaemon \in Seq(DaemonMessage)
      BY <1>1
    <3> QED
      BY <1>4, <3>1, Longer
  <2>5. \A i \in DOMAIN toDaemon : \E j \in DOMAIN toDaemon' : toDaemon'[j] = toDaemon[i]
    BY <1>1, <2>4
  <2>6. \A i \in DOMAIN toPhone : toPhone[i] = m \/ \E j \in DOMAIN toPhone' : toPhone'[j] = toPhone[i]
    BY <2>1, <2>2, <2>3
  <2> QED
    BY <2>5, <2>6
<1>6. ASSUME NEW r \in asked' PROVE Settling(r)'
  <2>1. r \in asked /\ ~(m.kind = "answer" /\ m.nr = r.nr)
    BY <1>2 DEF Settle
  <2>2. \A ok \in BOOLEAN : m # Answer(r.nr, ok)
    BY <2>1 DEF Answer
  <2>3. Settling(r)
    BY <2>1 DEF SettledInv
  <2> HIDE DEF m
  <2> QED
    BY <1>5, <2>2, <2>3 DEF Settling, OnItsWay
<1> QED
  BY <1>3, <1>6

\* The loss of a connection settles every response; a new connection none.
LEMMA CloseSettled ==
  ASSUME SettledInv, PhoneLost \/ Reconnects
  PROVE  SendingIsAwaited' /\ \A r \in asked' : Settling(r)'
<1>1. CASE PhoneLost
  <2>1. "failed" \in Phases \ {"submitting"} /\ asked \in SUBSET asked
    BY DEF Phases
  <2>2. SendingIsAwaited'
    BY <1>1, <2>1, SettleAwaited DEF PhoneLost, Outstanding
  <2>3. asked' = {}
    BY <1>1 DEF PhoneLost, Settle, Outstanding
  <2> QED
    BY <2>2, <2>3
<1>2. CASE Reconnects
  <2>1. asked' = {[r EXCEPT !.adrift = TRUE] : r \in asked} /\ zone' = zone
    BY <1>2 DEF Reconnects, zoneVars
  <2>2. \A r \in asked :
          LET q == [r EXCEPT !.adrift = TRUE]
          IN  q.adrift /\ q.from = r.from /\ q.live = r.live
    BY DEF SettledInv, TypeInv, CardsTypeOK, Response
  <2>3. \A r \in asked' : Settling(r)'
    BY <2>1, <2>2 DEF Settling
  <2>4. \A z \in Places : Answering(z) => Answering(z)'
    BY <2>1, <2>2 DEF Answering
  <2> QED
    BY <2>1, <2>3, <2>4 DEF SettledInv, SendingIsAwaited
<1> QED
  BY <1>1, <1>2

LEMMA EffectsSettled ==
  ASSUME SettledInv, Effects
  PROVE  SendingIsAwaited' /\ \A r \in asked' : Settling(r)'
<1>1. /\ zone' = [z \in Places |-> IF z \in due THEN Renewed(z) ELSE zone[z]]
      /\ UNCHANGED <<asked, toDaemon, toPhone>>
  BY DEF Effects
<1>2. \A z \in Places : Renewed(z).phase = "idle"
  BY DEF SettledInv, TypeInv, CardsInv, ZonesTyped, ZoneStates, Renewed
<1>3. SendingIsAwaited'
  BY <1>1, <1>2 DEF SettledInv, SendingIsAwaited, Answering
<1> QED
  BY <1>1, <1>3 DEF SettledInv, Settling, OnItsWay

LEMMA RenderSettled ==
  ASSUME SettledInv, Render
  PROVE  SendingIsAwaited' /\ \A r \in asked' : Settling(r)'
<1>1. ASSUME NEW r \in asked, NEW q, q = [r EXCEPT !.live = r.live /\ Stays(r.from)]
      PROVE  /\ q.nr = r.nr /\ q.id = r.id /\ q.from = r.from /\ q.adrift = r.adrift
             /\ q.live <=> r.live /\ Stays(r.from)
  <2>1. r \in Response
    BY DEF SettledInv, TypeInv, CardsTypeOK
  <2> QED
    BY <1>1, <2>1 DEF Response
<1>2. \A q \in asked' : \E r \in asked : q = [r EXCEPT !.live = r.live /\ Stays(r.from)]
  BY DEF Render
<1>3. \A r \in asked : \E q \in asked' : q = [r EXCEPT !.live = r.live /\ Stays(r.from)]
  BY DEF Render
<1>4. \A q \in asked' : Settling(q)'
  <2> SUFFICES ASSUME NEW q \in asked' PROVE Settling(q)'
    OBVIOUS
  <2>1. PICK r \in asked : q.nr = r.nr /\ q.id = r.id /\ q.adrift = r.adrift
    BY <1>1, <1>2
  <2> QED
    BY <2>1 DEF SettledInv, Settling, OnItsWay, Render
<1>5. SendingIsAwaited'
  <2> SUFFICES ASSUME NEW z \in Places, zone'[z].phase = "submitting"
               PROVE  \E q \in asked' : q.from = z /\ q.live
    BY DEF SendingIsAwaited, Answering
  <2>1. Stays(z)
    <3>1. CASE zone'[z] \in {Unmounted, Mounted}
      BY <3>1 DEF Unmounted, Mounted
    <3> QED
      BY <3>1, RenderZone DEF SettledInv, TypeInv
  <2>2. zone[z].phase = "submitting"
    <3>1. zone'[z] = [zone[z] EXCEPT !.drawn = zone[z].phase]
      BY <2>1, RenderZone DEF SettledInv, TypeInv
    <3>2. zone[z] \in ZoneStates
      BY DEF SettledInv, TypeInv, CardsInv, ZonesTyped
    <3> QED
      BY <3>1, <3>2 DEF ZoneStates
  <2>3. PICK r \in asked : r.from = z /\ r.live
    BY <2>2 DEF SettledInv, SendingIsAwaited, Answering
  <2>4. PICK q \in asked' : q = [r EXCEPT !.live = r.live /\ Stays(r.from)]
    BY <1>3
  <2> QED
    BY <1>1, <2>1, <2>3, <2>4
<1> QED
  BY <1>4, <1>5

LEMMA SubmitSettled ==
  ASSUME SettledInv, NEW z \in Places, Submit(z)
  PROVE  SendingIsAwaited' /\ \A r \in asked' : Settling(r)'
<1>nr. PICK nr : nr = spent'
  OBVIOUS
<1>id. PICK id : id = seen.card
  OBVIOUS
<1> DEFINE q == [nr |-> nr, from |-> z, id |-> id, live |-> TRUE, adrift |-> FALSE]
           refusal == Answer(nr, FALSE)
           response == Respond(nr, id)
<1>1. /\ toDaemon \in Seq(DaemonMessage) /\ toPhone \in Seq(PhoneMessage)
      /\ refusal \in PhoneMessage /\ response \in DaemonMessage
  <2>1. nr \in 1..MaxEvents /\ id \in Ids \ {0}
    BY <1>nr, <1>id, SpendTyped DEF SettledInv, TypeInv, Wired, Submit, CanSubmit
  <2> QED
    BY <2>1, MessagesTyped, RequestsTyped DEF SettledInv, TypeInv, Wired
<1>2. \A y \in Places \ {z} : zone'[y] = zone[y]
  BY DEF Submit, SettledInv, TypeInv, CardsInv, ZonesTyped
<1>3. /\ \A r \in asked : Settling(r)
      /\ \A y \in Places : zone[y].phase = "submitting" => Answering(y)
  BY DEF SettledInv, SendingIsAwaited
<1>4. CASE net = "away"
  <2>1. UNCHANGED <<asked, toDaemon, toPhone>>
    BY <1>4 DEF Submit, Request
  <2>2. zone'[z].phase # "submitting"
    BY <1>4 DEF Submit, SettledInv, TypeInv, CardsInv, ZonesTyped, ZoneStates
  <2>3. SendingIsAwaited'
    BY <1>2, <1>3, <2>1, <2>2 DEF SendingIsAwaited, Answering
  <2> QED
    BY <1>3, <2>1, <2>3 DEF Settling, OnItsWay
<1>5. CASE net # "away"
  <2>1. /\ asked' = asked \cup {q}
        /\ toDaemon' = toDaemon \o (IF linked THEN <<response>> ELSE <<>>)
        /\ toPhone' = toPhone \o (IF linked THEN <<>> ELSE <<refusal>>)
    BY <1>5, <1>nr, <1>id DEF Submit, Request
  <2>2. q.from = z /\ q.live /\ q.nr = nr /\ q.id = id
    OBVIOUS
  <2>3. SendingIsAwaited'
    <3> HIDE DEF q
    <3> QED
      BY <1>2, <1>3, <2>1, <2>2 DEF SendingIsAwaited, Answering
  <2>4. /\ \A i \in DOMAIN toDaemon : \E j \in DOMAIN toDaemon' : toDaemon'[j] = toDaemon[i]
        /\ \A i \in DOMAIN toPhone : \E j \in DOMAIN toPhone' : toPhone'[j] = toPhone[i]
        /\ \/ \E j \in DOMAIN toDaemon' : toDaemon'[j] = response
           \/ \E j \in DOMAIN toPhone' : toPhone'[j] = refusal
    <3> HIDE DEF q, response, refusal
    <3>1. /\ toDaemon \in Seq(DaemonMessage) /\ toPhone \in Seq(PhoneMessage)
          /\ toDaemon \o <<>> = toDaemon /\ toPhone \o <<>> = toPhone
          /\ <<response>> \in Seq(DaemonMessage) /\ <<refusal>> \in Seq(PhoneMessage)
      BY <1>1
    <3>2. CASE linked
      <4> DEFINE ask == <<response>>
      <4>1. ask \in Seq(DaemonMessage)
        BY <3>1
      <4>2. \E j \in DOMAIN (toDaemon \o ask) : (toDaemon \o ask)[j] = response
        BY <1>1, Lands
      <4> HIDE DEF ask
      <4>3. \A i \in DOMAIN toDaemon : \E j \in DOMAIN (toDaemon \o ask) : (toDaemon \o ask)[j] = toDaemon[i]
        BY <3>1, <4>1, Longer
      <4>4. toDaemon' = toDaemon \o ask /\ toPhone' = toPhone
        BY <2>1, <3>1, <3>2 DEF ask
      <4> QED
        BY <4>2, <4>3, <4>4
    <3>3. CASE ~linked
      <4> DEFINE told == <<refusal>>
      <4>1. told \in Seq(PhoneMessage)
        BY <3>1
      <4>2. \E j \in DOMAIN (toPhone \o told) : (toPhone \o told)[j] = refusal
        BY <1>1, Lands
      <4> HIDE DEF told
      <4>3. \A i \in DOMAIN toPhone : \E j \in DOMAIN (toPhone \o told) : (toPhone \o told)[j] = toPhone[i]
        BY <3>1, <4>1, Longer
      <4>4. toPhone' = toPhone \o told /\ toDaemon' = toDaemon
        BY <2>1, <3>1, <3>3 DEF told
      <4> QED
        BY <4>2, <4>3, <4>4
    <3> QED
      BY <3>2, <3>3
  <2>5. ASSUME NEW r \in asked PROVE Settling(r)'
    BY <1>3, <2>4, StaysOnItsWay DEF Settling
  <2>6. OnItsWay(nr, id)'
    BY <2>4 DEF OnItsWay
  <2>7. ASSUME NEW r \in asked' PROVE Settling(r)'
    <3>1. CASE r \in asked
      BY <2>5, <3>1
    <3>2. CASE r = q
      BY <2>2, <2>6, <3>2 DEF Settling
    <3> QED
      BY <2>1, <3>1, <3>2
  <2> QED
    BY <2>3, <2>7
<1> QED
  BY <1>4, <1>5

LEMMA SettledStep ==
  ASSUME SettledInv, [CardsNext]_cardVars
  PROVE  SettledInv'
<1> USE DEF daemonVars, phoneVars, zoneVars
<1>1. TypeInv'
  BY TypeStep DEF SettledInv
<1>2. TypeInv /\ \A r \in asked : Settling(r)
  BY DEF SettledInv
<1>3. /\ toDaemon \in Seq(DaemonMessage) /\ toPhone \in Seq(PhoneMessage)
      /\ toDaemon' \in Seq(DaemonMessage) /\ toPhone' \in Seq(PhoneMessage)
      /\ session \in Session
  BY <1>1, <1>2 DEF TypeInv, Wired, CardsTypeOK
<1>4. ASSUME UNCHANGED <<zone, asked>>,
             \A i \in DOMAIN toDaemon : \E j \in DOMAIN toDaemon' : toDaemon'[j] = toDaemon[i],
             \A i \in DOMAIN toPhone : \E j \in DOMAIN toPhone' : toPhone'[j] = toPhone[i]
      PROVE  SettledInv'
  <2>1. \A r \in asked : Settling(r)'
    BY <1>2, <1>4, StaysOnItsWay DEF Settling
  <2> QED
    BY <1>1, <1>4, <2>1, ChannelsSettled DEF SettledInv
<1>5. CASE Prompts \/ Withdraws \/ Touched \/ Exits
  <2>1. UNCHANGED <<zone, asked, toDaemon>>
    BY <1>5 DEF Prompts, Withdraws, Touched, Exits
  <2>2. \A i \in DOMAIN toPhone : \E j \in DOMAIN toPhone' : toPhone'[j] = toPhone[i]
    <3>1. CASE toPhone' = toPhone
      BY <3>1
    <3>2. CASE \E events \in Seq(PhoneMessage) : Emit(events)
      BY <1>2, <3>2, EmitKeeps
    <3> QED
      BY <1>2, <1>5, <3>1, <3>2, OwnEvents, EventsTyped
  <2> QED
    BY <1>4, <2>1, <2>2
<1>6. CASE Handles
  <2>1. UNCHANGED <<zone, asked>>
    BY <1>6 DEF Handles
  <2>2. \A r \in asked : Settling(r)'
    BY <1>6, HandlesSettled DEF Settling
  <2> QED
    BY <1>1, <2>1, <2>2, ChannelsSettled DEF SettledInv
<1>7. CASE TimesOut
  <2>1. UNCHANGED <<zone, asked, toDaemon>>
    BY <1>7 DEF TimesOut
  <2>2. PICK r \in asked : toPhone' = Append(toPhone, Answer(r.nr, FALSE))
    BY <1>7 DEF TimesOut
  <2>3. Answer(r.nr, FALSE) \in PhoneMessage
    BY <1>2, MessagesTyped DEF TypeInv, CardsTypeOK, Response
  <2>4. \A i \in DOMAIN toPhone : \E j \in DOMAIN toPhone' : toPhone'[j] = toPhone[i]
    BY <1>3, <2>2, <2>3, LongerByOne, ZenonT(40)
  <2> QED
    BY <1>4, <2>1, <2>4
<1>8. CASE DaemonLost
  <2>1. UNCHANGED <<zone, asked>>
    BY <1>8 DEF DaemonLost
  <2>2. \A r \in asked : Settling(r)'
    BY <1>8, LostSettled DEF Settling
  <2> QED
    BY <1>1, <2>1, <2>2, ChannelsSettled DEF SettledInv
<1>9. CASE Registers
  <2>1. UNCHANGED <<zone, asked, toDaemon>>
    BY <1>9 DEF Registers
  <2>2. \A i \in DOMAIN toPhone : \E j \in DOMAIN toPhone' : toPhone'[j] = toPhone[i]
    <3>1. Told("session", session) \in PhoneMessage
      BY <1>3, MessagesTyped
    <3>2. CASE toPhone' = toPhone
      BY <3>2
    <3>3. CASE toPhone' = Append(toPhone, Told("session", session))
      BY <1>3, <3>1, <3>3, LongerByOne
    <3> QED
      BY <1>9, <3>2, <3>3 DEF Registers
  <2> QED
    BY <1>4, <2>1, <2>2
<1>10. CASE Open
  <2>1. UNCHANGED <<zone, asked, toPhone>>
    BY <1>10 DEF Open
  <2>2. \A i \in DOMAIN toDaemon : \E j \in DOMAIN toDaemon' : toDaemon'[j] = toDaemon[i]
    <3>1. PICK t \in {<<>>, <<Ask("open")>>} : toDaemon' = toDaemon \o t
      BY <1>10 DEF Open
    <3>2. t \in Seq(DaemonMessage)
      <4>1. <<>> \in Seq(DaemonMessage) /\ <<Ask("open")>> \in Seq(DaemonMessage)
        BY RequestsTyped
      <4> QED
        BY <4>1
    <3>3. toDaemon \in Seq(DaemonMessage)
      BY <1>3
    <3>4. Within(toDaemon, toDaemon \o t)
      BY <3>2, <3>3, WithinLonger
    <3> QED
      BY <3>1, <3>4 DEF Within
  <2> QED
    BY <1>4, <2>1, <2>2
<1>11. CASE Retry \/ RunFails \/ TimerFires \/ Dismiss \/ Back \/ UNCHANGED cardVars
  <2>1. UNCHANGED <<zone, asked, toDaemon, toPhone>>
    BY <1>11 DEF Retry, RunFails, TimerFires, Replace, Dismiss, Back, cardVars
  <2> QED
    BY <1>4, <2>1
<1>12. CASE Receive
  BY <1>1, <1>12, ReceiveSettled DEF SettledInv
<1>13. CASE PhoneLost \/ Reconnects
  BY <1>1, <1>13, CloseSettled DEF SettledInv
<1>14. CASE Render \/ Effects
  BY <1>1, <1>14, RenderSettled, EffectsSettled DEF SettledInv
<1>15. CASE \E z \in Places : Submit(z)
  BY <1>1, <1>15, SubmitSettled DEF SettledInv
<1> QED
  BY <1>5, <1>6, <1>7, <1>8, <1>9, <1>10, <1>11, <1>12, <1>13, <1>14, <1>15 DEF CardsNext

LEMMA InitSettled == CardsInit => SettledInv
<1>1. CardsInit => SendingIsAwaited /\ \A r \in asked : Settling(r)
  BY DEF CardsInit, SendingIsAwaited, Unmounted
<1> QED
  BY <1>1, InitTypes DEF SettledInv

\* A zone says "sending" only over a response that the client awaits, and such a
\* response is on its way, or its answer is (respondInteraction, rejectPending),
\* whatever is lost on the way; or it is adrift: the websocket that carried it was
\* replaced, by Retry or by the timer, and has closed without rejecting it.
THEOREM ResponsesSettle == CardsSpec => []SubmittingIsSettled
<1>1. SettledInv => SubmittingIsSettled
  BY SettledIs DEF SettledInv
<1> QED
  BY <1>1, InitSettled, SettledStep, PTL DEF CardsSpec

-----------------------------------------------------------------------------
(* The requests of a run: the coordinator has one at a time.               *)

Runs(m) == m.kind \in {"list", "view"}
Ends(m) == m.kind = "offline"
Silent(s) == \A i \in DOMAIN s : ~Runs(s[i])
Once(s) == \A i, j \in DOMAIN s : Runs(s[i]) /\ Runs(s[j]) => i = j
Ended(s) == \E i \in DOMAIN s : Ends(s[i])

\* While there is a connection, one request of the run, or the answer to it, is
\* on its way: the answer the run awaits, and nothing after its refusal.
OneRun ==
  net # "away" =>
    /\ Once(toPhone) /\ Once(toDaemon) /\ (Silent(toPhone) \/ Silent(toDaemon))
    /\ \A i \in DOMAIN toPhone : Runs(toPhone[i]) => toPhone[i].kind = net
    /\ Ended(toPhone) => Silent(toPhone) /\ Silent(toDaemon)

\* Channel t has of runs what s has, but for the first d messages of s.
NoNew(s, t, d) == \A i \in DOMAIN t : Runs(t[i]) \/ Ends(t[i]) => i + d \in DOMAIN s /\ t[i] = s[i + d]

LEMMA NoNewKeeps ==
  ASSUME NEW S, NEW s \in Seq(S), NEW t \in Seq(S), NEW d \in Nat, NoNew(s, t, d)
  PROVE  /\ Once(s) => Once(t)
         /\ Silent(s) => Silent(t)
         /\ Ended(t) => Ended(s)
         /\ \A i \in DOMAIN t : Runs(t[i]) => \E j \in DOMAIN s : s[j] = t[i]
<1>1. DOMAIN t = 1..Len(t) /\ Len(t) \in Nat
  BY LenProperties
<1>2. ASSUME Once(s), NEW i \in DOMAIN t, NEW j \in DOMAIN t, Runs(t[i]), Runs(t[j]) PROVE i = j
  <2>1. i + d = j + d
    BY <1>2 DEF NoNew, Once
  <2> QED
    BY <1>1, <2>1
<1> QED
  BY <1>2 DEF NoNew, Once, Silent, Ended

LEMMA PlainLonger ==
  ASSUME NEW S, NEW s \in Seq(S), NEW t \in Seq(S),
         \A i \in DOMAIN t : ~Runs(t[i]) /\ ~Ends(t[i])
  PROVE  NoNew(s, s \o t, 0)
<1> SUFFICES ASSUME NEW i \in DOMAIN (s \o t), Runs((s \o t)[i]) \/ Ends((s \o t)[i])
             PROVE  i + 0 \in DOMAIN s /\ (s \o t)[i] = s[i + 0]
  BY DEF NoNew
<1>1. i \in 1..Len(s) \/ (i - Len(s) \in DOMAIN t /\ (s \o t)[i] = t[i - Len(s)])
  BY Parts
<1>2. i \in 1..Len(s)
  BY <1>1
<1> QED
  BY <1>2, Parts

LEMMA PlainAppend ==
  ASSUME NEW S, NEW s \in Seq(S), NEW m \in S, ~Runs(m), ~Ends(m)
  PROVE  NoNew(s, Append(s, m), 0) /\ NoNew(s, s \o <<m>>, 0)
<1>1. <<m>> \in Seq(S) /\ \A i \in DOMAIN <<m>> : <<m>>[i] = m
  OBVIOUS
<1>2. Append(s, m) = s \o <<m>>
  BY AppendIsConcat
<1> DEFINE t == <<m>>
<1>3. t \in Seq(S) /\ \A i \in DOMAIN t : ~Runs(t[i]) /\ ~Ends(t[i])
  BY <1>1
<1> HIDE DEF t
<1>4. NoNew(s, s \o t, 0)
  BY <1>3, PlainLonger
<1> QED
  BY <1>2, <1>4 DEF t

LEMMA SameNew == ASSUME NEW S, NEW s \in Seq(S) PROVE NoNew(s, s, 0)
<1>1. \A i \in DOMAIN s : i + 0 = i
  BY LenProperties
<1> QED
  BY <1>1 DEF NoNew

LEMMA TailNew ==
  ASSUME NEW S, NEW s \in Seq(S), s # <<>>
  PROVE  /\ NoNew(s, Tail(s), 1)
         /\ Head(s) = s[1] /\ 1 \in DOMAIN s
         /\ \A i \in DOMAIN Tail(s) : i + 1 \in DOMAIN s /\ i + 1 # 1 /\ Tail(s)[i] = s[i + 1]
<1>1. /\ Len(s) \in Nat /\ Len(s) # 0 /\ DOMAIN s = 1..Len(s)
      /\ DOMAIN Tail(s) = 1..(Len(s) - 1) /\ Head(s) = s[1]
      /\ \A i \in 1..(Len(s) - 1) : Tail(s)[i] = s[i + 1]
  BY HeadTailProperties, LenProperties, EmptySeq
<1> QED
  BY <1>1 DEF NoNew

\* Events and answers are nothing of a run.
LEMMA EventsPlain ==
  /\ \A s : ~Runs(Told("session", s)) /\ ~Ends(Told("session", s))
  /\ \A s : ~Runs(Told("open", s)) /\ ~Ends(Told("open", s))
  /\ \A nr, ok : ~Runs(Answer(nr, ok)) /\ ~Ends(Answer(nr, ok))
  /\ \A m \in Event : ~Runs(m) /\ ~Ends(m)
  /\ \A nr, id : ~Runs(Respond(nr, id)) /\ ~Ends(Respond(nr, id))
  /\ ~Runs(Ask("open")) /\ ~Ends(Ask("open"))
BY DEF Runs, Ends, Told, Answer, Event, Requested, Resolved, Respond, Ask

LEMMA EmitNew ==
  ASSUME TypeInv, NEW events \in Seq(Event), Emit(events)
  PROVE  NoNew(toPhone, toPhone', 0)
<1>1. Emitted(events) \in Seq(Event)
  <2>1. <<>> \in Seq(Event)
    OBVIOUS
  <2> QED
    BY <2>1 DEF Emitted
<1>2. Emitted(events) \in Seq(PhoneMessage) /\ toPhone \in Seq(PhoneMessage)
  BY <1>1, EventsTyped DEF TypeInv, Wired
<1>3. \A i \in DOMAIN Emitted(events) : ~Runs(Emitted(events)[i]) /\ ~Ends(Emitted(events)[i])
  <2> HIDE DEF Emitted
  <2>1. \A i \in DOMAIN Emitted(events) : Emitted(events)[i] \in Event
    BY <1>1
  <2> QED
    BY <2>1, EventsPlain
<1>4. NoNew(toPhone, toPhone \o Emitted(events), 0)
  BY <1>2, <1>3, PlainLonger
<1> QED
  BY <1>4 DEF Emit

LEMMA OneRunKept ==
  ASSUME TypeInv, TypeInv', OneRun, net' = net, NEW d \in Nat, NEW e \in Nat,
         NoNew(toPhone, toPhone', d), NoNew(toDaemon, toDaemon', e)
  PROVE  OneRun'
<1>1. /\ toPhone \in Seq(PhoneMessage) /\ toPhone' \in Seq(PhoneMessage)
      /\ toDaemon \in Seq(DaemonMessage) /\ toDaemon' \in Seq(DaemonMessage)
  BY DEF TypeInv, Wired
<1>2. /\ Once(toPhone) => Once(toPhone')
      /\ Silent(toPhone) => Silent(toPhone')
      /\ Ended(toPhone') => Ended(toPhone)
      /\ \A i \in DOMAIN toPhone' : Runs(toPhone'[i]) => \E j \in DOMAIN toPhone : toPhone[j] = toPhone'[i]
  BY <1>1, NoNewKeeps
<1>3. (Once(toDaemon) => Once(toDaemon')) /\ (Silent(toDaemon) => Silent(toDaemon'))
  BY <1>1, NoNewKeeps
<1>4. ASSUME net # "away" PROVE \A i \in DOMAIN toPhone' : Runs(toPhone'[i]) => toPhone'[i].kind = net
  BY <1>2, <1>4 DEF OneRun
<1>5. ASSUME net # "away" PROVE
        /\ Once(toPhone') /\ Once(toDaemon') /\ (Silent(toPhone') \/ Silent(toDaemon'))
        /\ Ended(toPhone') => Silent(toPhone') /\ Silent(toDaemon')
  BY <1>2, <1>3, <1>5 DEF OneRun
<1> QED
  BY <1>4, <1>5 DEF OneRun, Once, Silent, Ended, Runs, Ends

LEMMA SilentRun == ASSUME Silent(toPhone'), Silent(toDaemon') PROVE OneRun'
BY DEF OneRun, Silent, Once, Runs

LEMMA ReplyNew ==
  ASSUME TypeInv, NEW nr \in 1..MaxEvents, NEW ok \in BOOLEAN
  PROVE  /\ Reply(nr, ok) \in Seq(PhoneMessage)
         /\ \A i \in DOMAIN Reply(nr, ok) : ~Runs(Reply(nr, ok)[i]) /\ ~Ends(Reply(nr, ok)[i])
<1> DEFINE a == Answer(nr, ok)
<1>1. a \in PhoneMessage /\ ~Runs(a) /\ ~Ends(a)
  BY MessagesTyped, EventsPlain
<1>2. Reply(nr, ok) = IF Awaited(nr) THEN <<a>> ELSE <<>>
  BY DEF Reply
<1> HIDE DEF a
<1>3. <<a>> \in Seq(PhoneMessage) /\ \A i \in DOMAIN <<a>> : ~Runs(<<a>>[i]) /\ ~Ends(<<a>>[i])
  BY <1>1
<1> QED
  BY <1>2, <1>3

LEMMA NoNewTwice ==
  ASSUME NEW S, NEW s \in Seq(S), NEW t \in Seq(S), NEW u, NoNew(s, t, 0), NoNew(t, u, 0)
  PROVE  NoNew(s, u, 0)
<1> SUFFICES ASSUME NEW i \in DOMAIN u, Runs(u[i]) \/ Ends(u[i]) PROVE i + 0 \in DOMAIN s /\ u[i] = s[i + 0]
  BY DEF NoNew
<1>1. i + 0 \in DOMAIN t /\ u[i] = t[i + 0]
  BY DEF NoNew
<1>2. (i + 0) + 0 = i + 0
  BY <1>1, LenProperties
<1> QED
  BY <1>1, <1>2 DEF NoNew

LEMMA HandlesRun ==
  ASSUME TypeInv, TypeInv', OneRun, Handles
  PROVE  OneRun'
<1> DEFINE h == Head(toDaemon)
<1>1. /\ toPhone \in Seq(PhoneMessage) /\ toDaemon \in Seq(DaemonMessage) /\ toDaemon # <<>>
      /\ toDaemon' = Tail(toDaemon) /\ net' = net /\ session \in Session
  BY DEF Handles, TypeInv, Wired, CardsTypeOK, phoneVars
<1>2. /\ NoNew(toDaemon, toDaemon', 1) /\ h = toDaemon[1] /\ 1 \in DOMAIN toDaemon
      /\ \A i \in DOMAIN toDaemon' : i + 1 \in DOMAIN toDaemon /\ i + 1 # 1 /\ toDaemon'[i] = toDaemon[i + 1]
  BY <1>1, TailNew
<1>3. h \in DaemonMessage
  BY <1>1, HeadTailProperties
<1>4. ASSUME NoNew(toPhone, toPhone', 0) PROVE OneRun'
  BY <1>1, <1>2, <1>4, OneRunKept
<1>5. CASE toPhone' = toPhone
  BY <1>1, <1>4, <1>5, SameNew
<1>6. CASE h.kind = "open" /\ toPhone' = Append(toPhone, Told(h.kind, session))
  <2>1. Told("open", session) \in PhoneMessage
    BY <1>1, MessagesTyped
  <2>2. NoNew(toPhone, Append(toPhone, Told("open", session)), 0)
    BY <1>1, <2>1, EventsPlain, PlainAppend
  <2> QED
    BY <1>4, <1>6, <2>2
<1>7. CASE h.kind \in {"list", "view"} /\ h.kind = net /\ toPhone' = Append(toPhone, Told(h.kind, session))
  <2>1. net # "away" /\ Runs(h)
    BY <1>7 DEF Runs
  <2>2. Silent(toDaemon')
    <3>1. \A i \in DOMAIN toDaemon' : ~Runs(toDaemon'[i])
      BY <1>2, <2>1 DEF OneRun, Once
    <3> QED
      BY <3>1 DEF Silent
  <2>3. Silent(toPhone) /\ ~Ended(toPhone)
    BY <1>2, <2>1 DEF OneRun, Silent
  <2> DEFINE m == Told(h.kind, session)
             n == Len(toPhone)
  <2>4. m \in PhoneMessage /\ m.kind = net /\ ~Ends(m)
    BY <1>1, <1>7, MessagesTyped DEF Told, Ends
  <2>5. /\ n \in Nat /\ DOMAIN toPhone = 1..n /\ DOMAIN toPhone' = 1..(n + 1)
        /\ toPhone'[n + 1] = m /\ \A i \in 1..n : toPhone'[i] = toPhone[i]
    BY <1>1, <1>7, <2>4, AppendProperties, LenProperties
  <2> HIDE DEF m, n
  <2>6. \A i \in DOMAIN toPhone' : (Runs(toPhone'[i]) => i = n + 1) /\ ~Ends(toPhone'[i])
    BY <2>3, <2>4, <2>5 DEF Silent, Ended
  <2> QED
    BY <1>1, <2>2, <2>4, <2>5, <2>6 DEF OneRun, Once, Silent, Ended, Runs, Ends
<1>8. CASE h.kind = "respond" /\ toPhone' = toPhone \o Reply(h.nr, FALSE)
  <2>1. h.nr \in 1..MaxEvents
    BY <1>3, <1>8, Asks
  <2>2. NoNew(toPhone, toPhone \o Reply(h.nr, FALSE), 0)
    BY <1>1, <2>1, ReplyNew, PlainLonger
  <2> QED
    BY <1>4, <1>8, <2>2
<1>9. CASE h.kind = "respond" /\ toPhone' = toPhone \o Reply(h.nr, TRUE) \o Emitted(Closing)
  <2> DEFINE reply == Reply(h.nr, TRUE)
             first == toPhone \o reply
  <2>1. h.nr \in 1..MaxEvents
    BY <1>3, <1>9, Asks
  <2>2. reply \in Seq(PhoneMessage) /\ \A i \in DOMAIN reply : ~Runs(reply[i]) /\ ~Ends(reply[i])
    BY <2>1, ReplyNew
  <2> HIDE DEF reply
  <2>3. NoNew(toPhone, first, 0) /\ first \in Seq(PhoneMessage)
    BY <1>1, <2>2, PlainLonger, ConcatProperties
  <2>4. toPhone' = first \o Emitted(Closing)
    BY <1>9 DEF reply
  <2> HIDE DEF first
  <2>5. Emitted(Closing) \in Seq(Event) /\ Emitted(Closing) \in Seq(PhoneMessage)
    <3>1. <<>> \in Seq(Event) /\ <<>> \in Seq(PhoneMessage)
      OBVIOUS
    <3> QED
      BY <3>1, ClosingTyped DEF Emitted
  <2>6. \A i \in DOMAIN Emitted(Closing) : ~Runs(Emitted(Closing)[i]) /\ ~Ends(Emitted(Closing)[i])
    <3>1. \A i \in DOMAIN Emitted(Closing) : Emitted(Closing)[i] \in Event
      BY <2>5
    <3> QED
      BY <3>1, EventsPlain
  <2>7. NoNew(first, toPhone', 0)
    BY <2>3, <2>4, <2>5, <2>6, PlainLonger
  <2> QED
    BY <1>1, <1>4, <2>3, <2>7, NoNewTwice
<1> QED
  BY <1>5, <1>6, <1>7, <1>8, <1>9 DEF Handles, h

LEMMA LostRun ==
  ASSUME TypeInv, TypeInv', OneRun, DaemonLost
  PROVE  OneRun'
<1>1. toPhone \in Seq(PhoneMessage) /\ toDaemon' = <<>> /\ net' = net
  BY DEF DaemonLost, TypeInv, Wired, phoneVars
<1>2. PICK n \in 0..Len(toPhone) : LostAt(n)
  BY LostShape
<1> DEFINE told == SubSeq(toPhone, 1, n)
           ref == Refused(InFlight(n))
           left == told \o ref
<1>3. PICK last \in {<<>>, <<Offline>>} :
        /\ last = <<Offline>> => \A i \in 1..n : told[i].kind # net
        /\ toPhone' = left \o last
  BY <1>2 DEF LostAt
<1>4. /\ told \in Seq(PhoneMessage) /\ Len(told) = n
      /\ \A i \in 1..n : told[i] = toPhone[i]
      /\ InFlight(n) \subseteq 1..MaxEvents
  BY <1>2 DEF LostAt
<1>5. ref \in Seq(PhoneMessage) /\ \A i \in DOMAIN ref : ~Runs(ref[i]) /\ ~Ends(ref[i])
  <2> DEFINE A == {Answer(nr, FALSE) : nr \in InFlight(n)}
  <2>1. ref \in Seq(A) /\ ref \in Seq(PhoneMessage)
    BY <1>4, RefusedAll
  <2>2. \A a \in A : ~Runs(a) /\ ~Ends(a)
    BY EventsPlain
  <2> HIDE DEF A, ref
  <2>3. \A i \in DOMAIN ref : ref[i] \in A
    BY <2>1
  <2> QED
    BY <2>1, <2>2, <2>3
<1> HIDE DEF told, ref
<1>6. NoNew(toPhone, told, 0)
  <2>1. DOMAIN told = 1..n /\ DOMAIN toPhone = 1..Len(toPhone) /\ Len(toPhone) \in Nat
    BY <1>1, <1>4, LenProperties
  <2> QED
    BY <1>4, <2>1 DEF NoNew
<1>7. NoNew(told, left, 0) /\ left \in Seq(PhoneMessage)
  BY <1>4, <1>5, PlainLonger, ConcatProperties
<1>8. NoNew(toPhone, left, 0)
  BY <1>1, <1>4, <1>6, <1>7, NoNewTwice
<1> HIDE DEF left
<1>9. CASE last = <<>>
  <2>1. toPhone' = left
    BY <1>3, <1>7, <1>9
  <2>2. NoNew(toDaemon, toDaemon', 0)
    BY <1>1 DEF NoNew
  <2> QED
    BY <1>1, <1>8, <2>1, <2>2, OneRunKept
<1>10. CASE last = <<Offline>> /\ net # "away"
  <2>1. \A i \in DOMAIN told : ~Runs(told[i])
    <3>1. DOMAIN told = 1..n /\ \A i \in 1..n : i \in DOMAIN toPhone
      BY <1>1, <1>4, LenProperties
    <3> QED
      BY <1>3, <1>4, <1>10, <3>1 DEF OneRun
  <2>2. Silent(left)
    BY <1>4, <1>7, <2>1, NoNewKeeps DEF Silent
  <2> DEFINE m == Offline
  <2>3. m \in PhoneMessage /\ ~Runs(m)
    BY MessagesTyped DEF Offline, Runs
  <2> HIDE DEF m
  <2>4. <<m>> \in Seq(PhoneMessage) /\ Silent(<<m>>)
    BY <2>3 DEF Silent
  <2>5. toPhone' = left \o <<m>>
    BY <1>3, <1>10 DEF m
  <2>6. Silent(toPhone')
    <3> DEFINE t == <<m>>
    <3>1. t \in Seq(PhoneMessage) /\ Silent(t) /\ toPhone' = left \o t
      BY <2>4, <2>5
    <3> HIDE DEF t
    <3> QED
      BY <1>7, <2>2, <3>1, Parts DEF Silent
  <2>7. Silent(toDaemon')
    BY <1>1 DEF Silent
  <2> QED
    BY <2>6, <2>7, SilentRun
<1>11. CASE net = "away"
  BY <1>1, <1>11 DEF OneRun
<1> QED
  BY <1>3, <1>9, <1>10, <1>11

LEMMA ReceiveRun ==
  ASSUME TypeInv, TypeInv', OneRun, Receive
  PROVE  OneRun'
<1> DEFINE m == Head(toPhone)
           rest == Tail(toPhone)
           subscribes == m.kind = "list" /\ net = "list" /\ opened
           more == IF subscribes /\ ~linked THEN <<Offline>> ELSE <<>>
           asks == IF subscribes /\ linked THEN <<Ask("view")>> ELSE <<>>
<1>1. /\ toPhone \in Seq(PhoneMessage) /\ toDaemon \in Seq(DaemonMessage) /\ toPhone # <<>>
      /\ toPhone' = rest \o more /\ toDaemon' = toDaemon \o asks
  BY DEF Receive, TypeInv, Wired
<1>2. /\ NoNew(toPhone, rest, 1) /\ m = toPhone[1] /\ 1 \in DOMAIN toPhone
      /\ \A i \in DOMAIN rest : i + 1 \in DOMAIN toPhone /\ i + 1 # 1 /\ rest[i] = toPhone[i + 1]
  BY <1>1, TailNew
<1>3. rest \in Seq(PhoneMessage)
  BY <1>1, HeadTailProperties
<1>4. \/ net' = net
      \/ m.kind = "offline" /\ net \in {"list", "view"} /\ net' = "failed"
      \/ m.kind = "list" /\ net = "list" /\ net' = IF opened THEN "view" ELSE "online"
      \/ m.kind = "view" /\ net = "view" /\ net' = "online"
  BY DEF Receive, m
<1>5. CASE net = "away"
  BY <1>4, <1>5 DEF OneRun
<1>6. CASE net # "away" /\ ~subscribes
  <2>1. toPhone' = rest /\ toDaemon' = toDaemon
    BY <1>1, <1>3, <1>6
  <2> HIDE DEF subscribes, rest
  <2>2. CASE net' = net
    BY <1>1, <1>2, <2>1, <2>2, OneRunKept, SameNew
  <2>3. CASE Ends(m)
    <3>1. Silent(toPhone) /\ Silent(toDaemon)
      BY <1>2, <1>6, <2>3 DEF OneRun, Ended
    <3>2. Silent(rest)
      BY <1>1, <1>2, <1>3, <3>1, NoNewKeeps
    <3> QED
      BY <2>1, <3>1, <3>2, SilentRun
  <2>4. CASE Runs(m)
    <3>1. Silent(rest)
      BY <1>2, <1>6, <2>4 DEF OneRun, Once, Silent
    <3>2. Silent(toDaemon)
      BY <1>2, <1>6, <2>4 DEF OneRun, Silent
    <3> QED
      BY <2>1, <3>1, <3>2, SilentRun
  <2> QED
    BY <1>4, <2>2, <2>3, <2>4 DEF Runs, Ends
<1>7. CASE net # "away" /\ subscribes
  <2>1. Runs(m) /\ opened
    BY <1>7 DEF Runs
  <2>2. net' # "away"
    BY <1>4, <1>7
  <2>3. /\ \A i \in DOMAIN rest : ~Runs(rest[i]) /\ ~Ends(rest[i])
        /\ Silent(toDaemon)
    <3> HIDE DEF rest, m
    <3>1. Silent(toDaemon) /\ ~Silent(toPhone)
      BY <1>2, <1>7, <2>1 DEF OneRun, Silent
    <3>2. ~Ended(toPhone) /\ Once(toPhone)
      BY <1>7, <3>1 DEF OneRun
    <3> QED
      BY <1>2, <2>1, <3>1, <3>2 DEF Once, Ended
  <2>4. CASE linked
    <3> DEFINE q == Ask("view")
               n == Len(toDaemon)
    <3>1. toPhone' = rest /\ toDaemon' = toDaemon \o <<q>>
      BY <1>1, <1>3, <1>7, <2>4
    <3>2. q \in DaemonMessage
      BY RequestsTyped
    <3> HIDE DEF q, rest, m, subscribes, more, asks
    <3>3. toDaemon' = Append(toDaemon, q)
      BY <1>1, <3>1, <3>2, AppendIsConcat
    <3>4. /\ n \in Nat /\ DOMAIN toDaemon = 1..n /\ DOMAIN toDaemon' = 1..(n + 1)
          /\ \A i \in 1..n : toDaemon'[i] = toDaemon[i]
      BY <1>1, <3>2, <3>3, AppendProperties, LenProperties
    <3> HIDE DEF n
    <3>5. \A i \in DOMAIN toDaemon' : Runs(toDaemon'[i]) => i = n + 1
      BY <2>3, <3>4 DEF Silent
    <3> QED
      BY <2>3, <3>1, <3>5 DEF OneRun, Once, Silent, Ended, Runs, Ends
  <2>5. CASE ~linked
    <3> DEFINE o == Offline
    <3>1. toDaemon' = toDaemon /\ toPhone' = rest \o <<o>>
      BY <1>1, <1>7, <2>5
    <3>2. o \in PhoneMessage /\ ~Runs(o)
      BY MessagesTyped DEF Offline, Runs
    <3> HIDE DEF o, rest, m
    <3>3. <<o>> \in Seq(PhoneMessage) /\ \A i \in DOMAIN <<o>> : ~Runs(<<o>>[i])
      BY <3>2
    <3>4. Silent(toPhone')
      <4> DEFINE t == <<o>>
      <4>1. t \in Seq(PhoneMessage) /\ (\A i \in DOMAIN t : ~Runs(t[i])) /\ toPhone' = rest \o t
        BY <3>1, <3>3
      <4> HIDE DEF t
      <4> QED
        BY <1>3, <2>3, <4>1, Parts DEF Silent
    <3> QED
      BY <2>3, <3>1, <3>4, SilentRun
  <2> QED
    BY <2>4, <2>5
<1> QED
  BY <1>5, <1>6, <1>7

LEMMA ReconnectsRun ==
  ASSUME TypeInv, TypeInv', Reconnects
  PROVE  OneRun'
<1> DEFINE q == Ask("list")
<1>1. toPhone' = <<>> /\ Cut(<<q>>)
  BY DEF Reconnects
<1>2. q \in DaemonMessage
  BY RequestsTyped
<1> HIDE DEF q
<1>3. <<q>> \in Seq(DaemonMessage) /\ DOMAIN <<q>> = {1}
  BY <1>2
<1>4. \E d \in Nat : \A i \in DOMAIN toDaemon' : toDaemon'[i].kind = "respond" \/ i - d = 1
  <2> DEFINE t == <<q>>
  <2>1. t \in Seq(DaemonMessage) /\ DOMAIN t = {1} /\ Cut(t)
    BY <1>1, <1>3
  <2> HIDE DEF t
  <2> QED
    BY <2>1, CutTyped
<1>5. DOMAIN toDaemon' \subseteq Nat
  BY LenProperties DEF TypeInv, Wired
<1>6. \A i, j \in DOMAIN toDaemon' : Runs(toDaemon'[i]) /\ Runs(toDaemon'[j]) => i = j
  BY <1>4, <1>5 DEF Runs
<1> QED
  BY <1>1, <1>6 DEF OneRun, Once, Silent, Ended, Runs, Ends

LEMMA RunStep ==
  ASSUME TypeInv, TypeInv', OneRun, [CardsNext]_cardVars
  PROVE  OneRun'
<1> USE DEF phoneVars, stateVars
<1>1. /\ toPhone \in Seq(PhoneMessage) /\ toDaemon \in Seq(DaemonMessage)
      /\ NoNew(toPhone, toPhone, 0) /\ NoNew(toDaemon, toDaemon, 0)
  BY SameNew DEF TypeInv, Wired
<1>2. CASE Prompts \/ Withdraws \/ Touched \/ Exits
  <2>1. toDaemon' = toDaemon /\ net' = net
    BY <1>2 DEF Prompts, Withdraws, Touched, Exits
  <2>2. NoNew(toPhone, toPhone', 0)
    BY <1>1, <1>2, OwnEvents, EmitNew
  <2> QED
    BY <1>1, <2>1, <2>2, OneRunKept
<1>3. CASE TimesOut
  <2>1. PICK r \in asked : toPhone' = Append(toPhone, Answer(r.nr, FALSE))
    BY <1>3 DEF TimesOut
  <2>2. Answer(r.nr, FALSE) \in PhoneMessage
    BY MessagesTyped DEF TypeInv, CardsTypeOK, Response
  <2>3. NoNew(toPhone, toPhone', 0)
    BY <1>1, <2>1, <2>2, EventsPlain, PlainAppend
  <2> QED
    BY <1>1, <1>3, <2>3, OneRunKept DEF TimesOut
<1>4. CASE Registers
  <2>1. Told("session", session) \in PhoneMessage
    BY MessagesTyped DEF TypeInv, CardsTypeOK
  <2>2. NoNew(toPhone, toPhone', 0)
    BY <1>1, <1>4, <2>1, EventsPlain, PlainAppend DEF Registers
  <2> QED
    BY <1>1, <1>4, <2>2, OneRunKept DEF Registers
<1>5. CASE PhoneLost \/ Retry \/ TimerFires
  BY <1>5 DEF PhoneLost, Retry, TimerFires, Replace, OneRun
<1>6. CASE RunFails
  <2>1. /\ toPhone' = toPhone /\ toDaemon' = toDaemon /\ net # "away"
        /\ \A i \in DOMAIN toPhone : toPhone[i].kind \notin {net, "offline"}
    BY <1>6 DEF RunFails
  <2>2. Silent(toPhone) /\ ~Ended(toPhone)
    BY <2>1 DEF OneRun, Silent, Ended, Ends
  <2> QED
    BY <2>1, <2>2 DEF OneRun, Once, Silent, Ended, Runs, Ends
<1>7. CASE \E z \in Places : Submit(z)
  <2> DEFINE a == Answer(spent', FALSE)
             q == Respond(spent', seen.card)
  <2>1. /\ toPhone' \in {toPhone, toPhone \o <<>>, toPhone \o <<a>>}
        /\ toDaemon' \in {toDaemon, toDaemon \o <<>>, toDaemon \o <<q>>}
        /\ net' = net /\ spent' \in 1..MaxEvents /\ seen.card \in Ids \ {0}
    BY <1>7, SpendTyped DEF Submit, Request, CanSubmit, TypeInv, Wired
  <2>2. a \in PhoneMessage /\ q \in DaemonMessage /\ ~Runs(a) /\ ~Ends(a) /\ ~Runs(q) /\ ~Ends(q)
    BY <2>1, MessagesTyped, RequestsTyped, EventsPlain
  <2>3. toPhone \o <<>> = toPhone /\ toDaemon \o <<>> = toDaemon
    BY <1>1, ConcatEmptySeq
  <2> HIDE DEF a, q
  <2>4. NoNew(toPhone, toPhone \o <<a>>, 0) /\ NoNew(toDaemon, toDaemon \o <<q>>, 0)
    BY <1>1, <2>2, PlainAppend
  <2> QED
    BY <1>1, <2>1, <2>3, <2>4, OneRunKept
<1>8. CASE Open
  <2> DEFINE q == Ask("open")
  <2>1. /\ toPhone' = toPhone /\ net' = net
        /\ toDaemon' \in {toDaemon \o <<>>, toDaemon \o <<q>>}
    BY <1>8 DEF Open
  <2>2. q \in DaemonMessage /\ ~Runs(q) /\ ~Ends(q)
    BY RequestsTyped, EventsPlain
  <2>3. toDaemon \o <<>> = toDaemon
    BY <1>1, ConcatEmptySeq
  <2> HIDE DEF q
  <2>4. NoNew(toDaemon, toDaemon \o <<q>>, 0)
    BY <1>1, <2>2, PlainAppend
  <2> QED
    BY <1>1, <2>1, <2>3, <2>4, OneRunKept
<1>9. CASE Render \/ Effects \/ Dismiss \/ Back \/ UNCHANGED cardVars
  <2>1. toPhone' = toPhone /\ toDaemon' = toDaemon /\ net' = net
    BY <1>9 DEF Render, Effects, Dismiss, Back, cardVars
  <2> QED
    BY <1>1, <2>1, OneRunKept
<1> QED
  BY <1>2, <1>3, <1>4, <1>5, <1>6, <1>7, <1>8, <1>9, HandlesRun, LostRun, ReceiveRun, ReconnectsRun
  DEF CardsNext

-----------------------------------------------------------------------------
(* What the phone is told of the session.                                  *)

Tells(m) == m.kind \in {"session", "list", "view", "open"}
TellsLast(i) ==
  i \in DOMAIN toPhone /\ Tells(toPhone[i]) /\ \A j \in DOMAIN toPhone : j > i => ~Tells(toPhone[j])
Agrees(s, t) == s.status = t.status /\ s.prompt = t.prompt

\* With both websockets open, status and prompt of the last telling are the
\* daemon's, and those the phone has when nothing more is told.  The times need
\* not be: see Touched and Exits.
Current ==
  linked /\ net # "away" =>
    /\ \A i \in DOMAIN toPhone : TellsLast(i) => Agrees(toPhone[i].session, session)
    /\ net = "online" /\ (\A i \in DOMAIN toPhone : ~Tells(toPhone[i])) => Agrees(known, session)

\* The sessions that wait, as anyone has them: their time is of one prompt.
FromWire(s) == \E i \in DOMAIN toPhone : Tells(toPhone[i]) /\ toPhone[i].session = s
Waiting == {s \in Session : s.status = "waiting" /\ (s \in {session, known, seen.session} \/ FromWire(s))}
Stamped ==
  /\ \A s \in Waiting : s.stamp <= session.stamp /\ (Key(s) \in dismissed => s.prompt \in ignored)
  /\ \A s, t \in Waiting : s.stamp = t.stamp => s.prompt = t.prompt
  /\ \A k \in dismissed : k.status = "waiting" => k.stamp <= session.stamp

ShownWhereDrawn ==
  Attention(seen.session) /\ seen.session.status = "waiting" => zone["inbox"] # Unmounted

ShownInv == TypeInv /\ OneRun /\ Current /\ Stamped /\ ShownWhereDrawn

\* A later time is of no prompt yet.
LEMMA StampedKept ==
  ASSUME TypeInv, Stamped, session' \in Session, Waiting' \subseteq Waiting \cup {session'},
         session' = session \/ session'.stamp > session.stamp,
         UNCHANGED <<dismissed, ignored>>
  PROVE  Stamped'
<1>1. /\ session \in Session /\ session.stamp \in Nat /\ session'.stamp \in Nat
      /\ session.stamp <= session'.stamp
      /\ dismissed \subseteq [status : {"waiting", "stopped"}, stamp : Nat]
  BY DEF TypeInv, CardsTypeOK, Session
<1>2. \A s \in Waiting : s.stamp \in Nat /\ s.stamp <= session.stamp
  BY DEF Waiting, Session, Stamped
<1>3. \A k \in dismissed : k.stamp \in Nat /\ (k.status = "waiting" => k.stamp <= session.stamp)
  BY <1>1 DEF Stamped
<1>4. \A s \in Waiting' : s \in Waiting \/ (s = session' /\ session'.stamp > session.stamp)
  <2> SUFFICES ASSUME NEW s \in Waiting', s = session', session' = session PROVE s \in Waiting
    OBVIOUS
  <2> QED
    BY DEF Waiting
<1>5. \A s \in Waiting' : s.stamp <= session'.stamp
  BY <1>1, <1>2, <1>4
<1>6. ASSUME NEW s \in Waiting', Key(s) \in dismissed PROVE s.prompt \in ignored
  <2>1. CASE s \in Waiting
    BY <1>6, <2>1 DEF Stamped
  <2>2. CASE s = session' /\ session'.stamp > session.stamp
    <3>1. Key(s).status = "waiting" /\ Key(s).stamp = session'.stamp
      BY <2>2 DEF Key, Waiting
    <3> QED
      BY <1>1, <1>3, <1>6, <2>2, <3>1
  <2> QED
    BY <1>4, <2>1, <2>2
<1>7. ASSUME NEW s \in Waiting', NEW t \in Waiting', s.stamp = t.stamp PROVE s.prompt = t.prompt
  <2>1. CASE s \in Waiting /\ t \in Waiting
    BY <1>7, <2>1 DEF Stamped
  <2>2. CASE s = session' /\ t = session'
    BY <2>2
  <2>3. CASE s \in Waiting /\ t = session' /\ session'.stamp > session.stamp
    BY <1>1, <1>2, <1>7, <2>3
  <2>4. CASE t \in Waiting /\ s = session' /\ session'.stamp > session.stamp
    BY <1>1, <1>2, <1>7, <2>4
  <2> QED
    BY <1>4, <2>1, <2>2, <2>3, <2>4
<1>8. \A k \in dismissed' : k.status = "waiting" => k.stamp <= session'.stamp
  BY <1>1, <1>3
<1> QED
  BY <1>5, <1>6, <1>7, <1>8 DEF Stamped

LEMMA WaitingFrom ==
  ASSUME known' = known \/ FromWire(known'),
         seen'.session \in {seen.session, known},
         \A s \in Session : s.status = "waiting" /\ FromWire(s)' => s = session' \/ FromWire(s)
  PROVE  Waiting' \subseteq Waiting \cup {session'}
<1> SUFFICES ASSUME NEW s \in Waiting', s # session' PROVE s \in Waiting
  OBVIOUS
<1>1. s \in Session /\ s.status = "waiting"
  BY DEF Waiting
<1>2. CASE s = known'
  BY <1>1, <1>2 DEF Waiting
<1>3. CASE s = seen'.session
  BY <1>1, <1>3 DEF Waiting
<1>4. CASE FromWire(s)'
  BY <1>1, <1>4 DEF Waiting
<1> QED
  BY <1>2, <1>3, <1>4 DEF Waiting

\* Messages that tell of a session that waits as it becomes; and those that tell
\* the phone of the session as it becomes, or of nothing when neither its status
\* nor its prompt changes.
Honest(events) ==
  /\ events \in Seq(PhoneMessage)
  /\ \A i \in DOMAIN events :
       Tells(events[i]) /\ events[i].session.status = "waiting" => events[i].session = session'
Telling(events) ==
  /\ Honest(events)
  /\ \/ (\A i \in DOMAIN events : ~Tells(events[i])) /\ Agrees(session', session)
     \/ /\ events # <<>> /\ Tells(events[Len(events)])
        /\ Agrees(events[Len(events)].session, session')

LEMMA TellingKeeps ==
  ASSUME TypeInv, Current, linked, net # "away", NEW events, Telling(events),
         toPhone' = toPhone \o events, UNCHANGED <<linked, net, known>>
  PROVE  Current'
<1> DEFINE n == Len(toPhone)
           k == Len(events)
<1>1. /\ toPhone \in Seq(PhoneMessage) /\ events \in Seq(PhoneMessage)
  BY DEF TypeInv, Wired, Telling, Honest
<1>2. /\ n \in Nat /\ k \in Nat /\ DOMAIN toPhone = 1..n /\ DOMAIN events = 1..k /\ DOMAIN toPhone' = 1..(n + k)
      /\ \A i \in 1..n : toPhone'[i] = toPhone[i]
      /\ \A i \in 1..k : toPhone'[n + i] = events[i]
      /\ \A i \in 1..(n + k) : i \in 1..n \/ (i - n \in 1..k /\ toPhone'[i] = events[i - n])
  BY <1>1, Parts
<1> HIDE DEF n, k
<1>3. CASE (\A i \in DOMAIN events : ~Tells(events[i])) /\ Agrees(session', session)
  <2>1. ASSUME NEW i \in DOMAIN toPhone', TellsLast(i)' PROVE Agrees(toPhone'[i].session, session')
    <3>1. Tells(toPhone'[i]) /\ \A j \in DOMAIN toPhone' : j > i => ~Tells(toPhone'[j])
      BY <2>1 DEF TellsLast
    <3>2. i \in 1..n /\ toPhone'[i] = toPhone[i]
      BY <1>2, <1>3, <3>1
    <3>3. TellsLast(i)
      <4>1. \A j \in 1..n : j \in DOMAIN toPhone' /\ toPhone'[j] = toPhone[j]
        BY <1>2
      <4> QED
        BY <1>2, <3>1, <3>2, <4>1 DEF TellsLast
    <3> QED
      BY <1>2, <1>3, <3>2, <3>3 DEF Current, Agrees
  <2>2. ASSUME net = "online", \A i \in DOMAIN toPhone' : ~Tells(toPhone'[i]) PROVE Agrees(known, session')
    <3>1. \A i \in DOMAIN toPhone : ~Tells(toPhone[i])
      <4>1. \A i \in 1..n : i \in DOMAIN toPhone' /\ toPhone'[i] = toPhone[i]
        BY <1>2
      <4> QED
        BY <1>2, <2>2, <4>1
    <3> QED
      BY <1>3, <2>2, <3>1 DEF Current, Agrees
  <2> QED
    BY <2>1, <2>2 DEF Current
<1>4. CASE events # <<>> /\ Tells(events[k]) /\ Agrees(events[k].session, session')
  <2>1. k \in 1..k
    <3>1. k # 0
      BY <1>1, <1>4, EmptySeq DEF k
    <3> QED
      BY <1>2, <3>1
  <2>2. n + k \in DOMAIN toPhone' /\ toPhone'[n + k] = events[k]
    BY <1>2, <2>1
  <2>3. ASSUME NEW i \in DOMAIN toPhone', TellsLast(i)' PROVE i = n + k
    <3>1. ~(n + k > i)
      BY <1>4, <2>2, <2>3 DEF TellsLast
    <3> QED
      BY <1>2, <3>1
  <2> QED
    BY <1>4, <2>2, <2>3 DEF Current
<1> QED
  BY <1>3, <1>4 DEF Telling, k

LEMMA TellingWaits ==
  ASSUME TypeInv, NEW events, Honest(events), toPhone' = toPhone \o events
  PROVE  \A s \in Session : s.status = "waiting" /\ FromWire(s)' => s = session' \/ FromWire(s)
<1>1. toPhone \in Seq(PhoneMessage) /\ events \in Seq(PhoneMessage)
  BY DEF TypeInv, Wired, Honest
<1> SUFFICES ASSUME NEW s \in Session, s.status = "waiting", FromWire(s)'
             PROVE  s = session' \/ FromWire(s)
  BY DEF FromWire
<1>2. PICK i \in DOMAIN toPhone' : Tells(toPhone'[i]) /\ toPhone'[i].session = s
  BY DEF FromWire
<1>3. (i \in DOMAIN toPhone /\ toPhone'[i] = toPhone[i]) \/ \E j \in DOMAIN events : toPhone'[i] = events[j]
  BY <1>1, Parts
<1>4. CASE i \in DOMAIN toPhone /\ toPhone'[i] = toPhone[i]
  BY <1>2, <1>4 DEF FromWire
<1>5. CASE \E j \in DOMAIN events : toPhone'[i] = events[j]
  BY <1>2, <1>5 DEF Honest
<1> QED
  BY <1>3, <1>4, <1>5

\* The last of the events tells of the session as it becomes.
TellingLast(events) ==
  /\ Honest(events) /\ events # <<>>
  /\ Tells(events[Len(events)]) /\ Agrees(events[Len(events)].session, session')

LEMMA LastTelling == ASSUME NEW events, TellingLast(events) PROVE Telling(events)
BY DEF TellingLast, Telling

LEMMA TellingAfter ==
  ASSUME NEW first \in Seq(PhoneMessage), NEW events, TellingLast(events),
         \A i \in DOMAIN first : Tells(first[i]) => first[i].session.status # "waiting"
  PROVE  TellingLast(first \o events)
<1> DEFINE n == Len(first)
           k == Len(events)
           all == first \o events
<1>1. events \in Seq(PhoneMessage) /\ events # <<>>
  BY DEF TellingLast, Honest
<1>2. /\ n \in Nat /\ k \in Nat /\ DOMAIN first = 1..n /\ DOMAIN events = 1..k
      /\ DOMAIN all = 1..(n + k) /\ Len(all) = n + k
      /\ \A i \in 1..n : all[i] = first[i]
      /\ \A i \in 1..k : all[n + i] = events[i]
      /\ \A i \in 1..(n + k) : i \in 1..n \/ (i - n \in 1..k /\ all[i] = events[i - n])
  BY <1>1, Parts
<1>3. all \in Seq(PhoneMessage)
  BY <1>1, ConcatProperties
<1>4. k # 0
  BY <1>1, EmptySeq
<1>5. /\ Tells(events[k]) /\ Agrees(events[k].session, session')
      /\ \A i \in DOMAIN events :
           Tells(events[i]) /\ events[i].session.status = "waiting" => events[i].session = session'
  BY DEF TellingLast, Honest
<1> HIDE DEF n, k, all
<1>6. all[Len(all)] = events[k] /\ all # <<>>
  <2>1. k \in 1..k /\ n + k # 0
    BY <1>2, <1>4
  <2> QED
    BY <1>2, <1>3, <2>1, EmptySeq
<1>7. ASSUME NEW i \in DOMAIN all, Tells(all[i]), all[i].session.status = "waiting"
      PROVE  all[i].session = session'
  <2>1. CASE i \in 1..n
    BY <1>2, <1>7, <2>1
  <2>2. CASE i - n \in 1..k /\ all[i] = events[i - n]
    BY <1>2, <1>5, <1>7, <2>2
  <2> QED
    BY <1>2, <2>1, <2>2
<1>8. TellingLast(all)
  BY <1>3, <1>5, <1>6, <1>7 DEF TellingLast, Honest
<1> QED
  BY <1>8 DEF all

LEMMA OneTelling ==
  ASSUME NEW m \in PhoneMessage, Tells(m), Agrees(m.session, session'),
         m.session.status = "waiting" => m.session = session'
  PROVE  TellingLast(<<m>>)
<1>1. /\ <<m>> \in Seq(PhoneMessage) /\ <<m>> # <<>> /\ Len(<<m>>) = 1 /\ DOMAIN <<m>> = {1}
      /\ <<m>>[1] = m
  OBVIOUS
<1> QED
  BY <1>1 DEF TellingLast, Honest

LEMMA Pair ==
  ASSUME NEW S, NEW a \in S, NEW b \in S
  PROVE  <<a, b>> = <<a>> \o <<b>>
<1>1. /\ <<a>> \in Seq(S) /\ <<b>> \in Seq(S) /\ <<a, b>> \in Seq(S)
      /\ Len(<<a>>) = 1 /\ Len(<<b>>) = 1 /\ Len(<<a, b>>) = 2
      /\ <<a>>[1] = a /\ <<b>>[1] = b /\ <<a, b>>[1] = a /\ <<a, b>>[2] = b
  OBVIOUS
<1> DEFINE x == <<a>>
           y == <<b>>
           z == <<a, b>>
<1> HIDE DEF x, y, z
<1>2. /\ x \in Seq(S) /\ y \in Seq(S) /\ z \in Seq(S)
      /\ Len(x) = 1 /\ Len(y) = 1 /\ Len(z) = 2 /\ x[1] = a /\ y[1] = b /\ z[1] = a /\ z[2] = b
  BY <1>1 DEF x, y, z
<1>3. /\ x \o y \in Seq(S) /\ Len(x \o y) = 2 /\ (x \o y)[1] = a /\ (x \o y)[2] = b
  BY <1>2, ConcatProperties
<1>4. z = x \o y
  BY <1>2, <1>3, SeqEqual
<1> QED
  BY <1>4 DEF x, y, z

\* Closing tells, when there is something to close.
LEMMA ClosingTells ==
  ASSUME TypeInv, session' \in Session
  PROVE  /\ \A i \in DOMAIN Closing : Tells(Closing[i]) => Closing[i].session.status # "waiting"
         /\ session.prompt # 0 /\ Agrees(Becomes("running", Now, 0), session') => TellingLast(Closing)
<1> DEFINE told == Told("session", Becomes("running", Now, 0))
<1>1. /\ Becomes("running", Now, 0) \in Session /\ told \in PhoneMessage /\ Resolved \in PhoneMessage
  <2>1. 0 \in Ids /\ Now \in Nat
    BY BoundsAssumption, ClosingTyped DEF Ids
  <2> QED
    BY <2>1, BecomesTyped, MessagesTyped
<1>2. ~Tells(Resolved) /\ Tells(told) /\ told.session = Becomes("running", Now, 0)
      /\ told.session.status = "running"
  BY DEF Tells, Resolved, Told, Becomes
<1>3. Closing = IF session.prompt = 0 THEN <<>> ELSE <<Resolved>> \o <<told>>
  BY <1>1, Pair DEF Closing
<1> HIDE DEF told
<1>4. ASSUME NEW i \in DOMAIN Closing, Tells(Closing[i]) PROVE Closing[i].session.status # "waiting"
  BY <1>1, <1>2, <1>3, <1>4
<1>5. ASSUME session.prompt # 0, Agrees(Becomes("running", Now, 0), session') PROVE TellingLast(Closing)
  <2>1. TellingLast(<<told>>)
    BY <1>1, <1>2, <1>5, OneTelling
  <2>2. <<Resolved>> \in Seq(PhoneMessage) /\ \A i \in DOMAIN <<Resolved>> : <<Resolved>>[i] = Resolved
    BY <1>1
  <2>3. TellingLast(<<Resolved>> \o <<told>>)
    BY <1>2, <2>1, <2>2, TellingAfter
  <2> QED
    BY <1>3, <1>5, <2>3
<1> QED
  BY <1>4, <1>5

LEMMA OwnTelling ==
  ASSUME TypeInv, Prompts \/ Withdraws \/ Touched \/ Exits
  PROVE  /\ session' \in Session
         /\ session' = session \/ session'.stamp > session.stamp
         /\ \E events : Telling(events) /\ (Emit(events) \/ toPhone' = toPhone \o events)
<1>1. session' \in Session /\ session \in Session /\ Closing \in Seq(PhoneMessage)
      /\ Now \in Nat /\ Now > session.stamp /\ Now + 1 > session.stamp /\ 0 \in Ids
  <2>1. session' \in Session /\ session \in Session /\ session.stamp \in Nat
    BY DaemonTyped DEF TypeInv, CardsTypeOK, Session
  <2> QED
    BY <2>1, BoundsAssumption, ClosingTyped DEF Now, Ids
<1>2. CASE Prompts
  <2> DEFINE found == <<Requested(lastId + 1)>> \o <<Told("session", session')>>
  <2>1. /\ Requested(lastId + 1) \in PhoneMessage /\ Told("session", session') \in PhoneMessage
    <3>1. lastId' \in Ids /\ lastId' = lastId + 1
      BY <1>2, DaemonTyped DEF Prompts, CardsTypeOK
    <3> QED
      BY <1>1, <3>1, MessagesTyped
  <2>2. TellingLast(<<Told("session", session')>>)
    <3>1. Tells(Told("session", session')) /\ Told("session", session').session = session'
      BY DEF Tells, Told
    <3> QED
      BY <2>1, <3>1, OneTelling DEF Agrees
  <2>3. TellingLast(found)
    <3> DEFINE m == Requested(lastId + 1)
    <3>1. m \in PhoneMessage /\ ~Tells(m)
      BY <2>1 DEF Tells, Requested
    <3> HIDE DEF m
    <3>2. <<m>> \in Seq(PhoneMessage) /\ \A i \in DOMAIN <<m>> : <<m>>[i] = m
      BY <3>1
    <3>3. TellingLast(<<m>> \o <<Told("session", session')>>)
      BY <2>2, <3>1, <3>2, TellingAfter
    <3> QED
      BY <3>3 DEF m
  <2>4. Emit(Closing \o found)
    <3>1. found = <<Requested(lastId + 1), Told("session", session')>>
      BY <2>1, Pair
    <3> HIDE DEF found
    <3> QED
      BY <1>2, <3>1 DEF Prompts
  <2> HIDE DEF found
  <2>5. Telling(Closing \o found)
    BY <1>1, <2>3, ClosingTells, TellingAfter, LastTelling
  <2>6. session'.stamp > session.stamp
    BY <1>1, <1>2 DEF Prompts, Becomes
  <2> QED
    BY <1>1, <2>4, <2>5, <2>6
<1>3. CASE Withdraws
  <2>1. session' = Becomes("running", Now, 0) /\ session.prompt # 0 /\ Emit(Closing)
    BY <1>3 DEF Withdraws
  <2>2. Telling(Closing)
    BY <1>1, <2>1, ClosingTells, LastTelling DEF Agrees
  <2>3. session'.stamp > session.stamp
    BY <1>1, <2>1 DEF Becomes
  <2> QED
    BY <1>1, <2>1, <2>2, <2>3
<1>4. CASE Touched
  <2>1. session'.stamp > session.stamp /\ Agrees(session', session) /\ toPhone' = toPhone
    BY <1>1, <1>4 DEF Touched, Session, Agrees
  <2>2. Telling(<<>>) /\ toPhone' = toPhone \o <<>>
    <3>1. toPhone \in Seq(PhoneMessage)
      BY DEF TypeInv, Wired
    <3> QED
      BY <2>1, <3>1, ConcatEmptySeq DEF Telling, Honest
  <2> QED
    BY <1>1, <2>1, <2>2
<1>5. CASE Exits
  <2> DEFINE told == Told("session", Becomes("stopped", Now + 1, 0))
             closed == IF session.prompt = 0 THEN <<>> ELSE <<Resolved>>
  <2>1. told \in PhoneMessage /\ Resolved \in PhoneMessage
    <3>1. Now + 1 \in Nat
      BY <1>1
    <3> QED
      BY <1>1, <3>1, BecomesTyped, MessagesTyped
  <2>2. session' = Becomes("stopped", Now, 0) /\ Emit(closed \o <<told>>)
    BY <1>5 DEF Exits
  <2>3. TellingLast(<<told>>)
    <3>1. Tells(told) /\ Agrees(told.session, session') /\ told.session.status # "waiting"
      BY <2>2 DEF Tells, Told, Agrees, Becomes
    <3> HIDE DEF told
    <3> QED
      BY <2>1, <3>1, OneTelling
  <2>4. closed \in Seq(PhoneMessage) /\ \A i \in DOMAIN closed : ~Tells(closed[i])
    <3>1. ~Tells(Resolved)
      BY DEF Tells, Resolved
    <3>2. <<Resolved>> \in Seq(PhoneMessage) /\ \A i \in DOMAIN <<Resolved>> : <<Resolved>>[i] = Resolved
      BY <2>1
    <3> QED
      BY <3>1, <3>2
  <2> HIDE DEF told, closed
  <2>5. Telling(closed \o <<told>>)
    BY <2>3, <2>4, TellingAfter, LastTelling
  <2>6. session'.stamp > session.stamp
    BY <1>1, <2>2 DEF Becomes
  <2> QED
    BY <1>1, <2>2, <2>5, <2>6
<1> QED
  BY <1>2, <1>3, <1>4, <1>5

\* What is sent to a phone that is away need not tell of all that happens.
LEMMA EventsCurrent ==
  ASSUME ShownInv, session' \in Session, session' = session \/ session'.stamp > session.stamp,
         NEW events, Honest(events), linked /\ net # "away" => Telling(events),
         toPhone' = toPhone \o events,
         UNCHANGED <<linked, net, known, seen, dismissed, ignored>>
  PROVE  Current' /\ Stamped'
<1>1. TypeInv /\ Current /\ Stamped
  BY DEF ShownInv
<1>2. Waiting' \subseteq Waiting \cup {session'}
  <2>1. \A s \in Session : s.status = "waiting" /\ FromWire(s)' => s = session' \/ FromWire(s)
    BY <1>1, TellingWaits
  <2> QED
    BY <2>1, WaitingFrom
<1>3. Stamped'
  BY <1>1, <1>2, StampedKept
<1>4. Current'
  <2>1. CASE ~(linked /\ net # "away")
    BY <2>1 DEF Current
  <2>2. CASE linked /\ net # "away"
    BY <1>1, <2>2, TellingKeeps
  <2> QED
    BY <2>1, <2>2
<1> QED
  BY <1>3, <1>4

LEMMA EmittedCurrent ==
  ASSUME ShownInv, session' \in Session, session' = session \/ session'.stamp > session.stamp,
         NEW events, Telling(events), Emit(events) \/ toPhone' = toPhone \o events,
         UNCHANGED <<linked, net, known, seen, dismissed, ignored>>
  PROVE  Current' /\ Stamped'
<1>1. Honest(events) /\ Honest(<<>>)
  BY DEF Telling, Honest
<1>2. CASE Emit(events)
  <2>1. toPhone' = toPhone \o Emitted(events)
    BY <1>2 DEF Emit
  <2>2. Honest(Emitted(events)) /\ (linked /\ net # "away" => Telling(Emitted(events)))
    BY <1>1 DEF Emitted
  <2> QED
    BY <2>1, <2>2, EventsCurrent
<1> QED
  BY <1>1, <1>2, EventsCurrent

\* A zone that stands on the inbox goes on standing.
LEMMA DrawnKept ==
  ASSUME ShownInv, UNCHANGED seen, dismissed \subseteq dismissed',
         zone["inbox"] # Unmounted => zone'["inbox"] # Unmounted
  PROVE  ShownWhereDrawn'
BY DEF ShownInv, ShownWhereDrawn, Attention

LEMMA OwnShown ==
  ASSUME ShownInv, Prompts \/ Withdraws \/ Touched \/ Exits
  PROVE  Current' /\ Stamped' /\ ShownWhereDrawn'
<1>1. /\ UNCHANGED <<linked, net, known, seen, zone, dismissed, ignored>>
  BY DEF Prompts, Withdraws, Touched, Exits, phoneVars, stateVars, zoneVars
<1>2. /\ session' \in Session /\ (session' = session \/ session'.stamp > session.stamp)
      /\ \E events : Telling(events) /\ (Emit(events) \/ toPhone' = toPhone \o events)
  BY OwnTelling DEF ShownInv
<1>3. Current' /\ Stamped'
  BY <1>1, <1>2, EmittedCurrent
<1> QED
  BY <1>1, <1>3, DrawnKept

\* Messages that do not tell, while the session stays as it is.
LEMMA NotTelling ==
  ASSUME NEW events \in Seq(PhoneMessage), \A i \in DOMAIN events : ~Tells(events[i]), session' = session
  PROVE  Telling(events)
BY DEF Telling, Honest, Agrees

LEMMA ReplyTells ==
  ASSUME TypeInv, NEW nr \in 1..MaxEvents, NEW ok \in BOOLEAN
  PROVE  Reply(nr, ok) \in Seq(PhoneMessage) /\ \A i \in DOMAIN Reply(nr, ok) : ~Tells(Reply(nr, ok)[i])
<1> DEFINE a == Answer(nr, ok)
<1>1. a \in PhoneMessage /\ ~Tells(a)
  BY MessagesTyped DEF Tells, Answer
<1>2. Reply(nr, ok) = IF Awaited(nr) THEN <<a>> ELSE <<>>
  BY DEF Reply
<1> HIDE DEF a
<1>3. <<a>> \in Seq(PhoneMessage) /\ \A i \in DOMAIN <<a>> : ~Tells(<<a>>[i])
  BY <1>1
<1> QED
  BY <1>2, <1>3

LEMMA HandlesShown ==
  ASSUME ShownInv, Handles
  PROVE  Current' /\ Stamped' /\ ShownWhereDrawn'
<1> DEFINE h == Head(toDaemon)
<1>1. /\ UNCHANGED <<linked, net, known, seen, zone, dismissed, ignored>>
      /\ TypeInv /\ session \in Session /\ session' \in Session /\ toPhone \in Seq(PhoneMessage)
  BY HandlesTyped DEF Handles, phoneVars, stateVars, zoneVars, ShownInv, TypeInv, CardsTypeOK, Wired
<1>2. h \in DaemonMessage
  BY HeadTailProperties DEF Handles, ShownInv, TypeInv, Wired
<1> HIDE DEF h
<1>3. \/ toPhone' = toPhone /\ session' = session
      \/ /\ h.kind \in {"list", "view", "open"}
         /\ toPhone' = Append(toPhone, Told(h.kind, session)) /\ session' = session
      \/ /\ h.kind = "respond" /\ h.id = session.prompt
         /\ session' = Becomes("running", Now, 0)
         /\ toPhone' = toPhone \o Reply(h.nr, TRUE) \o Emitted(Closing)
      \/ /\ h.kind = "respond" /\ toPhone' = toPhone \o Reply(h.nr, FALSE) /\ session' = session
  BY DEF Handles, h
<1>4. \E events : /\ Honest(events) /\ (linked /\ net # "away" => Telling(events))
                  /\ toPhone' = toPhone \o events
  <2>1. CASE /\ h.kind \in {"list", "view", "open"}
             /\ toPhone' = Append(toPhone, Told(h.kind, session)) /\ session' = session
    <3> DEFINE m == Told(h.kind, session)
    <3>1. m \in PhoneMessage /\ Tells(m) /\ m.session = session'
      BY <1>1, <2>1, MessagesTyped DEF Tells, Told
    <3>2. toPhone' = Append(toPhone, m)
      BY <2>1
    <3> HIDE DEF m
    <3>3. Telling(<<m>>)
      BY <3>1, OneTelling, LastTelling DEF Agrees
    <3>4. toPhone' = toPhone \o <<m>>
      BY <1>1, <3>1, <3>2, AppendIsConcat
    <3> QED
      BY <3>3, <3>4 DEF Telling
  <2>2. CASE /\ h.kind = "respond" /\ h.id = session.prompt
             /\ session' = Becomes("running", Now, 0)
             /\ toPhone' = toPhone \o Reply(h.nr, TRUE) \o Emitted(Closing)
    <3>1. h.nr \in 1..MaxEvents /\ session.prompt # 0
      BY <1>2, <2>2, Asks
    <3>2. TellingLast(Closing)
      BY <1>1, <2>2, <3>1, ClosingTells DEF Agrees
    <3>3. /\ Reply(h.nr, TRUE) \in Seq(PhoneMessage)
          /\ \A i \in DOMAIN Reply(h.nr, TRUE) : ~Tells(Reply(h.nr, TRUE)[i])
      BY <1>1, <3>1, ReplyTells
    <3> DEFINE reply == Reply(h.nr, TRUE)
    <3>4. reply \in Seq(PhoneMessage) /\ \A i \in DOMAIN reply : ~Tells(reply[i])
      BY <3>3
    <3>5. toPhone' = toPhone \o reply \o Emitted(Closing)
      BY <2>2
    <3> HIDE DEF reply
    <3>6. Emitted(Closing) = IF linked /\ net # "away" THEN Closing ELSE <<>>
      BY DEF Emitted
    <3>7. Closing \in Seq(PhoneMessage) /\ Emitted(Closing) \in Seq(PhoneMessage)
      BY <1>1, ClosingTyped, EmittedTyped
    <3>8. toPhone' = toPhone \o (reply \o Emitted(Closing))
      <4> DEFINE more == Emitted(Closing)
      <4>1. toPhone \in Seq(PhoneMessage) /\ reply \in Seq(PhoneMessage) /\ more \in Seq(PhoneMessage)
        BY <1>1, <3>4, <3>7
      <4>2. toPhone' = (toPhone \o reply) \o more
        BY <3>5
      <4> HIDE DEF more
      <4>3. (toPhone \o reply) \o more = toPhone \o (reply \o more)
        BY <4>1, ConcatAssociative
      <4> QED
        BY <4>2, <4>3 DEF more
    <3>9. Telling(reply \o Closing)
      BY <3>2, <3>4, TellingAfter, LastTelling
    <3>10. Honest(reply)
      BY <3>4 DEF Honest
    <3>11. CASE linked /\ net # "away"
      BY <3>6, <3>8, <3>9, <3>11 DEF Telling
    <3>12. CASE ~(linked /\ net # "away")
      <4>1. toPhone' = toPhone \o reply
        BY <3>4, <3>6, <3>8, <3>12, ConcatEmptySeq
      <4> QED
        BY <3>10, <3>12, <4>1
    <3> QED
      BY <3>11, <3>12
  <2>3. CASE h.kind = "respond" /\ toPhone' = toPhone \o Reply(h.nr, FALSE) /\ session' = session
    <3>1. h.nr \in 1..MaxEvents
      BY <1>2, <2>3, Asks
    <3> DEFINE reply == Reply(h.nr, FALSE)
    <3>2. reply \in Seq(PhoneMessage) /\ \A i \in DOMAIN reply : ~Tells(reply[i])
      BY <1>1, <3>1, ReplyTells
    <3>3. toPhone' = toPhone \o reply
      BY <2>3
    <3> HIDE DEF reply
    <3>4. Telling(reply)
      BY <2>3, <3>2, NotTelling
    <3> QED
      BY <3>3, <3>4 DEF Telling
  <2>4. CASE toPhone' = toPhone /\ session' = session
    <3>1. Telling(<<>>) /\ toPhone' = toPhone \o <<>>
      BY <1>1, <2>4, ConcatEmptySeq DEF Telling, Honest, Agrees
    <3> QED
      BY <3>1 DEF Telling
  <2> QED
    BY <1>3, <2>1, <2>2, <2>3, <2>4
<1>5. session' = session \/ session'.stamp > session.stamp
  <2>1. session' = session \/ session' = Becomes("running", Now, 0)
    BY <1>3
  <2>2. session.stamp \in Nat
    BY <1>1 DEF Session
  <2> QED
    BY <2>1, <2>2 DEF Becomes, Now
<1>6. Current' /\ Stamped'
  BY <1>1, <1>4, <1>5, EventsCurrent
<1> QED
  BY <1>1, <1>6, DrawnKept

LEMMA LostShown ==
  ASSUME ShownInv, DaemonLost
  PROVE  Current' /\ Stamped' /\ ShownWhereDrawn'
<1>1. /\ UNCHANGED <<session, known, seen, zone, dismissed, ignored>> /\ linked' = FALSE
      /\ TypeInv /\ Stamped
  BY DEF DaemonLost, phoneVars, stateVars, zoneVars, ShownInv
<1>2. PICK n \in 0..Len(toPhone) : LostAt(n)
  BY <1>1, LostShape
<1> DEFINE told == SubSeq(toPhone, 1, n)
           open == InFlight(n)
<1>3. PICK last \in {<<>>, <<Offline>>} : toPhone' = told \o Refused(open) \o last
  BY <1>2 DEF LostAt
<1>4. /\ told \in Seq(PhoneMessage) /\ open \subseteq 1..MaxEvents
      /\ \A i \in DOMAIN told : i \in DOMAIN toPhone /\ told[i] = toPhone[i]
  <2>1. told \in Seq(PhoneMessage) /\ Len(told) = n /\ (\A i \in 1..n : told[i] = toPhone[i]) /\ open \subseteq 1..MaxEvents
    BY <1>2 DEF LostAt
  <2>2. toPhone \in Seq(PhoneMessage) /\ Len(toPhone) \in Nat
    BY <1>1, LenProperties DEF TypeInv, Wired
  <2> HIDE DEF told, open
  <2> QED
    BY <2>1, <2>2
<1> HIDE DEF told, open
<1>5. ASSUME NEW i \in DOMAIN toPhone', Tells(toPhone'[i])
      PROVE  \E j \in DOMAIN toPhone : toPhone[j] = toPhone'[i]
  <2> DEFINE ref == Refused(open)
  <2>1. ref \in Seq(PhoneMessage) /\ \A j \in DOMAIN ref : ~Tells(ref[j])
    <3>1. ref \in Seq({Answer(nr, FALSE) : nr \in open}) /\ ref \in Seq(PhoneMessage)
      BY <1>4, RefusedAll
    <3>2. \A a \in {Answer(nr, FALSE) : nr \in open} : ~Tells(a)
      BY DEF Tells, Answer
    <3>3. \A j \in DOMAIN ref : ref[j] \in {Answer(nr, FALSE) : nr \in open}
      <4> DEFINE A == {Answer(nr, FALSE) : nr \in open}
      <4>1. ref \in Seq(A)
        BY <3>1
      <4> HIDE DEF A, ref
      <4>2. \A j \in DOMAIN ref : ref[j] \in A
        BY <4>1
      <4> QED
        BY <4>2 DEF A
    <3> QED
      BY <3>1, <3>2, <3>3
  <2>2. last \in Seq(PhoneMessage) /\ \A j \in DOMAIN last : ~Tells(last[j])
    <3>1. ~Tells(Offline)
      BY DEF Tells, Offline
    <3>2. Offline \in PhoneMessage
      BY MessagesTyped
    <3>3. CASE last = <<>>
      BY <3>3
    <3>4. CASE last = <<Offline>>
      <4> DEFINE m == Offline
      <4>1. m \in PhoneMessage /\ ~Tells(m)
        BY <3>1, <3>2
      <4> HIDE DEF m
      <4>2. <<m>> \in Seq(PhoneMessage) /\ \A j \in DOMAIN <<m>> : <<m>>[j] = m
        BY <4>1
      <4> QED
        BY <3>4, <4>1, <4>2 DEF m
    <3> QED
      BY <3>3, <3>4
  <2>3. toPhone' = told \o ref \o last
    BY <1>3
  <2> HIDE DEF ref
  <2>4. told \o ref \in Seq(PhoneMessage)
    BY <1>4, <2>1, ConcatProperties
  <2>5. i \in DOMAIN (told \o ref \o last)
    BY <2>3
  <2>6. \/ i \in DOMAIN (told \o ref) /\ toPhone'[i] = (told \o ref)[i]
        \/ \E j \in DOMAIN last : toPhone'[i] = last[j]
    <3> DEFINE both == told \o ref
    <3>1. both \in Seq(PhoneMessage) /\ last \in Seq(PhoneMessage) /\ toPhone' = both \o last /\ i \in DOMAIN (both \o last)
      BY <2>2, <2>3, <2>4
    <3> HIDE DEF both
    <3>2. (i \in DOMAIN both /\ (both \o last)[i] = both[i]) \/ \E j \in DOMAIN last : (both \o last)[i] = last[j]
      BY <3>1, Parts
    <3> QED
      BY <3>1, <3>2 DEF both
  <2>7. i \in DOMAIN (told \o ref) /\ toPhone'[i] = (told \o ref)[i]
    BY <1>5, <2>2, <2>6
  <2>8. (i \in DOMAIN told /\ (told \o ref)[i] = told[i]) \/ \E j \in DOMAIN ref : (told \o ref)[i] = ref[j]
    <3>1. told \in Seq(PhoneMessage) /\ ref \in Seq(PhoneMessage)
      BY <1>4, <2>1
    <3> QED
      BY <2>7, <3>1, Parts
  <2> QED
    BY <1>4, <1>5, <2>1, <2>7, <2>8
<1>6. \A s \in Session : FromWire(s)' => FromWire(s)
  BY <1>5 DEF FromWire
<1>7. Waiting' \subseteq Waiting \cup {session'}
  BY <1>1, <1>6, WaitingFrom
<1>8. Stamped'
  BY <1>1, <1>7, StampedKept DEF TypeInv, CardsTypeOK
<1>9. Current'
  BY <1>1 DEF Current
<1> QED
  BY <1>1, <1>8, <1>9, DrawnKept

LEMMA RegistersShown ==
  ASSUME ShownInv, Registers
  PROVE  Current' /\ Stamped' /\ ShownWhereDrawn'
<1> DEFINE m == Told("session", session)
<1>1. /\ UNCHANGED <<session, net, known, seen, zone, dismissed, ignored>>
      /\ TypeInv /\ Stamped /\ session \in Session /\ toPhone \in Seq(PhoneMessage)
      /\ toPhone' = (IF net = "away" THEN toPhone ELSE Append(toPhone, m))
  BY DEF Registers, phoneVars, stateVars, zoneVars, ShownInv, TypeInv, CardsTypeOK, Wired
<1>2. m \in PhoneMessage /\ Tells(m) /\ m.session = session
  BY <1>1, MessagesTyped DEF Tells, Told
<1> HIDE DEF m
<1>3. CASE net = "away"
  <2>1. Current'
    BY <1>1, <1>3 DEF Current
  <2>2. \A s \in Session : FromWire(s)' => FromWire(s)
    BY <1>1, <1>3 DEF FromWire
  <2>3. Stamped'
    BY <1>1, <2>2, WaitingFrom, StampedKept
  <2> QED
    BY <1>1, <2>1, <2>3, DrawnKept
<1>4. CASE net # "away"
  <2> DEFINE n == Len(toPhone)
  <2>1. /\ n \in Nat /\ DOMAIN toPhone = 1..n /\ DOMAIN toPhone' = 1..(n + 1)
        /\ toPhone'[n + 1] = m /\ \A i \in 1..n : toPhone'[i] = toPhone[i]
    <3>1. toPhone' = Append(toPhone, m)
      BY <1>1, <1>4
    <3> QED
      BY <1>1, <1>2, <3>1, AppendProperties, LenProperties
  <2> HIDE DEF n
  <2>2. ASSUME NEW i \in DOMAIN toPhone', TellsLast(i)' PROVE i = n + 1
    <3>1. ~(n + 1 > i)
      BY <1>2, <2>1, <2>2 DEF TellsLast
    <3> QED
      BY <2>1, <3>1
  <2>3. Current'
    <3>1. Agrees(session, session)
      BY DEF Agrees
    <3>2. n + 1 \in DOMAIN toPhone'
      BY <2>1
    <3> QED
      BY <1>1, <1>2, <2>1, <2>2, <3>1, <3>2 DEF Current
  <2>4. \A s \in Session : FromWire(s)' => s = session' \/ FromWire(s)
    <3> SUFFICES ASSUME NEW s \in Session, NEW i \in DOMAIN toPhone', Tells(toPhone'[i]), toPhone'[i].session = s
                 PROVE  s = session \/ FromWire(s)
      BY <1>1 DEF FromWire
    <3>1. CASE i = n + 1
      BY <1>2, <2>1, <3>1
    <3>2. CASE i \in 1..n
      BY <2>1, <3>2 DEF FromWire
    <3> QED
      BY <2>1, <3>1, <3>2
  <2>5. Stamped'
    BY <1>1, <2>4, WaitingFrom, StampedKept
  <2> QED
    BY <1>1, <2>3, <2>5, DrawnKept
<1> QED
  BY <1>3, <1>4

\* A response that is settled takes no zone away.
LEMMA SettleStands ==
  ASSUME TypeInv, NEW responses, NEW phase \in Phases, Settle(responses, phase), zone["inbox"] # Unmounted
  PROVE  zone'["inbox"] # Unmounted
<1>1. zone["inbox"] \in [pending : BOOLEAN, phase : Phases, drawn : Phases] /\ "inbox" \in Places
  BY DEF TypeInv, CardsTypeOK, Places
<1>2. zone'["inbox"] \in {zone["inbox"], [zone["inbox"] EXCEPT !.phase = phase]}
  BY <1>1 DEF Settle
<1>3. [zone["inbox"] EXCEPT !.phase = phase].phase = phase
  BY <1>1
<1>4. Unmounted.phase = "none" /\ phase # "none"
  BY DEF Unmounted, Phases
<1> QED
  BY <1>2, <1>3, <1>4

LEMMA ReceiveShown ==
  ASSUME ShownInv, Receive
  PROVE  Current' /\ Stamped' /\ ShownWhereDrawn'
<1> DEFINE m == Head(toPhone)
           more == IF m.kind = "list" /\ net = "list" /\ opened /\ ~linked THEN <<Offline>> ELSE <<>>
           rest == Tail(toPhone)
           n == Len(toPhone)
<1>1. /\ toPhone \in Seq(PhoneMessage) /\ toPhone # <<>> /\ toPhone' = rest \o more
      /\ UNCHANGED <<session, linked, seen, dismissed, ignored>>
      /\ TypeInv /\ Stamped /\ session \in Session
  BY DEF ShownInv, TypeInv, Wired, CardsTypeOK, Receive, daemonVars
<1>2. /\ n \in Nat /\ n > 0 /\ DOMAIN toPhone = 1..n /\ m = toPhone[1]
      /\ rest \in Seq(PhoneMessage) /\ Len(rest) = n - 1 /\ DOMAIN rest = 1..(n - 1)
      /\ \A i \in 1..(n - 1) : rest[i] = toPhone[i + 1]
  BY <1>1, HeadTailProperties, LenProperties, EmptySeq
<1>3. more \in Seq(PhoneMessage) /\ \A i \in DOMAIN more : ~Tells(more[i])
  <2>1. ~Tells(Offline) /\ Offline \in PhoneMessage
    BY MessagesTyped DEF Tells, Offline
  <2>2. <<Offline>> \in Seq(PhoneMessage) /\ \A i \in DOMAIN <<Offline>> : ~Tells(<<Offline>>[i])
    <3> DEFINE x == Offline
    <3>1. x \in PhoneMessage /\ ~Tells(x)
      BY <2>1
    <3> HIDE DEF x
    <3>2. <<x>> \in Seq(PhoneMessage) /\ \A i \in DOMAIN <<x>> : <<x>>[i] = x
      BY <3>1
    <3>3. <<x>> \in Seq(PhoneMessage) /\ \A i \in DOMAIN <<x>> : ~Tells(<<x>>[i])
      BY <3>1, <3>2
    <3> QED
      BY <3>3 DEF x
  <2> QED
    BY <2>2
<1>4. /\ \A i \in DOMAIN toPhone' : Tells(toPhone'[i]) => i \in 1..(n - 1) /\ toPhone'[i] = toPhone[i + 1]
      /\ \A i \in 1..(n - 1) : i \in DOMAIN toPhone' /\ toPhone'[i] = toPhone[i + 1]
  <2> HIDE DEF more, m, rest, n
  <2>1. /\ Len(more) \in Nat /\ DOMAIN toPhone' = 1..((n - 1) + Len(more)) /\ DOMAIN more = 1..Len(more)
        /\ \A i \in 1..(n - 1) : toPhone'[i] = rest[i]
        /\ \A i \in 1..((n - 1) + Len(more)) :
             i \in 1..(n - 1) \/ (i - (n - 1) \in 1..Len(more) /\ toPhone'[i] = more[i - (n - 1)])
    <3>1. rest \in Seq(PhoneMessage) /\ more \in Seq(PhoneMessage)
      BY <1>2, <1>3
    <3>2. /\ Len(more) \in Nat /\ DOMAIN more = 1..Len(more)
          /\ DOMAIN (rest \o more) = 1..(Len(rest) + Len(more))
          /\ \A i \in 1..Len(rest) : (rest \o more)[i] = rest[i]
          /\ \A i \in 1..(Len(rest) + Len(more)) :
               i \in 1..Len(rest) \/ (i - Len(rest) \in 1..Len(more) /\ (rest \o more)[i] = more[i - Len(rest)])
      BY <3>1, Parts
    <3>3. Len(rest) = n - 1 /\ toPhone' = rest \o more
      BY <1>1, <1>2
    <3> QED
      BY <3>2, <3>3
  <2>2. \A i \in 1..(n - 1) : i \in DOMAIN toPhone' /\ toPhone'[i] = toPhone[i + 1]
    BY <1>2, <2>1
  <2>3. ASSUME NEW i \in DOMAIN toPhone', Tells(toPhone'[i]) PROVE i \in 1..(n - 1)
    <3>1. i \in 1..((n - 1) + Len(more))
      BY <2>1
    <3>2. CASE i - (n - 1) \in 1..Len(more) /\ toPhone'[i] = more[i - (n - 1)]
      <4>1. i - (n - 1) \in DOMAIN more
        BY <2>1, <3>2
      <4> QED
        BY <1>3, <2>3, <3>2, <4>1
    <3> QED
      BY <2>1, <3>1, <3>2
  <2> QED
    BY <2>2, <2>3
<1>5. /\ \/ m.kind \in {"answer", "requested", "resolved", "offline"} /\ known' = known /\ net' \in {net, "failed"}
         \/ m.kind = "session" /\ net # "online" /\ net' = net /\ known' = known
         \/ m.kind = "session" /\ net = "online" /\ net' = net /\ known' = m.session
         \/ m.kind \in {"list", "view"} /\ net # m.kind /\ net' = net /\ known' = known
         \/ m.kind \in {"list", "view", "open"} /\ known' = m.session
      /\ net' # "away" => net # "away"
  <2>1. m \in PhoneMessage
    BY <1>1, <1>2
  <2> QED
    BY <2>1, Carries DEF Receive
<1>12. ASSUME m.kind \in {"list", "view"}, net # m.kind PROVE net = "away"
  <2>1. 1 \in DOMAIN toPhone /\ m = toPhone[1]
    BY <1>2
  <2> QED
    BY <1>12, <2>1 DEF ShownInv, OneRun, Runs
<1> HIDE DEF m, more, rest, n
<1>6. known' = known \/ FromWire(known')
  BY <1>2, <1>5 DEF FromWire, Tells
<1>7. \A s \in Session : FromWire(s)' => FromWire(s)
  <2> SUFFICES ASSUME NEW s \in Session, NEW i \in DOMAIN toPhone', Tells(toPhone'[i]), toPhone'[i].session = s
               PROVE  FromWire(s)
    BY DEF FromWire
  <2>1. i + 1 \in DOMAIN toPhone /\ toPhone'[i] = toPhone[i + 1]
    BY <1>2, <1>4
  <2> QED
    BY <2>1 DEF FromWire
<1>8. Stamped'
  BY <1>1, <1>6, <1>7, WaitingFrom, StampedKept
<1>9. ASSUME linked, net' # "away" PROVE Current'
  <2>1. Current /\ net # "away"
    BY <1>5, <1>9 DEF ShownInv
  <2>2. ASSUME NEW i \in DOMAIN toPhone', TellsLast(i)' PROVE Agrees(toPhone'[i].session, session)
    <3>1. i \in 1..(n - 1) /\ toPhone'[i] = toPhone[i + 1] /\ i + 1 \in DOMAIN toPhone /\ Tells(toPhone[i + 1])
      BY <1>2, <1>4, <2>2 DEF TellsLast
    <3>2. ASSUME NEW j \in DOMAIN toPhone, j > i + 1 PROVE ~Tells(toPhone[j])
      <4>1. j - 1 \in 1..(n - 1) /\ j - 1 > i /\ (j - 1) + 1 = j
        BY <1>2, <3>1, <3>2
      <4>2. j - 1 \in DOMAIN toPhone' /\ toPhone'[j - 1] = toPhone[j]
        BY <1>4, <4>1
      <4> QED
        BY <2>2, <4>1, <4>2 DEF TellsLast
    <3>3. TellsLast(i + 1)
      BY <3>1, <3>2 DEF TellsLast
    <3> QED
      BY <1>9, <2>1, <3>1, <3>3 DEF Current
  <2>3. ASSUME net' = "online", \A i \in DOMAIN toPhone' : ~Tells(toPhone'[i]) PROVE Agrees(known', session)
    <3>1. \A j \in DOMAIN toPhone : j > 1 => ~Tells(toPhone[j])
      <4> SUFFICES ASSUME NEW j \in DOMAIN toPhone, j > 1 PROVE ~Tells(toPhone[j])
        OBVIOUS
      <4>1. j - 1 \in 1..(n - 1) /\ (j - 1) + 1 = j
        BY <1>2
      <4> QED
        BY <1>4, <2>3, <4>1
    <3>2. 1 \in DOMAIN toPhone
      BY <1>2
    <3>3. CASE Tells(m)
      <4>1. TellsLast(1)
        BY <1>2, <3>1, <3>2, <3>3 DEF TellsLast
      <4>2. known' = m.session
        BY <1>5, <1>12, <2>1, <2>3, <3>3 DEF Tells
      <4> QED
        BY <1>2, <1>9, <2>1, <3>2, <4>1, <4>2 DEF Current
    <3>4. CASE ~Tells(m)
      <4>1. known' = known /\ net = "online"
        BY <1>5, <2>3, <3>4 DEF Tells
      <4>2. \A j \in DOMAIN toPhone : ~Tells(toPhone[j])
        BY <1>2, <3>1, <3>4
      <4> QED
        BY <1>9, <2>1, <4>1, <4>2 DEF Current
    <3> QED
      BY <3>3, <3>4
  <2> QED
    BY <1>1, <2>2, <2>3 DEF Current
<1>10. Current'
  <2>1. CASE ~(linked /\ net' # "away")
    BY <1>1, <2>1 DEF Current
  <2> QED
    BY <1>9, <2>1
<1>11. zone["inbox"] # Unmounted => zone'["inbox"] # Unmounted
  <2>1. CASE Settle({r \in asked : r.nr = m.nr}, IF m.ok THEN "submitted" ELSE "failed")
    <3>1. (IF m.ok THEN "submitted" ELSE "failed") \in Phases
      BY DEF Phases
    <3> QED
      BY <1>1, <2>1, <3>1, SettleStands
  <2>2. CASE zone' = zone
    BY <2>2
  <2> QED
    BY <2>1, <2>2 DEF Receive, m
<1> QED
  BY <1>1, <1>8, <1>10, <1>11, DrawnKept

LEMMA RenderShown ==
  ASSUME ShownInv, Render
  PROVE  Current' /\ Stamped' /\ ShownWhereDrawn'
<1>1. /\ UNCHANGED <<session, linked, net, known, toPhone, dismissed, ignored>>
      /\ seen' = Drawn /\ TypeInv /\ Stamped /\ Current /\ session \in Session
  BY DEF Render, daemonVars, ShownInv, TypeInv, CardsTypeOK
<1>2. seen'.session = known
  BY <1>1 DEF Drawn
<1>3. \A s \in Session : FromWire(s)' => FromWire(s)
  BY <1>1 DEF FromWire
<1>4. Stamped'
  BY <1>1, <1>2, <1>3, WaitingFrom, StampedKept
<1>5. Current'
  BY <1>1 DEF Current, TellsLast
<1>6. ASSUME CardShows PROVE zone'["inbox"] # Unmounted
  <2>1. Shows("inbox") /\ "inbox" \in Places
    BY <1>6 DEF Shows, Places
  <2>2. zone'["inbox"] = IF ~Stays("inbox") THEN Mounted
                         ELSE [zone["inbox"] EXCEPT !.drawn = zone["inbox"].phase]
    BY <2>1 DEF Render
  <2>3. Stays("inbox") => zone["inbox"] \in [pending : BOOLEAN, phase : Phases, drawn : Phases]
    BY <1>1, <2>1 DEF Stays, TypeInv, CardsTypeOK
  <2>4. Stays("inbox") => [zone["inbox"] EXCEPT !.drawn = zone["inbox"].phase].phase \in Phases
    BY <2>3
  <2>5. Mounted # Unmounted /\ Unmounted.phase \notin Phases
    BY DEF Mounted, Unmounted, Phases
  <2> QED
    BY <2>2, <2>4, <2>5
<1>7. ShownWhereDrawn'
  BY <1>1, <1>2, <1>6 DEF ShownWhereDrawn, Attention, CardShows
<1> QED
  BY <1>4, <1>5, <1>7

\* What the connection does to the phone, the effects, and the navigation.
LEMMA PhoneShown ==
  ASSUME ShownInv,
         PhoneLost \/ Retry \/ RunFails \/ TimerFires \/ Reconnects \/ Effects \/ Open \/ Back
  PROVE  Current' /\ Stamped' /\ ShownWhereDrawn'
<1> USE DEF daemonVars, stateVars, phoneVars, zoneVars
<1>1. /\ UNCHANGED <<session, linked, known, seen, dismissed, ignored>>
      /\ \/ toPhone' = <<>> /\ net' \in {"away", "list"}
         \/ toPhone' = toPhone /\ net' = "away"
         \/ toPhone' = toPhone /\ net # "away" /\ net' \in {net, "backoff"}
         \/ toPhone' = toPhone /\ net' = net
      /\ TypeInv /\ Stamped /\ Current /\ session \in Session
  BY DEF PhoneLost, Retry, RunFails, TimerFires, Replace, Reconnects, Effects, Open, Back, ShownInv,
         TypeInv, CardsTypeOK
<1>2. \A s \in Session : FromWire(s)' => FromWire(s)
  BY <1>1 DEF FromWire
<1>3. Stamped'
  BY <1>1, <1>2, WaitingFrom, StampedKept
<1>4. Current'
  <2>1. CASE net' = "away"
    BY <2>1 DEF Current
  <2>2. CASE toPhone' = toPhone /\ net # "away" /\ net' \in {net, "backoff"}
    BY <1>1, <2>2 DEF Current, TellsLast
  <2>3. CASE toPhone' = <<>> /\ net' = "list"
    BY <2>3 DEF Current, TellsLast
  <2> QED
    BY <1>1, <2>1, <2>2, <2>3
<1>5. zone["inbox"] # Unmounted => zone'["inbox"] # Unmounted
  <2>1. CASE PhoneLost
    <3>1. "failed" \in Phases
      BY DEF Phases
    <3> QED
      BY <1>1, <2>1, <3>1, SettleStands DEF PhoneLost
  <2>2. CASE zone' = zone
    BY <2>2
  <2>3. CASE Effects
    <3>1. zone' = [z \in Places |-> IF z \in due THEN Renewed(z) ELSE zone[z]] /\ "inbox" \in Places
      BY <2>3 DEF Effects, Places
    <3>2. zone["inbox"] # Unmounted => Renewed("inbox") # Unmounted
      <4>1. zone["inbox"] # Unmounted => zone["inbox"] \in [pending : BOOLEAN, phase : Phases, drawn : Phases]
        BY <1>1, <3>1 DEF TypeInv, CardsTypeOK
      <4>2. zone["inbox"] # Unmounted => Renewed("inbox").phase = "idle"
        BY <4>1 DEF Renewed
      <4> QED
        BY <4>2 DEF Unmounted
    <3> QED
      BY <3>1, <3>2
  <2> QED
    BY <2>1, <2>2, <2>3 DEF Retry, RunFails, TimerFires, Replace, Reconnects, Open, Back
<1> QED
  BY <1>1, <1>3, <1>4, <1>5, DrawnKept

LEMMA TimesOutShown ==
  ASSUME ShownInv, TimesOut
  PROVE  Current' /\ Stamped' /\ ShownWhereDrawn'
<1>1. /\ UNCHANGED <<session, linked, net, known, seen, zone, dismissed, ignored>>
      /\ TypeInv /\ session \in Session /\ toPhone \in Seq(PhoneMessage)
  BY DEF TimesOut, daemonVars, phoneVars, stateVars, zoneVars, ShownInv, TypeInv, CardsTypeOK, Wired
<1>2. PICK r \in asked : toPhone' = Append(toPhone, Answer(r.nr, FALSE))
  BY DEF TimesOut
<1> DEFINE m == Answer(r.nr, FALSE)
<1>3. m \in PhoneMessage /\ ~Tells(m)
  BY <1>1, MessagesTyped DEF TypeInv, CardsTypeOK, Response, Tells, Answer
<1>4. toPhone' = Append(toPhone, m)
  BY <1>2
<1> HIDE DEF m
<1>5. toPhone' = toPhone \o <<m>>
  BY <1>1, <1>3, <1>4, AppendIsConcat
<1>6. Telling(<<m>>)
  <2>1. <<m>> \in Seq(PhoneMessage) /\ \A i \in DOMAIN <<m>> : <<m>>[i] = m
    BY <1>3
  <2> QED
    BY <1>1, <1>3, <2>1, NotTelling
<1>7. Current' /\ Stamped'
  BY <1>1, <1>5, <1>6, EmittedCurrent
<1> QED
  BY <1>1, <1>7, DrawnKept

LEMMA SubmitShown ==
  ASSUME ShownInv, NEW z \in Places, Submit(z)
  PROVE  Current' /\ Stamped' /\ ShownWhereDrawn'
<1>1. /\ UNCHANGED <<session, linked, net, known, seen, dismissed, ignored>>
      /\ TypeInv /\ session \in Session /\ toPhone \in Seq(PhoneMessage)
      /\ spent' \in 1..MaxEvents
  BY SpendTyped DEF Submit, daemonVars, phoneVars, stateVars, ShownInv, TypeInv, CardsTypeOK, Wired
<1> DEFINE m == Answer(spent', FALSE)
<1>2. m \in PhoneMessage /\ ~Tells(m)
  BY <1>1, MessagesTyped DEF Tells, Answer
<1>3. toPhone' \in {toPhone \o <<>>, toPhone \o <<m>>}
  <2>1. toPhone \o <<>> = toPhone
    BY <1>1
  <2> QED
    BY <2>1 DEF Submit, Request
<1> HIDE DEF m
<1>4. Telling(<<m>>) /\ Telling(<<>>)
  <2>1. <<m>> \in Seq(PhoneMessage) /\ \A i \in DOMAIN <<m>> : <<m>>[i] = m
    BY <1>2
  <2>2. <<>> \in Seq(PhoneMessage) /\ DOMAIN <<>> = {}
    OBVIOUS
  <2> QED
    BY <1>1, <1>2, <2>1, <2>2, NotTelling
<1>5. Current' /\ Stamped'
  BY <1>1, <1>3, <1>4, EmittedCurrent
<1>6. ASSUME zone["inbox"] # Unmounted PROVE zone'["inbox"] # Unmounted
  <2> DEFINE phase == IF net = "away" THEN "failed" ELSE "submitting"
  <2>1. phase \in Phases /\ Unmounted.phase \notin Phases
    BY DEF Phases, Unmounted
  <2>2. zone' = [zone EXCEPT ![z].pending = TRUE, ![z].phase = phase]
    BY DEF Submit
  <2>3. zone["inbox"] \in [pending : BOOLEAN, phase : Phases, drawn : Phases] /\ DOMAIN zone = Places
    BY <1>1, <1>6 DEF TypeInv, CardsTypeOK, Places
  <2> DEFINE marked == [zone EXCEPT ![z].pending = TRUE]
  <2>4. marked["inbox"] \in [pending : BOOLEAN, phase : Phases, drawn : Phases] /\ DOMAIN marked = Places
    <3>1. DOMAIN marked = Places /\ "inbox" \in Places
      BY <2>3 DEF Places
    <3>2. CASE z = "inbox"
      <4>1. marked["inbox"] = [zone["inbox"] EXCEPT !.pending = TRUE]
        BY <2>3, <3>1, <3>2
      <4> HIDE DEF marked
      <4> QED
        BY <2>3, <3>1, <4>1
    <3>3. CASE z # "inbox"
      BY <2>3, <3>1, <3>3
    <3> QED
      BY <3>1, <3>2, <3>3
  <2>5. zone' = [marked EXCEPT ![z].phase = phase]
    BY <2>2
  <2> HIDE DEF phase, marked
  <2>6. zone'["inbox"].phase \in Phases
    BY <2>1, <2>4, <2>5
  <2> QED
    BY <2>1, <2>6
<1> QED
  BY <1>1, <1>5, <1>6, DrawnKept

\* A dismissal ignores the prompt that a waiting session of its time is of.
LEMMA DismissShown ==
  ASSUME ShownInv, Dismiss
  PROVE  Current' /\ Stamped' /\ ShownWhereDrawn'
<1> DEFINE d == seen.session
<1>1. /\ UNCHANGED <<session, linked, net, known, seen, zone, toPhone>>
      /\ dismissed' = dismissed \cup {Key(d)} /\ ignored' = ignored \cup {d.prompt}
      /\ TypeInv /\ Stamped /\ Current /\ d \in Session
  BY DEF Dismiss, daemonVars, zoneVars, ShownInv, TypeInv, Wired
<1>2. Current'
  BY <1>1 DEF Current, TellsLast
<1>3. Waiting' = Waiting
  BY <1>1 DEF Waiting, FromWire
<1>4. ASSUME NEW s \in Waiting, Key(s) = Key(d) PROVE s.prompt = d.prompt
  <2>1. s.status = "waiting" /\ s.status = d.status /\ s.stamp = d.stamp
    BY <1>4 DEF Waiting, Key
  <2>2. d \in Waiting
    BY <1>1, <2>1 DEF Waiting
  <2> QED
    BY <1>1, <2>1, <2>2 DEF Stamped
<1>5. Key(d).status = "waiting" => Key(d).stamp <= session.stamp
  <2>1. Key(d).status = d.status /\ Key(d).stamp = d.stamp
    BY DEF Key
  <2>2. d.status = "waiting" => d \in Waiting
    BY <1>1 DEF Waiting
  <2> QED
    BY <1>1, <2>1, <2>2 DEF Stamped
<1>6. Stamped'
  <2> HIDE DEF d
  <2>1. \A s \in Waiting' : s.stamp <= session.stamp /\ (Key(s) \in dismissed' => s.prompt \in ignored')
    BY <1>1, <1>3, <1>4 DEF Stamped
  <2>2. \A k \in dismissed' : k.status = "waiting" => k.stamp <= session.stamp
    BY <1>1, <1>5 DEF Stamped
  <2> QED
    BY <1>1, <1>3, <2>1, <2>2 DEF Stamped
<1> QED
  BY <1>1, <1>2, <1>6, DrawnKept

LEMMA ShownStep ==
  ASSUME ShownInv, [CardsNext]_cardVars
  PROVE  ShownInv'
<1>1. TypeInv' /\ OneRun'
  BY TypeStep, RunStep DEF ShownInv
<1>2. CASE CardsNext
  BY <1>1, <1>2, OwnShown, HandlesShown, TimesOutShown, LostShown, RegistersShown, ReceiveShown,
     PhoneShown, RenderShown, SubmitShown, DismissShown DEF CardsNext, ShownInv
<1>3. CASE UNCHANGED cardVars
  <2> USE <1>3 DEF cardVars, daemonVars, phoneVars, stateVars, zoneVars
  <2>1. Current'
    BY DEF ShownInv, Current, TellsLast
  <2>2. Stamped'
    BY DEF ShownInv, Stamped, Waiting, FromWire
  <2>3. ShownWhereDrawn'
    BY DEF ShownInv, ShownWhereDrawn, Attention
  <2> QED
    BY <1>1, <2>1, <2>2, <2>3 DEF ShownInv
<1> QED
  BY <1>2, <1>3

LEMMA InitShown == CardsInit => ShownInv
<1> SUFFICES ASSUME CardsInit PROVE ShownInv
  OBVIOUS
<1>1. TypeInv /\ OneRun
  BY InitTypes DEF CardsInit, OneRun, Once, Silent, Ended
<1>2. session.status = "running" /\ known = session /\ seen.session = session /\ toPhone = <<>> /\ dismissed = {}
  BY DEF CardsInit
<1>3. Waiting = {}
  BY <1>2 DEF Waiting, FromWire
<1>4. Stamped
  BY <1>2, <1>3 DEF Stamped
<1>5. Current /\ ShownWhereDrawn
  BY <1>2 DEF Current, ShownWhereDrawn, Agrees
<1> QED
  BY <1>1, <1>4, <1>5 DEF ShownInv

\* A dismissal hides the card of the prompt it was tapped on and of no other
\* (makeDismissalKey): when everything is handled and drawn, a prompt whose card
\* was not dismissed has its zone on the inbox.
THEOREM UndismissedShown == CardsSpec => []UndismissedIsShown
<1>1. ShownInv => UndismissedIsShown
  <2> SUFFICES ASSUME ShownInv, Quiet, session.status = "waiting", session.prompt \notin ignored
               PROVE  zone["inbox"] # Unmounted
    BY DEF UndismissedIsShown
  <2>1. Agrees(known, session)
    BY DEF ShownInv, Current, Quiet, Online
  <2>2. known \in Waiting
    BY <2>1 DEF ShownInv, TypeInv, CardsTypeOK, Waiting, Agrees
  <2>3. Key(known) \notin dismissed
    BY <2>1, <2>2 DEF ShownInv, Stamped, Agrees
  <2>4. seen.session = known /\ known.status = "waiting"
    BY <2>2 DEF Quiet, Drawn, Waiting
  <2> QED
    BY <2>3, <2>4 DEF ShownInv, ShownWhereDrawn, Attention
<1> QED
  BY <1>1, InitShown, ShownStep, PTL DEF CardsSpec
=============================================================================
