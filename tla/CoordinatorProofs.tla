------------------------- MODULE CoordinatorProofs -------------------------
(***************************************************************************)
(* Theorems about the app and its connection, for every set of profiles,   *)
(* of requests and of submissions of pairing screens.                      *)
(***************************************************************************)
EXTENDS MobileApp, SequenceTheorems, FiniteSetTheorems, TLAPS

-----------------------------------------------------------------------------
(* The inductive invariant.                                                *)

\* The client's state, the socket and the run agree.
Wired ==
  /\ socket = "none" <=> state = "disconnected"
  /\ socket = "connecting" => state = "connecting"
  /\ socket = "open" => state = "connected"
  /\ transport <=> state = "connected"
  /\ state = "connecting" <=> run # None /\ run.at = "connect"
  /\ run # None /\ run.at # "connect" => state = "connected"

\* A run is for the coordinator's profile, except one that start(null) left to
\* end with its socket, or with an answer that comes before the close.
Driven ==
  /\ timer => profile # None /\ run = None
  /\ run # None /\ profile # None => run.profile = profile
  /\ run # None /\ profile = None => socket = "closing"
  /\ socket = "closing" => profile = None
  /\ profile # None /\ status \in Busy => timer \/ run # None

\* A run past its resume has resumed its own profile.
Resumed ==
  /\ run # None /\ run.at \in {"list", "subscribe"} => linked = run.profile
  /\ run # None /\ run.at # "connect" => caps \in {None, run.profile}

\* Requests of the app are in flight only between runs.
Quiet == \A a \in Askers : asked[a] = "sent" => state = "connected" /\ run = None /\ ~timer

IInv == TypeOK /\ Wired /\ Driven /\ Resumed /\ OnlineServesProfile /\ Quiet

LEMMA InitIInv == CoordInit => IInv
<1> SUFFICES ASSUME CoordInit PROVE IInv
  OBVIOUS
<1>1. TypeOK
  BY DEF CoordInit, TypeOK, Statuses
<1>2. Wired /\ Driven /\ Resumed /\ OnlineServesProfile /\ Quiet
  BY DEF CoordInit, Wired, Driven, Resumed, OnlineServesProfile, Quiet, Busy
<1>3. QED
  BY <1>1, <1>2 DEF IInv

\* What a run of synchronize that begins establishes.
LEMMA Synchronized ==
  ASSUME IInv, NEW p \in Profiles, NEW entry \in {"connecting", "reconnecting"},
         Synchronize(p, entry), timer' = FALSE, profile' = p,
         caps' = caps, clearing' = clearing
  PROVE  IInv'
<1>1. TypeOK'
  BY DEF IInv, TypeOK, Synchronize, Connect, Runs, Stages, Statuses
<1>0. run' \in Runs /\ run' # None /\ run'.at = "connect" /\ run'.profile = p /\ p # None
  <2>1. run' = [profile |-> p, at |-> "connect", sent |-> FALSE]
    BY DEF Synchronize
  <2>2. run' \in Runs
    BY <2>1 DEF Runs, Stages
  <2>3. QED
    BY <2>1, <2>2, NoneAssumption
<1>2. Wired'
  BY <1>0 DEF Synchronize, Connect, Wired
<1>3. Driven'
  BY <1>0 DEF Synchronize, Connect, Driven
<1>4. Resumed' /\ OnlineServesProfile'
  BY <1>0 DEF Synchronize, Resumed, OnlineServesProfile
<1>5. Quiet'
  BY DEF Synchronize, Connect, Quiet
<1>6. QED
  BY <1>1, <1>2, <1>3, <1>4, <1>5 DEF IInv

LEMMA NextIInv == IInv /\ [CoordNext]_coordVars => IInv'
<1> SUFFICES ASSUME IInv, [CoordNext]_coordVars PROVE IInv'
  OBVIOUS
<1> USE NoneAssumption DEF IInv
<1>1. CASE SocketOpens
  <2>1. TypeOK'
    BY <1>1 DEF SocketOpens, TypeOK, Runs, Stages, Statuses
  <2>2. run' \in Runs /\ run'.at = "resume" /\ run'.profile = run.profile /\ run' # None
    BY <1>1 DEF SocketOpens, TypeOK, Runs, Stages
  <2>3. Wired' /\ Driven'
    BY <1>1, <2>2 DEF SocketOpens, Wired, Driven
  <2>4. Resumed' /\ OnlineServesProfile'
    BY <1>1, <2>2 DEF SocketOpens, Resumed, OnlineServesProfile
  <2>5. Quiet'
    BY <1>1 DEF SocketOpens, Quiet
  <2>6. QED
    BY <2>1, <2>3, <2>4, <2>5
<1>2. CASE SocketCloses
  <2>1. TypeOK'
    BY <1>2 DEF SocketCloses, ScheduleReconnect, TypeOK, Statuses
  <2>2. Wired'
    BY <1>2 DEF SocketCloses, Wired
  <2>3. Driven'
    BY <1>2 DEF SocketCloses, ScheduleReconnect, TypeOK, Driven, Busy
  <2>4. Resumed' /\ OnlineServesProfile'
    BY <1>2 DEF SocketCloses, ScheduleReconnect, Resumed, OnlineServesProfile
  <2>5. Quiet'
    BY <1>2 DEF SocketCloses, Quiet
  <2>6. QED
    BY <2>1, <2>2, <2>3, <2>4, <2>5
<1>3. CASE ResumeAnswered
  <2>1. TypeOK'
    BY <1>3 DEF ResumeAnswered, Awaits, GoesOn, Negotiate, TypeOK, Runs, Stages
  <2>2. run' \in Runs /\ run'.at = "list" /\ run'.profile = run.profile /\ run' # None /\ run # None
    BY <1>3 DEF ResumeAnswered, Awaits, GoesOn, TypeOK, Runs, Stages
  <2>3. Wired' /\ Driven'
    BY <1>3, <2>2 DEF ResumeAnswered, Awaits, Wired, Driven
  <2>4. Resumed'
    BY <1>3, <2>2 DEF ResumeAnswered, Awaits, Negotiate, Resumed
  <2>5. OnlineServesProfile' /\ Quiet'
    BY <1>3, <2>2 DEF ResumeAnswered, OnlineServesProfile, Quiet
  <2>6. QED
    BY <2>1, <2>3, <2>4, <2>5
<1>4. ASSUME Awaits("list") \/ Awaits("subscribe"), Negotiate, Finished,
             UNCHANGED <<clientVars, profile, timer, transport, clearing>>
      PROVE  IInv'
  <2>1. /\ run # None /\ run.profile \in Profiles /\ state = "connected"
        /\ run.at \in {"list", "subscribe"} /\ linked = run.profile
    BY <1>4 DEF Awaits, TypeOK, Runs, Wired, Resumed
  <2>2. caps' \in {None, run.profile}
    BY <1>4, <2>1 DEF Awaits, Negotiate, Resumed
  <2>3. ~timer
    BY <2>1 DEF Driven
  <2>4. TypeOK'
    BY <1>4, <2>1, <2>2 DEF Finished, clientVars, TypeOK, Statuses
  <2>0. IF profile = None THEN socket = "closing"
        ELSE socket = "open" /\ run.profile = profile
    BY <2>1 DEF Driven, Wired, TypeOK
  <2>5. Wired' /\ Driven'
    BY <1>4, <2>1 DEF Finished, clientVars, Wired, Driven, Busy
  <2>6. Resumed' /\ OnlineServesProfile'
    BY <1>4, <2>0, <2>1, <2>2, <2>3 DEF Finished, clientVars, Resumed, OnlineServesProfile, Wired
  <2>7. Quiet'
    BY <1>4, <2>1 DEF Finished, clientVars, Quiet
  <2>8. QED
    BY <2>4, <2>5, <2>6, <2>7
<1>5. ASSUME NEW open \in BOOLEAN, ListAnswered(open) PROVE IInv'
  <2>1. CASE ~open
    BY <1>4, <1>5, <2>1 DEF ListAnswered
  <2>2. CASE open
    <3>1. TypeOK'
      BY <1>5, <2>2 DEF ListAnswered, Awaits, GoesOn, Negotiate, clientVars, TypeOK, Runs, Stages
    <3>2. /\ run' \in Runs /\ run'.at = "subscribe" /\ run'.profile = run.profile
          /\ run' # None /\ run # None /\ run.at = "list"
      <4>1. run # None /\ run.at = "list" /\ run \in Runs
        BY <1>5 DEF ListAnswered, Awaits, TypeOK
      <4>2. run' = [run EXCEPT !.at = "subscribe", !.sent = (socket = "open")]
        BY <1>5, <2>2 DEF ListAnswered, GoesOn
      <4>3. run' \in Runs /\ run'.at = "subscribe" /\ run'.profile = run.profile
        BY <4>1, <4>2 DEF Runs, Stages
      <4>4. QED
        BY <4>1, <4>3, NoneAssumption
    <3>3. Wired' /\ Driven'
      BY <1>5, <2>2, <3>2 DEF ListAnswered, Awaits, clientVars, Wired, Driven
    <3>4. Resumed'
      BY <1>5, <2>2, <3>2 DEF ListAnswered, Negotiate, clientVars, Resumed
    <3>5. OnlineServesProfile' /\ Quiet'
      BY <1>5, <2>2, <3>2 DEF ListAnswered, clientVars, OnlineServesProfile, Quiet
    <3>6. QED
      BY <3>1, <3>3, <3>4, <3>5
  <2>3. QED
    BY <2>1, <2>2
<1>6. CASE SubscribeAnswered
  BY <1>4, <1>6 DEF SubscribeAnswered
<1>7. CASE RunUnpaired
  <2>1. run # None /\ state = "connected"
    BY <1>7 DEF RunUnpaired, Awaits, Wired, TypeOK, Runs, Stages
  <2>2. TypeOK'
    <3>1. clearing' \in Nat
      BY <1>7 DEF RunUnpaired, TypeOK
    <3>2. QED
      BY <1>7, <3>1 DEF RunUnpaired, clientVars, TypeOK
  <2>3. Wired' /\ Driven'
    BY <1>7, <2>1 DEF RunUnpaired, clientVars, Wired, Driven
  <2>4. Resumed' /\ OnlineServesProfile' /\ Quiet'
    BY <1>7, <2>1 DEF RunUnpaired, clientVars, Resumed, OnlineServesProfile, Quiet, Driven
  <2>5. QED
    BY <2>2, <2>3, <2>4
<1>8. CASE RunOffline
  <2>1. run # None /\ state = "connected"
    BY <1>8 DEF RunOffline, Awaits, Wired, TypeOK, Runs, Stages
  <2>2. TypeOK'
    BY <1>8 DEF RunOffline, clientVars, TypeOK, Statuses
  <2>3. Wired' /\ Driven'
    BY <1>8, <2>1 DEF RunOffline, clientVars, Wired, Driven, Busy
  <2>4. Resumed' /\ OnlineServesProfile' /\ Quiet'
    BY <1>8, <2>1 DEF RunOffline, clientVars, Resumed, OnlineServesProfile, Quiet
  <2>5. QED
    BY <2>2, <2>3, <2>4
<1>9. CASE RunFails
  <2>1. run # None /\ state = "connected" /\ ~timer
    BY <1>9 DEF RunFails, Awaits, Wired, Driven, TypeOK, Runs, Stages
  <2>2. TypeOK'
    BY <1>9 DEF RunFails, ScheduleReconnect, clientVars, TypeOK, Statuses
  <2>3. status # "online"
    BY <2>1 DEF OnlineServesProfile
  <2>4. /\ run' = None /\ timer' = (profile # None)
        /\ status' = IF profile # None THEN "reconnecting" ELSE status
    BY <1>9, <2>1 DEF RunFails, ScheduleReconnect
  <2>5. Wired' /\ Driven'
    BY <1>9, <2>1, <2>4 DEF RunFails, clientVars, Wired, Driven
  <2>6. Resumed' /\ OnlineServesProfile'
    BY <2>3, <2>4 DEF Resumed, OnlineServesProfile
  <2>7. Quiet'
    BY <1>9, <2>1 DEF RunFails, clientVars, Quiet
  <2>8. QED
    BY <2>2, <2>5, <2>6, <2>7
<1>10. CASE Invalidated \/ InvalidationFails
  <2>1. TypeOK'
    BY <1>10 DEF Invalidated, InvalidationFails, clientVars, TypeOK, Statuses
  <2>2. Wired' /\ Driven'
    BY <1>10 DEF Invalidated, InvalidationFails, clientVars, Wired, Driven, Busy
  <2>3. Resumed' /\ OnlineServesProfile' /\ Quiet'
    BY <1>10 DEF Invalidated, InvalidationFails, clientVars, Resumed, OnlineServesProfile, Quiet
  <2>4. QED
    BY <2>1, <2>2, <2>3
<1>11. CASE TimerFires
  BY <1>11, Synchronized DEF TimerFires, TypeOK
<1>12. CASE Retry
  BY <1>12, Synchronized DEF Retry, TypeOK
<1>13. ASSUME NEW p \in Profiles, Start(p) PROVE IInv'
  BY <1>13, Synchronized DEF Start
<1>14. CASE StartNone
  <2>1. TypeOK'
    BY <1>14 DEF StartNone, TypeOK, Statuses
  <2>2. Wired' /\ Driven'
    BY <1>14 DEF StartNone, Wired, Driven, TypeOK
  <2>3. Resumed' /\ OnlineServesProfile' /\ Quiet'
    BY <1>14 DEF StartNone, Resumed, OnlineServesProfile, Quiet
  <2>4. QED
    BY <2>1, <2>2, <2>3
<1>15. ASSUME NEW a \in Askers, Ask(a) \/ AskAnswered(a) \/ OldCloses(a) PROVE IInv'
  <2>1. TypeOK'
    BY <1>15 DEF Ask, AskAnswered, OldCloses, TypeOK
  <2>2. Wired' /\ Driven'
    BY <1>15 DEF Ask, AskAnswered, OldCloses, Wired, Driven
  <2>3. Resumed' /\ OnlineServesProfile'
    BY <1>15 DEF Ask, AskAnswered, OldCloses, Resumed, OnlineServesProfile
  <2>4. CASE Ask(a)
    <3>1. state = "connected" /\ run = None /\ ~timer
      BY <2>4 DEF Ask, OnlineServesProfile
    <3>2. Quiet'
      BY <2>4, <3>1 DEF Ask, Quiet, TypeOK
    <3>3. QED
      BY <2>1, <2>2, <2>3, <3>2
  <2>5. CASE AskAnswered(a) \/ OldCloses(a)
    <3>1. Quiet'
      BY <2>5 DEF AskAnswered, OldCloses, Quiet, TypeOK
    <3>2. QED
      BY <2>1, <2>2, <2>3, <3>1
  <2>6. QED
    BY <1>15, <2>4, <2>5
<1>16. CASE Restart
  <2>1. TypeOK'
    BY <1>16 DEF Restart, TypeOK, Statuses
  <2>2. Wired' /\ Driven' /\ Resumed' /\ OnlineServesProfile' /\ Quiet'
    BY <1>16 DEF Restart, Wired, Driven, Resumed, OnlineServesProfile, Quiet, Busy
  <2>3. QED
    BY <2>1, <2>2
<1>17. CASE UNCHANGED coordVars
  <2>1. TypeOK' /\ Wired'
    BY <1>17 DEF coordVars, clientVars, TypeOK, Wired
  <2>2. Driven' /\ Resumed' /\ OnlineServesProfile' /\ Quiet'
    BY <1>17 DEF coordVars, clientVars, Driven, Resumed, OnlineServesProfile, Quiet
  <2>3. QED
    BY <2>1, <2>2
<1>18. CASE CoordNext
  BY <1>18, <1>1, <1>2, <1>3, <1>5, <1>6, <1>7, <1>8, <1>9, <1>10, <1>11, <1>12,
     <1>13, <1>14, <1>15, <1>16 DEF CoordNext, RunAnswered
<1>19. QED
  BY <1>17, <1>18

LEMMA CoordIInv == CoordSpec => []IInv
<1>1. QED
  BY InitIInv, NextIInv, PTL DEF CoordSpec

-----------------------------------------------------------------------------
(* What the invariant says of the properties.                              *)

LEMMA IInvDriver == IInv => OneDriver
<1> SUFFICES ASSUME IInv PROVE OneDriver
  OBVIOUS
<1>1. timer => profile # None /\ run = None
  BY DEF IInv, Driven
<1>2. profile # None /\ status \in Busy => timer \/ run # None
  BY DEF IInv, Driven
<1>3. timer \in BOOLEAN
  BY DEF IInv, TypeOK
<1>4. profile # None /\ status \in Busy => (timer # (run # None))
  BY <1>1, <1>2, <1>3
<1>5. QED
  BY <1>1, <1>4 DEF OneDriver

\* Only Retry and a start leave a request behind: the timer begins no run while
\* one is in flight.
LEMMA Stranding ==
  ASSUME IInv, [CoordNext]_coordVars, NEW a \in Askers, asked[a] = "sent", asked'[a] = "orphan"
  PROVE  /\ ~TimerFires /\ (Retry \/ \E p \in Profiles : Start(p))
         /\ state = "connected" /\ run = None /\ ~timer
<1>1. ~TimerFires /\ state = "connected" /\ run = None /\ ~timer
  BY DEF TimerFires, IInv, Quiet
<1>2. ~(RunAnswered \/ RunUnpaired \/ RunOffline \/ RunFails)
  BY DEF RunAnswered, ResumeAnswered, ListAnswered, SubscribeAnswered, RunUnpaired, RunOffline,
     RunFails, clientVars
<1>3. ~(SocketOpens \/ SocketCloses \/ Invalidated \/ InvalidationFails \/ StartNone \/ Restart)
  BY DEF SocketOpens, SocketCloses, Invalidated, InvalidationFails, StartNone, Restart, clientVars
<1>4. ASSUME NEW b \in Askers PROVE ~(Ask(b) \/ AskAnswered(b) \/ OldCloses(b))
  BY DEF Ask, AskAnswered, OldCloses, IInv, TypeOK
<1>5. ~UNCHANGED coordVars
  BY DEF coordVars, clientVars
<1>6. QED
  BY <1>1, <1>2, <1>3, <1>4, <1>5 DEF CoordNext

-----------------------------------------------------------------------------
(* The connection of the app takes the coordinator's steps only, so that   *)
(* the invariant holds in the app.                                         *)

\* What the step needs of the app: calls of the storage are well formed, and
\* whoever is pairing has a profile to pair for.
FlowRecord == [stage : FlowStages, profile : Profiles \cup {None}]

OpsOK == ops \in Seq(Ops)

FlowOK ==
  /\ flow \in [Flows -> FlowRecord]
  /\ \A f \in Flows : flow[f].stage # "idle" => flow[f].profile \in Profiles

LEMMA InitApp == AppInit => OpsOK /\ FlowOK
<1> SUFFICES ASSUME AppInit PROVE OpsOK /\ FlowOK
  OBVIOUS
<1>1. Call("get") \in Ops
  BY DEF Ops
<1>2. ops \in Seq(Ops)
  BY <1>1 DEF AppInit
<1>3. Idle \in FlowRecord /\ Idle.stage = "idle"
  BY DEF Idle, FlowRecord, FlowStages
<1>4. FlowOK
  BY <1>3 DEF AppInit, FlowOK
<1>5. QED
  BY <1>2, <1>4 DEF OpsOK

\* Completing a call of the storage leaves calls, and was one.
LEMMA Completing ==
  ASSUME OpsOK, NEW kind, Completed(kind)
  PROVE  OpsOK' /\ Head(ops) \in Ops
  BY HeadTailProperties DEF OpsOK, Completed

LEMMA Issuing ==
  ASSUME OpsOK, NEW kind \in {"forget", "invalidate"}, IssueDelete(kind)
  PROVE  OpsOK'
<1>1. Call(kind) \in Ops
  BY DEF Ops
<1>2. QED
  BY <1>1, AppendProperties DEF OpsOK, IssueDelete

\* Flows that go idle, and one that goes on with its profile.
LEMMA FlowEdit ==
  ASSUME FlowOK, NEW f \in Flows, NEW r \in FlowRecord,
         r.stage # "idle" => r.profile \in Profiles,
         NEW G, flow' = [g \in Flows |-> IF g = f THEN r ELSE IF g \in G THEN Idle ELSE flow[g]]
  PROVE  FlowOK'
<1>1. Idle \in FlowRecord /\ Idle.stage = "idle"
  BY DEF Idle, FlowRecord, FlowStages
<1>2. QED
  BY <1>1 DEF FlowOK

LEMMA NextApp == OpsOK /\ FlowOK /\ [AppNext]_appVars => OpsOK' /\ FlowOK'
<1> SUFFICES ASSUME OpsOK, FlowOK, [AppNext]_appVars PROVE OpsOK' /\ FlowOK'
  OBVIOUS
<1>0. Idle \in FlowRecord /\ Idle.stage = "idle"
  BY DEF Idle, FlowRecord, FlowStages
<1>1. ASSUME UNCHANGED <<storeVars, pairVars>> PROVE OpsOK' /\ FlowOK'
  BY <1>1 DEF storeVars, pairVars, OpsOK, FlowOK
<1>2. ASSUME UNCHANGED pairVars PROVE FlowOK'
  BY <1>2 DEF pairVars, FlowOK
<1>3. ASSUME NEW f \in Flows, flow' = [flow EXCEPT ![f] = Idle] PROVE FlowOK'
  BY <1>0, <1>3 DEF FlowOK
<1>4. CASE ConnectionNext
  <2>1. CASE AppRunUnpaired
    BY <1>2, <2>1, Issuing DEF AppRunUnpaired
  <2>2. QED
    BY <1>4, <1>1, <2>1 DEF ConnectionNext, AppSocketOpens, AppSocketCloses, AppRunAnswered,
       AppRunOffline, AppRunFails, AppTimerFires, AppAsk, Connection
<1>5. CASE StorageDone
  <2>1. ASSUME NEW p, BootDone(p) PROVE OpsOK' /\ FlowOK'
    BY <1>2, <2>1, Completing DEF BootDone
  <2>2. ASSUME NEW f \in Flows, SaveDone(f) \/ SaveFails(f) PROVE OpsOK' /\ FlowOK'
    BY <1>3, <2>2, Completing DEF SaveDone, SaveFails
  <2>3. CASE ForgetDone \/ InvalidateDone \/ DeleteFails
    BY <1>2, <2>3, Completing DEF ForgetDone, InvalidateDone, DeleteFails
  <2>4. QED
    BY <1>5, <2>1, <2>2, <2>3 DEF StorageDone
<1>6. ASSUME NEW f \in Flows, IdentityReady(f) PROVE OpsOK' /\ FlowOK'
  <2>1. OpsOK'
    BY <1>6 DEF IdentityReady, storeVars, OpsOK
  <2>2. PICK r : r = [flow[f] EXCEPT !.stage = "connect"]
    OBVIOUS
  <2>3. r \in FlowRecord /\ r.profile \in Profiles
    BY <1>6, <2>2 DEF IdentityReady, FlowOK, FlowRecord, FlowStages
  <2>4. flow' = [g \in Flows |-> IF g = f THEN r ELSE IF g \in Superseded THEN Idle ELSE flow[g]]
    BY <1>6, <2>2 DEF IdentityReady
  <2>5. QED
    BY <2>1, <2>3, <2>4, FlowEdit
<1>7. ASSUME NEW f \in Flows, PairOpens(f) \/ PairAccepted(f) PROVE OpsOK' /\ FlowOK'
  <2>1. flow[f].profile \in Profiles
    BY <1>7 DEF PairOpens, PairAccepted, FlowOK
  <2>2. OpsOK'
    <3>1. CASE PairOpens(f)
      BY <3>1 DEF PairOpens, storeVars, OpsOK
    <3>2. CASE PairAccepted(f)
      <4>1. Save(f, flow[f].profile) \in Ops
        BY <2>1 DEF Ops
      <4>2. QED
        BY <3>2, <4>1, AppendProperties DEF PairAccepted, OpsOK
    <3>3. QED
      BY <1>7, <3>1, <3>2
  <2>3. PICK stage \in {"request", "save"} : flow' = [flow EXCEPT ![f].stage = stage]
    BY <1>7 DEF PairOpens, PairAccepted
  <2>4. FlowOK'
    BY <2>1, <2>3 DEF FlowOK, FlowRecord, FlowStages
  <2>5. QED
    BY <2>2, <2>4
<1>8. ASSUME NEW f \in Flows, IdentityFails(f) \/ PairRefused(f) PROVE OpsOK' /\ FlowOK'
  BY <1>3, <1>8 DEF IdentityFails, PairRefused, storeVars, OpsOK
<1>9. ASSUME NEW f \in Flows, PairCloses(f) PROVE OpsOK' /\ FlowOK'
  <2>1. OpsOK'
    BY <1>9 DEF PairCloses, storeVars, OpsOK
  <2>2. CASE pairSocket = f
    <3>1. PICK G : flow' = [g \in Flows |-> IF g \in G THEN Idle ELSE flow[g]]
      <4>1. PICK G : G = {g \in Flows : flow[g].stage = "request" \/ (g = f /\ flow[g].stage = "connect")}
        OBVIOUS
      <4>2. flow' = [g \in Flows |->
                       IF flow[g].stage = "request" \/ (g = f /\ flow[g].stage = "connect")
                       THEN Idle ELSE flow[g]]
        BY <1>9, <2>2 DEF PairCloses
      <4>3. flow' = [g \in Flows |-> IF g \in G THEN Idle ELSE flow[g]]
        BY <4>1, <4>2
      <4>4. QED
        BY <4>3
    <3>2. QED
      BY <2>1, <1>0, <3>1 DEF FlowOK
  <2>3. CASE pairSocket # f
    <3>1. UNCHANGED flow
      BY <1>9, <2>3 DEF PairCloses
    <3>2. QED
      BY <2>1, <3>1 DEF FlowOK
  <2>4. QED
    BY <2>1, <2>2, <2>3
<1>10. CASE UserNext
  <2>1. CASE AppRetry
    BY <1>1, <2>1 DEF AppRetry, Connection
  <2>2. CASE ClearPairing
    BY <1>2, <2>2, Issuing DEF ClearPairing
  <2>3. CASE PairAnother \/ Back
    BY <1>1, <2>3 DEF PairAnother, Back
  <2>4. CASE Kill
    <3>1. Call("get") \in Ops
      BY DEF Ops
    <3>2. OpsOK'
      BY <2>4, <3>1 DEF Kill, OpsOK
    <3>3. FlowOK'
      BY <1>0, <2>4 DEF Kill, FlowOK
    <3>4. QED
      BY <3>2, <3>3
  <2>5. ASSUME NEW f \in Flows, NEW p \in Profiles, Submit(f, p) PROVE OpsOK' /\ FlowOK'
    <3>1. OpsOK'
      BY <2>5 DEF Submit, storeVars, OpsOK
    <3>2. [stage |-> "identity", profile |-> p] \in FlowRecord
      BY DEF FlowRecord, FlowStages
    <3>3. FlowOK'
      BY <2>5, <3>2 DEF Submit, FlowOK
    <3>4. QED
      BY <3>1, <3>3
  <2>6. QED
    BY <1>10, <2>1, <2>2, <2>3, <2>4, <2>5 DEF UserNext
<1>11. CASE UNCHANGED appVars
  BY <1>1, <1>11 DEF appVars
<1>12. CASE PairingNext
  BY <1>6, <1>7, <1>8, <1>9, <1>12 DEF PairingNext
<1>13. QED
  BY <1>4, <1>5, <1>10, <1>11, <1>12 DEF AppNext

LEMMA AppStep == OpsOK /\ [AppNext]_appVars => [CoordNext]_coordVars
<1> SUFFICES ASSUME OpsOK, [AppNext]_appVars PROVE [CoordNext]_coordVars
  OBVIOUS
<1>1. CASE StorageDone
  <2>1. ASSUME NEW p \in Profiles \cup {None}, BootDone(p) PROVE [CoordNext]_coordVars
    BY <2>1 DEF BootDone, CoordNext
  <2>2. ASSUME NEW f \in Flows, SaveDone(f) PROVE [CoordNext]_coordVars
    <3>1. Head(ops) \in Ops /\ Head(ops).kind = "save"
      BY <2>2, Completing DEF SaveDone, Completed
    <3>2. Head(ops).profile \in Profiles
      BY <3>1 DEF Ops, Call, Save
    <3>3. QED
      BY <2>2, <3>2 DEF SaveDone, CoordNext
  <2>3. ASSUME NEW f \in Flows, SaveFails(f) PROVE [CoordNext]_coordVars
    BY <2>3 DEF SaveFails
  <2>4. CASE ForgetDone \/ InvalidateDone \/ DeleteFails
    BY <2>4 DEF ForgetDone, InvalidateDone, DeleteFails, CoordNext
  <2>5. QED
    BY <1>1, <2>1, <2>2, <2>3, <2>4 DEF StorageDone
<1>2. CASE ConnectionNext
  BY <1>2 DEF ConnectionNext, AppSocketOpens, AppSocketCloses, AppRunAnswered, AppRunUnpaired,
     AppRunOffline, AppRunFails, AppTimerFires, AppAsk, Connection, CoordNext
<1>3. CASE PairingNext
  BY <1>3 DEF PairingNext, IdentityReady, IdentityFails, PairOpens, PairCloses, PairAccepted,
     PairRefused
<1>4. CASE UserNext
  BY <1>4 DEF UserNext, AppRetry, ClearPairing, PairAnother, Back, Kill, Submit, Connection, CoordNext
<1>5. CASE UNCHANGED appVars
  BY <1>5 DEF appVars
<1>6. QED
  BY <1>1, <1>2, <1>3, <1>4, <1>5 DEF AppNext

LEMMA AppCoordinates == AppSpec => CoordSpec
<1>1. AppInit => CoordInit
  BY DEF AppInit
<1>2. AppSpec => [](OpsOK /\ FlowOK)
  BY InitApp, NextApp, PTL DEF AppSpec
<1>3. QED
  BY <1>1, <1>2, AppStep, PTL DEF AppSpec, CoordSpec

-----------------------------------------------------------------------------
(* The theorems.                                                           *)

\* However runs, timers, closes, pairings, deletes and kills interleave, an app
\* that shows that it is connecting is driven by exactly one run or timer
\* (connectionCoordinator.ts synchronize, scheduleReconnect).
THEOREM Driver == AppSpec => []OneDriver
<1>1. QED
  BY AppCoordinates, CoordIInv, IInvDriver, PTL

\* Online with a computer always means: on an open connection that has resumed
\* the profile the coordinator holds, whichever runs were superseded and
\* whichever answers came on a socket that was closing.  Without a computer,
\* the connection is one that is ending (connectionCoordinator.ts synchronize,
\* start; mobileClient.ts handleMessage).
THEOREM Online == AppSpec => []OnlineServesProfile
<1>1. IInv => OnlineServesProfile
  BY DEF IInv
<1>2. QED
  BY <1>1, AppCoordinates, CoordIInv, PTL

\* The reconnection timer never leaves a request of the app behind on the
\* socket it replaces; Retry and a new pairing do (connectionCoordinator.ts
\* retry, start; mobileClient.ts connect).
THEOREM Stranded == AppSpec => OnlyUserStrands
<1>1. IInv /\ [CoordNext]_coordVars =>
        [(\E a \in Askers : asked[a] = "sent" /\ asked'[a] = "orphan")
           => state = "connected" /\ run = None /\ ~timer]_coordVars
  BY Stranding
<1>2. CoordSpec => OnlyUserStrands
  BY <1>1, CoordIInv, PTL DEF CoordSpec, OnlyUserStrands
<1>3. QED
  BY <1>2, AppCoordinates, PTL

-----------------------------------------------------------------------------
(* The types of the app.                                                   *)

\* A nonempty set of numbers below a bound has a greatest one: its segments
\* 0 .. x are finite, and strict inclusion is well founded on finite sets.
LEMMA Greatest ==
  ASSUME NEW n \in Nat, NEW T \in SUBSET (1 .. n), T # {}
  PROVE  \E x \in T : \A y \in T : y <= x
<1>1. IsFiniteSet(0 .. n)
  BY FS_Interval
<1>2. PICK U : U = {S \in SUBSET (0 .. n) : \E x \in T : S = x .. n}
  OBVIOUS
<1>3. U \subseteq FiniteSubsetsOf(0 .. n) /\ U # {}
  <2>1. PICK x \in T : TRUE
    OBVIOUS
  <2>2. x .. n \in U
    BY <1>2, <2>1
  <2>3. QED
    BY <1>1, <1>2, <2>2, FS_Subset DEF FiniteSubsetsOf
<1>4. PICK m \in U : \A S \in U : <<S, m>> \notin StrictSubsetOrdering(0 .. n)
  BY <1>3, FS_StrictSubsetOrderingWellFounded, WFMin
<1>5. PICK x \in T : m = x .. n
  BY <1>2
<1>6. ASSUME NEW y \in T, x < y PROVE FALSE
  <2>1. y .. n \in U /\ y .. n \subseteq m /\ y .. n # m
    BY <1>2, <1>5, <1>6
  <2>2. QED
    BY <1>2, <1>4, <2>1 DEF StrictSubsetOrdering
<1>7. QED
  BY <1>6

Routes == {"splash", "inbox", "pairing", "recovery"}

RoutesOK ==
  /\ stack \in Seq(Routes) /\ stack # <<>>
  /\ exitRecovery \in BOOLEAN /\ here \in Flows \cup {None}

\* What is stored, shown and paired, and the bounds.
RestOK ==
  /\ stored \in Profiles \cup {None} /\ shown \in Profiles \cup {None}
  /\ boot \in {"loading", "ready"} /\ crossed \in BOOLEAN
  /\ pairSocket \in Flows \cup {None}
  /\ wire \in [Flows -> {"none", "connecting", "open", "closing"}]
  /\ acts \in 0..MaxActs /\ faults \in 0..MaxFaults

LEMMA Typing == TypeOK /\ OpsOK /\ FlowOK /\ RoutesOK /\ RestOK => AppTypeOK
BY DEF OpsOK, FlowOK, RoutesOK, RestOK, AppTypeOK, FlowRecord, Routes

\* The screen on top is replaced.
LEMMA Replacing ==
  ASSUME RoutesOK, NEW route \in Routes, Replace(route)
  PROVE  stack' \in Seq(Routes) /\ stack' # <<>> /\ here' = None
<1>1. Len(stack) \in Nat \ {0} /\ \A i \in 1 .. Len(stack) : stack[i] \in Routes
  BY EmptySeq, ElementOfSeq DEF RoutesOK
<1>2. Front(stack) \in Seq(Routes)
  BY <1>1, SubSeqProperties DEF Front
<1>3. QED
  BY <1>2, AppendProperties DEF Replace

LEMMA Following ==
  ASSUME RoutesOK, FollowStatus
  PROVE  RoutesOK'
<1>1. CASE UNCHANGED routeVars
  BY <1>1 DEF routeVars, RoutesOK
<1>2. ASSUME NEW route \in {"recovery", "pairing", "inbox"}, Replace(route),
             exitRecovery' \in BOOLEAN
      PROVE  RoutesOK'
  BY <1>2, Replacing DEF Routes, RoutesOK
<1>3. QED
  BY <1>1, <1>2 DEF FollowStatus

\* Leaving the screen on top for the one below.
LEMMA Leaving ==
  ASSUME RoutesOK, Len(stack) > 1
  PROVE  Front(stack) \in Seq(Routes) /\ Front(stack) # <<>>
<1>1. Len(stack) \in Nat \ {0} /\ \A i \in 1 .. Len(stack) : stack[i] \in Routes
  BY EmptySeq, ElementOfSeq DEF RoutesOK
<1>2. Front(stack) \in Seq(Routes) /\ Len(Front(stack)) = Len(stack) - 1
  BY <1>1, SubSeqProperties DEF Front
<1>3. QED
  BY <1>1, <1>2, EmptySeq

LEMMA RoutesStep ==
  ASSUME RoutesOK, [AppNext]_appVars
  PROVE  RoutesOK'
<1>1. ASSUME UNCHANGED routeVars PROVE RoutesOK'
  BY <1>1 DEF routeVars, RoutesOK
<1>2. CASE StorageDone
  <2>1. ASSUME NEW p, BootDone(p) PROVE RoutesOK'
    <3>1. PICK route \in Routes : Replace(route) /\ UNCHANGED exitRecovery
      BY <2>1 DEF BootDone, Routes
    <3>2. QED
      BY <3>1, Replacing DEF RoutesOK
  <2>2. ASSUME NEW f \in Flows, SaveDone(f) PROVE RoutesOK'
    BY <2>2, Replacing DEF SaveDone, RoutesOK, Routes
  <2>3. ASSUME NEW f \in Flows, SaveFails(f) PROVE RoutesOK'
    BY <2>3, <1>1 DEF SaveFails
  <2>4. CASE ForgetDone \/ DeleteFails
    BY <2>4, <1>1 DEF ForgetDone, DeleteFails
  <2>5. CASE InvalidateDone
    BY <2>5, Following DEF InvalidateDone
  <2>6. QED
    BY <1>2, <2>1, <2>2, <2>3, <2>4, <2>5 DEF StorageDone
<1>3. CASE ConnectionNext
  BY <1>3, Following DEF ConnectionNext, AppSocketOpens, AppSocketCloses, AppRunAnswered,
     AppRunUnpaired, AppRunOffline, AppRunFails, AppTimerFires, AppAsk, Connection
<1>4. CASE PairingNext
  BY <1>4, <1>1 DEF PairingNext, IdentityReady, IdentityFails, PairOpens, PairCloses,
     PairAccepted, PairRefused
<1>5. CASE UserNext
  <2>1. CASE AppRetry \/ ClearPairing
    BY <2>1, Following DEF AppRetry, ClearPairing, Connection
  <2>2. CASE PairAnother
    <3>1. "pairing" \in Routes /\ stack \in Seq(Routes)
      BY DEF Routes, RoutesOK
    <3>2. Append(stack, "pairing") \in Seq(Routes) /\ Append(stack, "pairing") # <<>>
      BY <3>1, AppendProperties
    <3>3. QED
      BY <2>2, <3>2 DEF PairAnother, RoutesOK
  <2>3. CASE Back
    BY <2>3, Leaving DEF Back, RoutesOK
  <2>4. CASE Kill
    <3>1. <<"splash">> \in Seq(Routes) /\ <<"splash">> # <<>>
      BY DEF Routes
    <3>2. stack' = <<"splash">> /\ exitRecovery' = FALSE /\ here' = None
      BY <2>4 DEF Kill
    <3>3. QED
      BY <3>1, <3>2 DEF RoutesOK
  <2>5. ASSUME NEW f \in Flows, NEW p \in Profiles, Submit(f, p) PROVE RoutesOK'
    BY <2>5 DEF Submit, RoutesOK
  <2>6. QED
    BY <1>5, <2>1, <2>2, <2>3, <2>4, <2>5 DEF UserNext
<1>6. CASE UNCHANGED appVars
  BY <1>6, <1>1 DEF appVars
<1>7. QED
  BY <1>2, <1>3, <1>4, <1>5, <1>6 DEF AppNext

\* What a killed app leaves in the storage.
LEMMA AfterOpsTyped ==
  ASSUME OpsOK, NEW n \in 0 .. Len(ops), NEW p \in Profiles \cup {None}
  PROVE  AfterOps(SubSeq(ops, 1, n), p) \in Profiles \cup {None}
<1>1. PICK s : s = SubSeq(ops, 1, n)
  OBVIOUS
<1>2. /\ Len(ops) \in Nat /\ \A i \in 1 .. Len(ops) : ops[i] \in Ops
  BY LenProperties, ElementOfSeq DEF OpsOK
<1>3. s \in Seq(Ops) /\ Len(s) = n
  BY <1>1, <1>2, SubSeqProperties
<1>4. DOMAIN s = 1 .. n /\ \A i \in 1 .. n : s[i] \in Ops
  BY <1>3, LenProperties, ElementOfSeq
<1>5. PICK writes : writes = {i \in DOMAIN s : s[i].kind # "get"}
  OBVIOUS
<1>6. CASE writes # {}
  <2>0. n \in Nat /\ writes \in SUBSET (1 .. n)
    BY <1>2, <1>4, <1>5
  <2>1. \E x \in writes : \A y \in writes : y <= x
    BY <2>0, <1>6, Greatest
  <2>2. PICK last : last = CHOOSE i \in writes : \A j \in writes : j <= i
    OBVIOUS
  <2>3. s[last] \in Ops
    BY <2>1, <2>2, <1>4, <1>5
  <2>4. s[last].profile \in Profiles \cup {None}
    BY <2>3 DEF Ops, Call, Save
  <2>5. AfterOps(s, p) = s[last].profile
    BY <1>5, <1>6, <2>2 DEF AfterOps
  <2>6. QED
    BY <1>1, <2>4, <2>5
<1>7. CASE writes = {}
  BY <1>1, <1>5, <1>7 DEF AfterOps
<1>8. QED
  BY <1>6, <1>7

\* The bounded counters.
LEMMA Counting ==
  ASSUME RestOK, Act \/ Fault \/ UNCHANGED boundVars \/ \E b \in BOOLEAN : FaultIf(b)
  PROVE  acts' \in 0..MaxActs /\ faults' \in 0..MaxFaults
BY AppAssumption DEF RestOK, Act, Fault, FaultIf, boundVars

LEMMA RestStep ==
  ASSUME OpsOK, RestOK, [AppNext]_appVars
  PROVE  RestOK'
<1>1. ASSUME Act \/ Fault \/ UNCHANGED boundVars \/ \E b \in BOOLEAN : FaultIf(b),
             crossed' \in BOOLEAN, UNCHANGED <<stored, shown, boot, pairSocket, wire>>
      PROVE  RestOK'
  BY <1>1, Counting DEF RestOK
<1>2. CASE StorageDone
  <2>1. ASSUME NEW p \in Profiles \cup {None}, BootDone(p) PROVE RestOK'
    <3>1. UNCHANGED <<stored, pairSocket, wire>> /\ shown' = p /\ boot' = "ready"
      BY <2>1 DEF BootDone, pairVars
    <3>2. FaultIf(p # stored) /\ crossed' \in BOOLEAN
      BY <2>1 DEF BootDone
    <3>3. acts' \in 0..MaxActs /\ faults' \in 0..MaxFaults
      BY <3>2, Counting
    <3>4. QED
      BY <3>1, <3>2, <3>3 DEF RestOK
  <2>2. ASSUME NEW f \in Flows, SaveDone(f) PROVE RestOK'
    <3>1. Head(ops) \in Ops /\ Head(ops).kind = "save"
      BY <2>2, Completing DEF SaveDone, Completed
    <3>2. Head(ops).profile \in Profiles
      BY <3>1 DEF Ops, Call, Save
    <3>3. QED
      BY <2>2, <3>2, Counting DEF SaveDone, RestOK
  <2>3. ASSUME NEW f \in Flows, SaveFails(f) PROVE RestOK'
    BY <2>3, <1>1 DEF SaveFails, RestOK
  <2>4. CASE ForgetDone \/ InvalidateDone
    BY <2>4, Counting DEF ForgetDone, InvalidateDone, RestOK, pairVars
  <2>5. CASE DeleteFails
    BY <2>5, <1>1 DEF DeleteFails, pairVars
  <2>6. QED
    BY <1>2, <2>1, <2>2, <2>3, <2>4, <2>5 DEF StorageDone
<1>3. CASE ConnectionNext
  <2>1. CASE AppRunUnpaired
    BY <2>1, <1>1 DEF AppRunUnpaired, IssueDelete, RestOK, pairVars
  <2>2. CASE AppSocketCloses
    BY <2>2, <1>1 DEF AppSocketCloses, Connection, RestOK, storeVars, pairVars
  <2>3. QED
    BY <1>3, <2>1, <2>2, <1>1 DEF ConnectionNext, AppSocketOpens, AppRunAnswered, AppRunOffline,
       AppRunFails, AppTimerFires, AppAsk, Connection, RestOK, storeVars, pairVars
<1>4. CASE PairingNext
  <2>1. ASSUME NEW f \in Flows, IdentityReady(f) \/ PairOpens(f) PROVE RestOK'
    BY <2>1, Counting DEF IdentityReady, PairOpens, RestOK, storeVars
  <2>2. ASSUME NEW f \in Flows, IdentityFails(f) PROVE RestOK'
    BY <2>2, <1>1 DEF IdentityFails, RestOK, storeVars
  <2>3. ASSUME NEW f \in Flows, PairCloses(f) PROVE RestOK'
    <3>1. PICK b \in BOOLEAN : FaultIf(b)
      BY <2>3 DEF PairCloses
    <3>2. acts' \in 0..MaxActs /\ faults' \in 0..MaxFaults
      BY <3>1, Counting
    <3>3. pairSocket' \in {None, pairSocket} /\ wire' = [wire EXCEPT ![f] = "none"]
      BY <2>3 DEF PairCloses
    <3>4. UNCHANGED <<stored, shown, crossed, boot>>
      BY <2>3 DEF PairCloses, storeVars
    <3>5. QED
      BY <3>2, <3>3, <3>4 DEF RestOK
  <2>4. ASSUME NEW f \in Flows, PairAccepted(f) \/ PairRefused(f) PROVE RestOK'
    <3>1. wire' \in [Flows -> {"none", "connecting", "open", "closing"}]
      BY <2>4 DEF PairAccepted, PairRefused, ClosePairingClient, RestOK
    <3>2. UNCHANGED <<stored, shown, crossed, boot, pairSocket, boundVars>>
      BY <2>4 DEF PairAccepted, PairRefused, storeVars
    <3>3. QED
      BY <3>1, <3>2, Counting DEF RestOK
  <2>5. QED
    BY <1>4, <2>1, <2>2, <2>3, <2>4 DEF PairingNext
<1>5. CASE UserNext
  <2>1. CASE AppRetry \/ PairAnother \/ Back
    BY <2>1, <1>1 DEF AppRetry, PairAnother, Back, Connection, RestOK, storeVars, pairVars
  <2>2. CASE ClearPairing
    BY <2>2, <1>1 DEF ClearPairing, IssueDelete, RestOK, pairVars
  <2>3. CASE Kill
    <3>1. PICK n \in 0..Len(ops) : stored' = AfterOps(SubSeq(ops, 1, n), stored)
      BY <2>3 DEF Kill
    <3>2. stored' \in Profiles \cup {None}
      BY <3>1, AfterOpsTyped DEF RestOK
    <3>3. QED
      BY <2>3, <3>2, Counting DEF Kill, RestOK
  <2>4. ASSUME NEW f \in Flows, NEW p \in Profiles, Submit(f, p) PROVE RestOK'
    BY <2>4, <1>1 DEF Submit, RestOK, storeVars
  <2>5. QED
    BY <1>5, <2>1, <2>2, <2>3, <2>4 DEF UserNext
<1>6. CASE UNCHANGED appVars
  BY <1>6, <1>1 DEF appVars, storeVars, pairVars, RestOK
<1>7. QED
  BY <1>2, <1>3, <1>4, <1>5, <1>6 DEF AppNext

LEMMA InitTypes == AppInit => RoutesOK /\ RestOK
<1> SUFFICES ASSUME AppInit PROVE RoutesOK /\ RestOK
  OBVIOUS
<1>1. <<"splash">> \in Seq(Routes) /\ <<"splash">> # <<>>
  BY DEF Routes
<1>2. RoutesOK
  BY <1>1 DEF AppInit, RoutesOK
<1>3. RestOK
  <2>1. acts \in 0..MaxActs /\ faults \in 0..MaxFaults
    BY AppAssumption DEF AppInit
  <2>2. crossed \in BOOLEAN /\ boot \in {"loading", "ready"}
    BY DEF AppInit
  <2>3. stored \in Profiles \cup {None} /\ shown \in Profiles \cup {None}
    BY DEF AppInit
  <2>4. /\ pairSocket \in Flows \cup {None}
        /\ wire \in [Flows -> {"none", "connecting", "open", "closing"}]
    BY DEF AppInit
  <2>5. QED
    BY <2>1, <2>2, <2>3, <2>4 DEF RestOK
<1>4. QED
  BY <1>2, <1>3

LEMMA AppTypes == AppSpec => [](IInv /\ OpsOK /\ FlowOK /\ RoutesOK /\ RestOK)
<1>1. AppSpec => []IInv
  BY AppCoordinates, CoordIInv, PTL
<1>2. AppSpec => [](OpsOK /\ FlowOK /\ RoutesOK /\ RestOK)
  BY InitApp, InitTypes, NextApp, RoutesStep, RestStep, PTL DEF AppSpec
<1>3. QED
  BY <1>1, <1>2, PTL

\* Types of the app: profile, storage calls, routes and pairing sockets.
THEOREM AppTyped == AppSpec => []AppTypeOK
<1>1. IInv /\ OpsOK /\ FlowOK /\ RoutesOK /\ RestOK => AppTypeOK
  BY Typing DEF IInv
<1>2. QED
  BY <1>1, AppTypes, PTL

-----------------------------------------------------------------------------
(* One active computer.                                                    *)

Deletes == {"forget", "invalidate"}

\* Until the profile is read nothing else happens ...
Booting ==
  boot = "loading" =>
    /\ ops = <<Call("get")>> /\ stack = <<"splash">>
    /\ profile = None /\ run = None /\ socket = "none"
    /\ \A f \in Flows : flow[f] = Idle

\* ... and it is read once.
ReadOnce == boot = "ready" => \A i \in 1 .. Len(ops) : ops[i].kind # "get"

\* The profile in use is stored and shown.
Served == profile # None => stored = profile /\ shown = profile

\* A delete is issued when the profile has been given up, and behind no save.
DeletesLast ==
  \A i \in 1 .. Len(ops) : ops[i].kind \in Deletes =>
    profile = None /\ \A j \in 1 .. i : ops[j].kind # "save"

\* A profile that was given up is stored and shown until its delete is done.
Cleared ==
  profile = None /\ boot = "ready" /\ (\A i \in 1 .. Len(ops) : ops[i].kind \notin Deletes)
    => stored = None /\ shown = None

ActiveInv == Booting /\ ReadOnce /\ (~crossed => Served /\ DeletesLast /\ Cleared)

LEMMA BootingStep ==
  ASSUME RestOK, Booting, [AppNext]_appVars
  PROVE  Booting'
<1>1. CASE boot = "ready"
  <2>1. CASE Kill
    BY <2>1 DEF Kill, Restart, Booting
  <2>2. ASSUME ~Kill PROVE boot' = "ready"
    <3>1. CASE StorageDone
      BY <1>1, <3>1 DEF StorageDone, BootDone, SaveDone, SaveFails, ForgetDone, InvalidateDone, DeleteFails
    <3>2. CASE ConnectionNext
      BY <1>1, <3>2 DEF ConnectionNext, AppSocketOpens, AppSocketCloses, AppRunAnswered,
         AppRunUnpaired, AppRunOffline, AppRunFails, AppTimerFires, AppAsk, Connection
    <3>3. CASE PairingNext
      BY <1>1, <3>3 DEF PairingNext, IdentityReady, IdentityFails, PairOpens, PairCloses,
         PairAccepted, PairRefused
    <3>4. CASE UserNext
      BY <1>1, <2>2, <3>4 DEF UserNext, AppRetry, ClearPairing, PairAnother, Back, Submit, Connection
    <3>5. CASE UNCHANGED appVars
      BY <1>1, <3>5 DEF appVars
    <3>6. QED
      BY <3>1, <3>2, <3>3, <3>4, <3>5 DEF AppNext
  <2>3. QED
    BY <2>1, <2>2 DEF Booting
<1>2. CASE boot = "loading"
  <2>0. /\ ops = <<Call("get")>> /\ stack = <<"splash">>
        /\ profile = None /\ run = None /\ socket = "none"
        /\ \A f \in Flows : flow[f] = Idle
    BY <1>2 DEF Booting
  <2>1. ASSUME UNCHANGED <<ops, stack, profile, run, socket>>,
               \A f \in Flows : flow'[f] = Idle
        PROVE  Booting'
    BY <2>0, <2>1 DEF Booting
  <2>2. CASE StorageDone
    <3>1. Head(ops).kind = "get"
      BY <2>0 DEF Call
    <3>2. PICK p : BootDone(p)
      BY <2>2, <3>1 DEF StorageDone, SaveDone, SaveFails, ForgetDone, InvalidateDone, DeleteFails, Completed
    <3>3. QED
      BY <3>2 DEF BootDone, Booting
  <2>3. CASE ConnectionNext
    <3>1. AppAsk
      BY <2>0, <2>3 DEF ConnectionNext, AppSocketOpens, AppSocketCloses, AppRunAnswered,
         AppRunUnpaired, AppRunOffline, AppRunFails, AppTimerFires, Connection, SocketOpens,
         SocketCloses, RunAnswered, ResumeAnswered, SubscribeAnswered, ListAnswered, RunUnpaired,
         RunOffline, RunFails, TimerFires, Awaits
    <3>2. UNCHANGED <<status, profile, run, socket, storeVars, pairVars>> /\ FollowStatus
      BY <3>1 DEF AppAsk, Connection, Ask, AskAnswered, OldCloses
    <3>3. UNCHANGED stack
      BY <3>2 DEF FollowStatus, routeVars
    <3>4. QED
      BY <2>0, <2>1, <3>2, <3>3 DEF storeVars, pairVars
  <2>4. CASE PairingNext
    <3>1. \A f \in Flows : flow[f].stage = "idle"
      BY <2>0 DEF Idle
    <3>2. PICK f \in Flows : PairCloses(f)
      BY <2>4, <3>1 DEF PairingNext, IdentityReady, IdentityFails, PairOpens, PairAccepted, PairRefused
    <3>3. \A g \in Flows : flow'[g] = Idle
      BY <2>0, <3>2 DEF PairCloses
    <3>4. UNCHANGED <<coordVars, storeVars, routeVars>>
      BY <3>2 DEF PairCloses
    <3>5. QED
      BY <2>1, <3>3, <3>4 DEF coordVars, clientVars, storeVars, routeVars
  <2>5. ~UserNext
    <3>1. ~(Len(stack) > 1) /\ Top = "splash"
      BY <2>0 DEF Top, Last
    <3>2. QED
      BY <1>2, <3>1 DEF UserNext, AppRetry, ClearPairing, PairAnother, Back, Kill, Submit
  <2>6. CASE UNCHANGED appVars
    BY <2>0, <2>1, <2>6 DEF appVars, coordVars, clientVars, storeVars, routeVars, pairVars
  <2>7. QED
    BY <2>2, <2>3, <2>4, <2>5, <2>6 DEF AppNext
<1>3. QED
  BY <1>1, <1>2 DEF RestOK

\* What is left of the calls when the oldest one completes.
LEMMA OldestDone ==
  ASSUME OpsOK, NEW kind, Completed(kind)
  PROVE  /\ Len(ops) \in Nat /\ Len(ops') \in Nat /\ Len(ops) = Len(ops') + 1
         /\ ops[1].kind = kind /\ Head(ops) = ops[1]
         /\ \A i \in 1 .. Len(ops') : ops'[i] = ops[i + 1]
<1>1. ops # <<>> /\ ops \in Seq(Ops) /\ ops' = Tail(ops) /\ Head(ops).kind = kind
  BY DEF OpsOK, Completed
<1>2. /\ Len(Tail(ops)) = Len(ops) - 1 /\ Tail(ops) \in Seq(Ops)
      /\ \A i \in 1 .. Len(Tail(ops)) : Tail(ops)[i] = ops[i+1]
  BY <1>1, HeadTailProperties
<1>3. Len(ops) \in Nat \ {0} /\ Len(Tail(ops)) \in Nat
  BY <1>1, <1>2, EmptySeq, LenProperties
<1>4. Head(ops) = ops[1]
  OBVIOUS
<1>5. QED
  BY <1>1, <1>2, <1>3, <1>4

\* What is there when a call is issued.
LEMMA NewestIssued ==
  ASSUME OpsOK, NEW c \in Ops, ops' = Append(ops, c)
  PROVE  /\ Len(ops) \in Nat /\ Len(ops') = Len(ops) + 1
         /\ \A i \in 1 .. Len(ops) : ops'[i] = ops[i]
         /\ ops'[Len(ops) + 1] = c
<1>1. ops \in Seq(Ops)
  BY DEF OpsOK
<1>2. QED
  BY <1>1, AppendProperties, LenProperties

\* A delete is issued while the profile is given up.
LEMMA GivenUp ==
  ASSUME ActiveInv, OpsOK, RestOK, boot = "ready", UNCHANGED boot, profile' = None,
         NEW kind \in Deletes, IssueDelete(kind)
  PROVE  ReadOnce' /\ (~crossed' => Served' /\ DeletesLast' /\ Cleared')
<1>1. Call(kind) \in Ops /\ Call(kind).kind = kind
  BY DEF Call, Ops, Deletes
<1>2. /\ Len(ops) \in Nat /\ Len(ops') = Len(ops) + 1
      /\ \A i \in 1 .. Len(ops) : ops'[i] = ops[i]
      /\ ops'[Len(ops) + 1] = Call(kind)
  BY <1>1, NewestIssued DEF IssueDelete
<1>3. ReadOnce'
  <2>1. SUFFICES ASSUME NEW i \in 1 .. Len(ops) + 1 PROVE ops'[i].kind # "get"
    BY <1>2 DEF ReadOnce
  <2>2. CASE i = Len(ops) + 1
    BY <1>1, <1>2, <2>2 DEF Deletes
  <2>3. CASE i \in 1 .. Len(ops)
    BY <1>2, <2>3 DEF ActiveInv, ReadOnce
  <2>4. QED
    BY <1>2, <2>2, <2>3
<1>4. ASSUME ~crossed' PROVE Served' /\ DeletesLast' /\ Cleared'
  <2>1. \A i \in 1 .. Len(ops) : ops[i].kind # "save"
    <3>1. ~\E i \in DOMAIN ops : ops[i].kind = "save"
      BY <1>4 DEF IssueDelete
    <3>2. DOMAIN ops = 1 .. Len(ops)
      BY LenProperties DEF OpsOK
    <3>3. QED
      BY <3>1, <3>2
  <2>2. \A i \in 1 .. Len(ops) + 1 : ops'[i].kind # "save"
    <3>1. ASSUME NEW i \in 1 .. Len(ops) + 1 PROVE ops'[i].kind # "save"
      <4>1. CASE i = Len(ops) + 1
        BY <1>1, <1>2, <4>1 DEF Deletes
      <4>2. CASE i \in 1 .. Len(ops)
        BY <1>2, <2>1, <4>2
      <4>3. QED
        BY <1>2, <4>1, <4>2
    <3>2. QED
      BY <3>1
  <2>3. Served'
    BY DEF Served
  <2>4. DeletesLast'
    BY <1>2, <2>2 DEF DeletesLast
  <2>5. Cleared'
    <3>1. Len(ops) + 1 \in 1 .. Len(ops') /\ ops'[Len(ops) + 1].kind \in Deletes
      BY <1>1, <1>2
    <3>2. QED
      BY <3>1 DEF Cleared
  <2>6. QED
    BY <2>3, <2>4, <2>5
<1>5. QED
  BY <1>3, <1>4

LEMMA ActiveStep ==
  ASSUME ActiveInv, OpsOK, FlowOK, RestOK, [AppNext]_appVars
  PROVE  ActiveInv'
<1>0. SUFFICES ReadOnce' /\ (~crossed' => Served' /\ DeletesLast' /\ Cleared')
  BY BootingStep DEF ActiveInv
<1>1. ASSUME UNCHANGED <<profile, boot, storeVars>>
      PROVE  ReadOnce' /\ (~crossed' => Served' /\ DeletesLast' /\ Cleared')
  BY <1>1 DEF storeVars, ActiveInv, ReadOnce, Served, DeletesLast, Cleared
<1>2. CASE ConnectionNext
  <2>1. CASE AppRunUnpaired
    <3>1. run # None /\ profile' = None
      BY <2>1 DEF AppRunUnpaired, RunUnpaired, Awaits
    <3>2. boot = "ready"
      BY <3>1 DEF ActiveInv, Booting, RestOK
    <3>3. QED
      BY <2>1, <3>1, <3>2, GivenUp DEF AppRunUnpaired, Deletes
  <2>2. CASE AppSocketOpens \/ AppSocketCloses \/ AppRunOffline \/ AppRunFails \/ AppTimerFires \/ AppAsk
    BY <2>2, <1>1 DEF AppSocketOpens, AppSocketCloses, AppRunOffline, AppRunFails, AppTimerFires,
       AppAsk, Connection, SocketOpens, SocketCloses, RunOffline, RunFails, TimerFires, Ask,
       AskAnswered, OldCloses
  <2>3. CASE AppRunAnswered
    BY <2>3, <1>1 DEF AppRunAnswered, Connection, RunAnswered, ResumeAnswered, SubscribeAnswered,
       ListAnswered
  <2>4. QED
    BY <1>2, <2>1, <2>2, <2>3 DEF ConnectionNext
<1>3. CASE StorageDone
  <2>1. ASSUME NEW p \in Profiles \cup {None}, BootDone(p)
        PROVE  ReadOnce' /\ (~crossed' => Served' /\ DeletesLast' /\ Cleared')
    <3>1. Completed("get") /\ shown' = p /\ boot' = "ready" /\ crossed' = (p # stored) /\ stored' = stored
      BY <2>1 DEF BootDone
    <3>2. /\ Len(ops) \in Nat /\ Len(ops') \in Nat /\ Len(ops) = Len(ops') + 1 /\ ops[1].kind = "get"
      BY <3>1, OldestDone
    <3>3. boot = "loading"
      <4>1. 1 \in 1 .. Len(ops)
        BY <3>2
      <4>2. QED
        BY <3>2, <4>1 DEF ActiveInv, ReadOnce, RestOK
    <3>4. Len(ops') = 0
      <4>1. ops = <<Call("get")>>
        BY <3>3 DEF ActiveInv, Booting
      <4>2. Len(ops) = 1
        BY <4>1
      <4>3. QED
        BY <3>2, <4>2
    <3>5. profile' = p
      BY <2>1, <3>3 DEF BootDone, Start, coordVars, ActiveInv, Booting
    <3>6. ~crossed' => p = stored
      BY <3>1
    <3>7. \A i \in 1 .. Len(ops') : FALSE
      BY <3>4
    <3>8. ReadOnce' /\ DeletesLast'
      BY <3>7 DEF ReadOnce, DeletesLast
    <3>9. ~crossed' => Served' /\ Cleared'
      BY <3>1, <3>5, <3>6 DEF Served, Cleared
    <3>10. QED
      BY <3>8, <3>9
  <2>2. ASSUME NEW f \in Flows, SaveDone(f)
        PROVE  ReadOnce' /\ (~crossed' => Served' /\ DeletesLast' /\ Cleared')
    <3>1. /\ Completed("save") /\ UNCHANGED <<crossed, boot>>
          /\ stored' = Head(ops).profile /\ shown' = Head(ops).profile /\ profile' = Head(ops).profile
      BY <2>2 DEF SaveDone, Start
    <3>2. /\ Len(ops) \in Nat /\ Len(ops') \in Nat /\ Len(ops) = Len(ops') + 1
          /\ ops[1].kind = "save" /\ \A i \in 1 .. Len(ops') : ops'[i] = ops[i + 1]
      BY <3>1, OldestDone
    <3>3. profile' # None
      <4>1. Head(ops) \in Ops /\ Head(ops).kind = "save"
        BY <3>1, Completing DEF Completed
      <4>2. Head(ops).profile \in Profiles
        BY <4>1 DEF Ops, Call, Save
      <4>3. QED
        BY <3>1, <4>2, NoneAssumption
    <3>4. ReadOnce'
      BY <3>1, <3>2 DEF ActiveInv, ReadOnce
    <3>5. ASSUME ~crossed' PROVE DeletesLast'
      <4>1. \A i \in 1 .. Len(ops') : ops'[i].kind \notin Deletes
        <5>1. ASSUME NEW i \in 1 .. Len(ops'), ops'[i].kind \in Deletes PROVE FALSE
          <6>1. i + 1 \in 1 .. Len(ops) /\ 1 \in 1 .. i + 1 /\ ops[i + 1].kind \in Deletes
            BY <3>2, <5>1
          <6>2. QED
            BY <3>1, <3>2, <3>5, <6>1 DEF ActiveInv, DeletesLast
        <5>2. QED
          BY <5>1
      <4>2. QED
        BY <4>1 DEF DeletesLast
    <3>6. QED
      BY <3>1, <3>3, <3>4, <3>5 DEF Served, Cleared
  <2>3. ASSUME NEW f \in Flows, SaveFails(f)
        PROVE  ReadOnce' /\ (~crossed' => Served' /\ DeletesLast' /\ Cleared')
    <3>1. Completed("save") /\ UNCHANGED <<crossed, boot, stored, shown, profile>>
      BY <2>3 DEF SaveFails, coordVars
    <3>2. /\ Len(ops) \in Nat /\ Len(ops') \in Nat /\ Len(ops) = Len(ops') + 1
          /\ ops[1].kind = "save" /\ \A i \in 1 .. Len(ops') : ops'[i] = ops[i + 1]
      BY <3>1, OldestDone
    <3>3. ReadOnce' /\ (~crossed' => Served')
      BY <3>1, <3>2 DEF ActiveInv, ReadOnce, Served
    <3>4. ASSUME ~crossed', NEW i \in 1 .. Len(ops), ops[i].kind \in Deletes PROVE FALSE
      <4>1. 1 \in 1 .. i
        BY <3>2
      <4>2. QED
        BY <3>1, <3>2, <3>4, <4>1 DEF ActiveInv, DeletesLast
    <3>5. ASSUME ~crossed', NEW i \in 1 .. Len(ops'), ops'[i].kind \in Deletes PROVE FALSE
      <4>1. i + 1 \in 1 .. Len(ops) /\ ops[i + 1].kind \in Deletes
        BY <3>2, <3>5
      <4>2. QED
        BY <3>4, <3>5, <4>1
    <3>6. ~crossed' => DeletesLast'
      BY <3>5 DEF DeletesLast
    <3>7. ~crossed' => Cleared'
      BY <3>1, <3>4 DEF ActiveInv, Cleared
    <3>8. QED
      BY <3>3, <3>6, <3>7
  <2>4. CASE ForgetDone \/ InvalidateDone
    <3>1. PICK kind \in Deletes : Completed(kind)
      BY <2>4 DEF ForgetDone, InvalidateDone, Deletes
    <3>2. UNCHANGED <<crossed, boot, profile>> /\ stored' = None /\ shown' = None
      BY <2>4 DEF ForgetDone, InvalidateDone, Invalidated, coordVars
    <3>3. /\ Len(ops) \in Nat /\ Len(ops') \in Nat /\ Len(ops) = Len(ops') + 1
          /\ ops[1].kind = kind /\ \A i \in 1 .. Len(ops') : ops'[i] = ops[i + 1]
      BY <3>1, OldestDone
    <3>4. ReadOnce' /\ Cleared'
      BY <3>2, <3>3 DEF ActiveInv, ReadOnce, Cleared
    <3>5. ASSUME ~crossed' PROVE profile = None /\ DeletesLast'
      <4>1. DeletesLast /\ 1 \in 1 .. Len(ops)
        BY <3>2, <3>3, <3>5 DEF ActiveInv
      <4>2. profile = None
        BY <3>1, <3>3, <4>1 DEF DeletesLast
      <4>3. ASSUME NEW i \in 1 .. Len(ops'), ops'[i].kind \in Deletes, NEW j \in 1 .. i
            PROVE  ops'[j].kind # "save"
        <5>1. /\ i + 1 \in 1 .. Len(ops) /\ j + 1 \in 1 .. i + 1 /\ j \in 1 .. Len(ops')
              /\ ops[i + 1].kind \in Deletes
          BY <3>3, <4>3
        <5>2. QED
          BY <3>3, <4>1, <5>1 DEF DeletesLast
      <4>4. QED
        BY <3>2, <4>2, <4>3 DEF DeletesLast
    <3>6. QED
      BY <3>2, <3>4, <3>5 DEF Served
  <2>5. CASE DeleteFails
    <3>1. PICK kind : Completed(kind)
      BY <2>5 DEF DeleteFails
    <3>2. crossed' /\ UNCHANGED boot
      BY <2>5 DEF DeleteFails
    <3>3. /\ Len(ops) \in Nat /\ Len(ops') \in Nat /\ Len(ops) = Len(ops') + 1
          /\ \A i \in 1 .. Len(ops') : ops'[i] = ops[i + 1]
      BY <3>1, OldestDone
    <3>4. ReadOnce'
      BY <3>2, <3>3 DEF ActiveInv, ReadOnce
    <3>5. QED
      BY <3>2, <3>4
  <2>6. QED
    BY <1>3, <2>1, <2>2, <2>3, <2>4, <2>5 DEF StorageDone
<1>4. CASE PairingNext
  <2>1. ASSUME NEW f \in Flows, PairAccepted(f)
        PROVE  ReadOnce' /\ (~crossed' => Served' /\ DeletesLast' /\ Cleared')
    <3>1. UNCHANGED <<crossed, boot, stored, shown, profile>>
      BY <2>1 DEF PairAccepted, coordVars
    <3>2. PICK c : c = Save(f, flow[f].profile)
      OBVIOUS
    <3>3. c \in Ops /\ c.kind = "save" /\ ops' = Append(ops, c)
      <4>1. flow[f].profile \in Profiles
        BY <2>1 DEF PairAccepted, FlowOK
      <4>2. QED
        BY <2>1, <3>2, <4>1 DEF PairAccepted, Ops, Save
    <3>4. /\ Len(ops) \in Nat /\ Len(ops') = Len(ops) + 1
          /\ \A i \in 1 .. Len(ops) : ops'[i] = ops[i]
          /\ ops'[Len(ops) + 1].kind = "save"
      BY <3>3, NewestIssued
    <3>5. ReadOnce' /\ (~crossed' => Served')
      BY <3>1, <3>4 DEF ActiveInv, ReadOnce, Served
    <3>6. ASSUME ~crossed' PROVE DeletesLast'
      <4>1. SUFFICES ASSUME NEW i \in 1 .. Len(ops'), ops'[i].kind \in Deletes
                     PROVE  profile = None /\ \A j \in 1 .. i : ops'[j].kind # "save"
        BY <3>1 DEF DeletesLast
      <4>2. i \in 1 .. Len(ops) /\ \A j \in 1 .. i : j \in 1 .. Len(ops)
        BY <3>4, <4>1 DEF Deletes
      <4>3. QED
        BY <3>1, <3>4, <3>6, <4>1, <4>2 DEF ActiveInv, DeletesLast
    <3>7. ASSUME ~crossed' PROVE Cleared'
      <4>1. \A i \in 1 .. Len(ops) : i \in 1 .. Len(ops')
        BY <3>4
      <4>2. QED
        BY <3>1, <3>4, <3>7, <4>1 DEF ActiveInv, Cleared
    <3>8. QED
      BY <3>5, <3>6, <3>7
  <2>2. QED
    BY <1>1, <1>4, <2>1 DEF PairingNext, IdentityReady, IdentityFails, PairOpens, PairCloses,
       PairRefused, coordVars
<1>5. CASE UserNext
  <2>1. CASE ClearPairing
    BY <2>1, GivenUp DEF ClearPairing, StartNone, Deletes
  <2>2. CASE AppRetry
    BY <2>2, <1>1 DEF AppRetry, Connection, Retry
  <2>3. CASE PairAnother \/ Back
    BY <2>3, <1>1 DEF PairAnother, Back, coordVars
  <2>4. CASE Kill
    <3>1. ops' = <<Call("get")>> /\ boot' = "loading" /\ profile' = None
      BY <2>4 DEF Kill, Restart
    <3>2. Len(ops') = 1 /\ ops'[1].kind = "get"
      BY <3>1 DEF Call
    <3>3. QED
      BY <3>1, <3>2 DEF ReadOnce, Served, DeletesLast, Cleared, Deletes
  <2>5. ASSUME NEW f \in Flows, NEW p \in Profiles, Submit(f, p)
        PROVE  ReadOnce' /\ (~crossed' => Served' /\ DeletesLast' /\ Cleared')
    BY <2>5, <1>1 DEF Submit, coordVars
  <2>6. QED
    BY <1>5, <2>1, <2>2, <2>3, <2>4, <2>5 DEF UserNext
<1>6. CASE UNCHANGED appVars
  BY <1>1, <1>6 DEF appVars, coordVars
<1>7. QED
  BY <1>2, <1>3, <1>4, <1>5, <1>6 DEF AppNext

LEMMA InitActive == AppInit => ActiveInv
<1> SUFFICES ASSUME AppInit PROVE ActiveInv
  OBVIOUS
<1>1. /\ ops = <<Call("get")>> /\ stack = <<"splash">> /\ boot = "loading"
      /\ profile = None /\ run = None /\ socket = "none"
      /\ \A f \in Flows : flow[f] = Idle
  BY DEF AppInit, CoordInit
<1>2. Len(ops) = 1 /\ ops[1].kind = "get"
  BY <1>1 DEF Call
<1>3. QED
  BY <1>1, <1>2 DEF ActiveInv, Booting, ReadOnce, Served, DeletesLast, Cleared, Deletes

\* The profile the coordinator serves is the one that is stored and shown, and
\* none is left when none is served, through pairings, deletes, kills and runs
\* in any order, unless a delete overtook a save or the storage failed
\* (AppProvider.tsx, createMobileRuntime.ts, pairingRepository.ts).
THEOREM OneActive == AppSpec => []OneActiveUnlessCrossed
<1>1. AppSpec => []ActiveInv
  BY InitActive, ActiveStep, AppTypes, PTL DEF AppSpec
<1>2. ActiveInv => OneActiveUnlessCrossed
  <2> SUFFICES ASSUME ActiveInv, ~crossed PROVE OneActiveProfile
    BY DEF OneActiveUnlessCrossed
  <2>1. Served /\ Cleared
    BY DEF ActiveInv
  <2>2. ops = <<>> => \A i \in 1 .. Len(ops) : ops[i].kind \notin Deletes
    OBVIOUS
  <2>3. QED
    BY <2>1, <2>2 DEF Served, Cleared, OneActiveProfile
<1>3. QED
  BY <1>1, <1>2, PTL

=============================================================================
