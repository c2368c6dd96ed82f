----------------------------- MODULE MobileApp -----------------------------
(***************************************************************************)
(* The mobile application around its connection: AppProvider with the      *)
(* coordinator, the pairing screens on their own websocket client, the     *)
(* stored profile and the route on top of the navigation stack.            *)
(*                                                                         *)
(* The secure storage answers asynchronously and in order: ops is the      *)
(* queue of its calls with what the awaiting code does next.  A submission *)
(* of a pairing screen is a flow; pairingClient is shared by all of them.  *)
(***************************************************************************)
EXTENDS ConnectionCoordinator, Sequences, SequencesExt, FiniteSets

CONSTANTS
  Flows,       \* submissions of pairing screens that can be in progress
  MaxActs,     \* bound: actions of the user and kills of the app
  MaxFaults    \* bound: lost connections, failed requests and storage calls

ASSUME AppAssumption == MaxActs \in Nat /\ MaxFaults \in Nat

VARIABLES
  stored,      \* the profile in the secure storage
  shown,       \* the profile AppProvider shows
  ops,         \* calls of the secure storage that have not completed
  stack,       \* routes, the one on top last
  exitRecovery,\* exitRecoveryOnOnlineRef
  boot,        \* bootstrapStatus
  flow,        \* what each submission awaits, and for which computer
  here,        \* the latest submission of the pairing screen on top
  pairSocket,  \* the flow whose socket is the current one of pairingClient
  wire,        \* the socket of each flow
  crossed,     \* a delete was issued behind a save, or a read or delete failed
  acts, faults

storeVars == <<stored, shown, ops, crossed>>
routeVars == <<stack, exitRecovery, here>>
pairVars == <<flow, pairSocket, wire>>
boundVars == <<acts, faults>>
appVars == <<coordVars, storeVars, routeVars, boot, pairVars, boundVars>>

Idle == [stage |-> "idle", profile |-> None]
FlowStages == {"idle", "identity", "connect", "request", "save"}

\* A call of the storage; a delete is issued by clearPairing (forget) or by
\* onProfileInvalidated (invalidate).
Call(kind) == [kind |-> kind, flow |-> None, profile |-> None]
Save(f, p) == [kind |-> "save", flow |-> f, profile |-> p]
Ops == {Call(kind) : kind \in {"get", "forget", "invalidate"}}
         \cup {Save(f, p) : f \in Flows, p \in Profiles}

AppTypeOK ==
  /\ TypeOK
  /\ stored \in Profiles \cup {None} /\ shown \in Profiles \cup {None}
  /\ ops \in Seq(Ops)
  /\ stack \in Seq({"splash", "inbox", "pairing", "recovery"}) /\ stack # <<>>
  /\ exitRecovery \in BOOLEAN /\ boot \in {"loading", "ready"}
  /\ flow \in [Flows -> [stage : FlowStages, profile : Profiles \cup {None}]]
  /\ here \in Flows \cup {None} /\ pairSocket \in Flows \cup {None}
  /\ wire \in [Flows -> {"none", "connecting", "open", "closing"}]
  /\ crossed \in BOOLEAN
  /\ acts \in 0..MaxActs /\ faults \in 0..MaxFaults

AppInit ==
  /\ CoordInit
  /\ stored \in Profiles \cup {None}
  /\ shown = None
  /\ ops = <<Call("get")>>
  /\ crossed = FALSE
  /\ stack = <<"splash">> /\ exitRecovery = FALSE /\ here = None
  /\ boot = "loading"
  /\ flow = [f \in Flows |-> Idle]
  /\ pairSocket = None
  /\ wire = [f \in Flows |-> "none"]
  /\ acts = 0 /\ faults = 0

-----------------------------------------------------------------------------
(* Pieces.                                                                 *)

Top == Last(stack)

\* Mutant of Replace: the screen is dismissed, nothing takes its place.
Dismiss(route) == stack' = Front(stack) /\ here' = None

\* navigation.replace; the screen on top is a new one.
Replace(route) == stack' = Append(Front(stack), route) /\ here' = None

\* onStatusChange, for the status the coordinator has moved to.
FollowStatus ==
  LET moved == status' # status
  IN  \/ moved /\ status' = "recovery" /\ Replace("recovery") /\ exitRecovery' = TRUE
      \/ moved /\ status' = "pairingRequired" /\ Replace("pairing") /\ exitRecovery' = FALSE
      \/ moved /\ status' = "online" /\ exitRecovery /\ Replace("inbox") /\ exitRecovery' = FALSE
      \/ /\ \/ ~moved
            \/ status' \notin {"recovery", "pairingRequired", "online"}
            \/ status' = "online" /\ ~exitRecovery
         /\ UNCHANGED routeVars

Act == acts < MaxActs /\ acts' = acts + 1 /\ UNCHANGED faults
Fault == faults < MaxFaults /\ faults' = faults + 1 /\ UNCHANGED acts
FaultIf(unprovoked) == IF unprovoked THEN Fault ELSE UNCHANGED boundVars

\* A delete is issued: behind a save it will undo it.
IssueDelete(kind) ==
  /\ ops' = Append(ops, Call(kind))
  /\ crossed' = (crossed \/ \E i \in DOMAIN ops : ops[i].kind = "save")

\* A step of the coordinator that touches neither storage nor pairing.
Connection(step) ==
  /\ step
  /\ FollowStatus
  /\ UNCHANGED <<storeVars, boot, pairVars>>

-----------------------------------------------------------------------------
(* The connection, seen by the app.                                        *)

AppSocketOpens == Connection(SocketOpens) /\ UNCHANGED boundVars
AppSocketCloses == Connection(SocketCloses) /\ FaultIf(socket # "closing")
AppRunAnswered == Connection(RunAnswered) /\ UNCHANGED boundVars
AppRunOffline == Connection(RunOffline) /\ UNCHANGED boundVars
AppRunFails == Connection(RunFails) /\ Fault
AppTimerFires == Connection(TimerFires) /\ UNCHANGED boundVars
AppAsk ==
  /\ Connection(\E a \in Askers : Ask(a) \/ AskAnswered(a) \/ OldCloses(a))
  /\ UNCHANGED boundVars
AppRetry == boot = "ready" /\ Connection(Retry) /\ Act

\* The refused profile is to be deleted before the app learns of it.
AppRunUnpaired ==
  /\ RunUnpaired
  /\ IssueDelete("invalidate")
  /\ FollowStatus
  /\ UNCHANGED <<stored, shown, boot, pairVars, boundVars>>

\* clearPairing from the settings: start(null), then the delete.
ClearPairing ==
  /\ boot = "ready" /\ Top = "inbox"
  /\ StartNone
  /\ IssueDelete("forget")
  /\ FollowStatus
  /\ Act
  /\ UNCHANGED <<stored, shown, boot, pairVars>>

-----------------------------------------------------------------------------
(* The storage completes its oldest call.                                  *)

Completed(kind) == ops # <<>> /\ Head(ops).kind = kind /\ ops' = Tail(ops)

\* The profile is read at the start, or cannot be.
BootDone(p) ==
  /\ Completed("get")
  /\ p \in {stored, None}
  /\ shown' = p /\ boot' = "ready"
  /\ Replace(IF p = None THEN "pairing" ELSE "inbox")
  /\ IF p = None THEN UNCHANGED coordVars ELSE Start(p)
  /\ FaultIf(p # stored) /\ crossed' = (p # stored)
  /\ UNCHANGED <<stored, exitRecovery, pairVars>>

\* saveProfile returns and onPaired takes the new profile.
SaveDone(f) ==
  /\ Completed("save") /\ Head(ops).flow = f
  /\ stored' = Head(ops).profile /\ shown' = Head(ops).profile
  /\ flow' = [flow EXCEPT ![f] = Idle]
  /\ Replace("inbox")
  /\ Start(Head(ops).profile)
  /\ UNCHANGED <<crossed, exitRecovery, boot, pairSocket, wire, boundVars>>

SaveFails(f) ==
  /\ Completed("save") /\ Head(ops).flow = f
  /\ flow' = [flow EXCEPT ![f] = Idle]
  /\ Fault
  /\ UNCHANGED <<coordVars, stored, shown, crossed, routeVars, boot, pairSocket, wire>>

\* The rest of clearPairing.
ForgetDone ==
  /\ Completed("forget")
  /\ stored' = None /\ shown' = None
  /\ UNCHANGED <<coordVars, crossed, routeVars, boot, pairVars, boundVars>>

\* Mutant of InvalidateDone: without setProfile(null).
InvalidateStoredOnly ==
  /\ Completed("invalidate")
  /\ stored' = None
  /\ Invalidated
  /\ FollowStatus
  /\ UNCHANGED <<shown, crossed, boot, pairVars, boundVars>>

\* The rest of onProfileInvalidated and of handleFailure.
InvalidateDone ==
  /\ Completed("invalidate")
  /\ stored' = None /\ shown' = None
  /\ Invalidated
  /\ FollowStatus
  /\ UNCHANGED <<crossed, boot, pairVars, boundVars>>

DeleteFails ==
  /\ \/ Completed("forget") /\ UNCHANGED coordVars
     \/ Completed("invalidate") /\ InvalidationFails
  /\ crossed' = TRUE
  /\ Fault
  /\ UNCHANGED <<stored, shown, routeVars, boot, pairVars>>

-----------------------------------------------------------------------------
(* Pairing screens.                                                        *)

\* pairAnotherComputer, and leaving the screen it pushed.
PairAnother ==
  /\ boot = "ready" /\ Top \in {"inbox", "recovery"} /\ Len(stack) = 1
  /\ stack' = Append(stack, "pairing") /\ here' = None
  /\ Act
  /\ UNCHANGED <<coordVars, storeVars, exitRecovery, boot, pairVars>>

Back ==
  /\ Len(stack) > 1
  /\ stack' = Front(stack) /\ here' = None
  /\ Act
  /\ UNCHANGED <<coordVars, storeVars, exitRecovery, boot, pairVars>>

\* submit: pairingInProgress belongs to the screen, so a new screen accepts a
\* submission while one of a former screen goes on.
Submit(f, p) ==
  /\ Top = "pairing" /\ flow[f] = Idle
  /\ here # None => flow[here] = Idle
  /\ flow' = [flow EXCEPT ![f] = [stage |-> "identity", profile |-> p]]
  /\ here' = f
  /\ Act
  /\ UNCHANGED <<coordVars, storeVars, stack, exitRecovery, boot, pairSocket, wire>>

\* Flows that await the connect of the current pairing socket: a connect that
\* comes now supersedes it, and the finally of pair() closes the new socket.
Superseded == {g \in Flows : pairSocket = g /\ flow[g].stage = "connect"}

\* getDeviceIdentity returns and pair() connects.
IdentityReady(f) ==
  /\ flow[f].stage = "identity"
  /\ flow' = [g \in Flows |-> IF g = f THEN [flow[f] EXCEPT !.stage = "connect"]
                              ELSE IF g \in Superseded THEN Idle ELSE flow[g]]
  /\ pairSocket' = f
  /\ wire' = [wire EXCEPT ![f] = IF Superseded = {} THEN "connecting" ELSE "closing"]
  /\ UNCHANGED <<coordVars, storeVars, routeVars, boot, boundVars>>

IdentityFails(f) ==
  /\ flow[f].stage = "identity"
  /\ flow' = [flow EXCEPT ![f] = Idle]
  /\ Fault
  /\ UNCHANGED <<coordVars, storeVars, routeVars, boot, pairSocket, wire>>

PairOpens(f) ==
  /\ pairSocket = f /\ wire[f] = "connecting" /\ flow[f].stage = "connect"
  /\ wire' = [wire EXCEPT ![f] = "open"]
  /\ flow' = [flow EXCEPT ![f].stage = "request"]
  /\ UNCHANGED <<coordVars, storeVars, routeVars, boot, pairSocket, boundVars>>

\* A pairing socket closes.  The current one rejects every request of the
\* client, of whichever flow; a replaced one rejects nothing.
PairCloses(f) ==
  /\ wire[f] # "none"
  /\ wire' = [wire EXCEPT ![f] = "none"]
  /\ IF pairSocket = f
     THEN /\ pairSocket' = None
          /\ flow' = [g \in Flows |->
               IF flow[g].stage = "request" \/ (g = f /\ flow[g].stage = "connect")
               THEN Idle ELSE flow[g]]
     ELSE UNCHANGED <<pairSocket, flow>>
  /\ FaultIf(pairSocket = f /\ wire[f] # "closing")
  /\ UNCHANGED <<coordVars, storeVars, routeVars, boot>>

\* finally { pairingClient.close() }: whoever the current socket belongs to.
ClosePairingClient ==
  wire' = IF pairSocket = None THEN wire ELSE [wire EXCEPT ![pairSocket] = "closing"]

\* mobile.pair is answered and the answer makes a profile: it is to be saved.
PairAccepted(f) ==
  /\ flow[f].stage = "request" /\ wire[f] = "open"
  /\ flow' = [flow EXCEPT ![f].stage = "save"]
  /\ ops' = Append(ops, Save(f, flow[f].profile))
  /\ ClosePairingClient
  /\ UNCHANGED <<coordVars, stored, shown, crossed, routeVars, boot, pairSocket, boundVars>>

\* ... or it is an error, or buildPairingProfile rejects it.
PairRefused(f) ==
  /\ flow[f].stage = "request" /\ wire[f] = "open"
  /\ flow' = [flow EXCEPT ![f] = Idle]
  /\ ClosePairingClient
  /\ UNCHANGED <<coordVars, storeVars, routeVars, boot, pairSocket, boundVars>>

-----------------------------------------------------------------------------
(* The app is killed: some of the storage calls it had issued take effect. *)

\* What the storage holds after the calls s, begun with p.
AfterOps(s, p) ==
  LET writes == {i \in DOMAIN s : s[i].kind # "get"}
      last == CHOOSE i \in writes : \A j \in writes : j <= i
  IN  IF writes = {} THEN p ELSE s[last].profile

Kill ==
  /\ boot = "ready"
  /\ \E n \in 0..Len(ops) : stored' = AfterOps(SubSeq(ops, 1, n), stored)
  /\ Restart
  /\ shown' = None /\ ops' = <<Call("get")>> /\ crossed' = FALSE
  /\ stack' = <<"splash">> /\ exitRecovery' = FALSE /\ here' = None
  /\ boot' = "loading"
  /\ flow' = [f \in Flows |-> Idle]
  /\ pairSocket' = None
  /\ wire' = [f \in Flows |-> "none"]
  /\ Act

StorageDone ==
  \/ \E p \in Profiles \cup {None} : BootDone(p)
  \/ \E f \in Flows : SaveDone(f) \/ SaveFails(f)
  \/ ForgetDone \/ InvalidateDone \/ DeleteFails

ConnectionNext ==
  \/ AppSocketOpens \/ AppSocketCloses \/ AppRunAnswered \/ AppRunUnpaired
  \/ AppRunOffline \/ AppRunFails \/ AppTimerFires \/ AppAsk

PairingNext ==
  \E f \in Flows :
    \/ IdentityReady(f) \/ IdentityFails(f) \/ PairOpens(f) \/ PairCloses(f)
    \/ PairAccepted(f) \/ PairRefused(f)

UserNext ==
  \/ AppRetry \/ ClearPairing \/ PairAnother \/ Back \/ Kill
  \/ \E f \in Flows, p \in Profiles : Submit(f, p)

AppNext == StorageDone \/ ConnectionNext \/ PairingNext \/ UserNext

\* The storage answers, the timer fires, a connecting socket opens (or closes),
\* a closing one closes, and the relay answers a run on an open one: its
\* requests time out.
AppFairness ==
  /\ WF_appVars(StorageDone)
  /\ WF_appVars(AppTimerFires)
  /\ WF_appVars(AppSocketOpens)
  /\ WF_appVars(socket = "closing" /\ AppSocketCloses)
  /\ WF_appVars(socket = "open" /\ AppRunAnswered)

AppSpec == AppInit /\ [][AppNext]_appVars
FairAppSpec == AppSpec /\ AppFairness

-----------------------------------------------------------------------------
(* Properties.                                                             *)

\* One active computer: the profile the coordinator serves is the one that is
\* stored and the one the app shows, and when it serves none and the storage is
\* idle, none is stored or shown ...
OneActiveProfile ==
  /\ profile # None => stored = profile /\ shown = profile
  /\ profile = None /\ boot = "ready" /\ ops = <<>> => stored = None /\ shown = None

\* ... unless a delete was issued behind a save, which it then undoes, or the
\* storage failed to read or to delete.
OneActiveUnlessCrossed == ~crossed => OneActiveProfile

\* The app comes to rest: it does not show for ever that it is connecting to
\* the profile it holds.
ConnectionSettles ==
  (profile # None /\ status \in Busy) ~> (profile = None \/ status \notin Busy)

=============================================================================
