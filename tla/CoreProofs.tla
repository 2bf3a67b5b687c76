------------------------------- MODULE CoreProofs -------------------------------
(***************************************************************************)
(* Theorems about a core process, for any number of calls, requests and    *)
(* controllers.                                                            *)
(*                                                                         *)
(* The call (CoreCall): its connections are held, one call at a time.      *)
(*                                                                         *)
(* The cursors of a share (CursorControl): control of the shared cursor is *)
(* exclusive, and controllers that are disabled are blocked.               *)
(***************************************************************************)
EXTENDS MCCore, SequenceTheorems, TLAPS

Outcomes == {"none", "connecting", "up", "failed", "cancelled"}

\* The two connections of an attempt exist only while it connects, when the rooms of
\* the last call have been closed.
BranchesInUse ==
    /\ service \in {"idle", "clear", "take", "connect"}
    /\ branch \in [Kinds -> Outcomes]
    /\ service # "connect" => branch = NoBranch
    /\ service \in {"take", "connect"} => room = 0 /\ videoRoom = 0
    /\ service = "connect" => attempt # 0
    /\ videoRoom \in {0, room}

\* The inductive invariant.
ConnectionInvariant == BranchesInUse /\ NoConnectionLost

LEMMA ConnectionInit == Init => ConnectionInvariant
BY DEF Init, ConnectionInvariant, BranchesInUse, NoConnectionLost, NoBranch, Kinds, Outcomes, Held

\* Nothing but the room service's own steps touches what the invariant speaks of.
LEMMA OthersPreserve ==
    ASSUME ConnectionInvariant, UserActs \/ AppReceives \/ MainStep
    PROVE  ConnectionInvariant'
<1>1. UNCHANGED <<service, attempt, branch, room, videoRoom, connected>>
  <2>1. CASE UserActs
    BY <2>1 DEF UserActs, StartCall, EndCall, Request, worker, rooms
  <2>2. CASE AppReceives
    BY <2>2 DEF AppReceives, worker, rooms
  <2>3. CASE MainStep
    BY <2>3 DEF MainStep, CallStart, CallStartFails, CallEnd, RoomCreated, RoomFailed,
       StartCamera, StartCapture, CapturePanics, StopCamera, worker, rooms
  <2> QED BY <2>1, <2>2, <2>3
<1> QED BY <1>1 DEF ConnectionInvariant, BranchesInUse, NoConnectionLost, Held

LEMMA ServicePreserves ==
    ASSUME ConnectionInvariant, ServiceStep
    PROVE  ConnectionInvariant'
<1> USE DEF ConnectionInvariant, BranchesInUse
<1>1. CASE TakeCreateRoom \/ TakeDestroyRoom
  BY <1>1 DEF TakeCreateRoom, TakeDestroyRoom, Takes, NoConnectionLost, Held, rooms, NoBranch
<1>2. CASE CloseRooms
  <2>1. connected = {r \in Held : r[1] # 0}
    BY <1>2 DEF CloseRooms, NoConnectionLost, NoBranch, Kinds
  <2>2. connected' = {}
    BY <1>2, <2>1 DEF CloseRooms
  <2>3. NoConnectionLost'
    BY <1>2, <2>2 DEF CloseRooms, NoConnectionLost, NoBranch, Kinds, Held
  <2> QED BY <1>2, <2>3 DEF CloseRooms
<1>3. CASE TakeSources
  BY <1>3 DEF TakeSources, NoConnectionLost, NoBranch, Kinds, Held, Outcomes
<1>4. CASE \E k \in Kinds : Connects(k)
  <2> PICK k \in Kinds : Connects(k)
    BY <1>4
  <2>1. BranchesInUse'
    BY DEF Connects, Outcomes
  <2>2. NoConnectionLost'
    BY DEF Connects, NoConnectionLost, Held
  <2> QED BY <2>1, <2>2
<1>5. CASE \E k \in Kinds : ConnectFails(k) \/ ConnectCancelled(k)
  <2> PICK k \in Kinds : ConnectFails(k) \/ ConnectCancelled(k)
    BY <1>5
  <2>1. BranchesInUse'
    BY DEF ConnectFails, ConnectCancelled, Outcomes, rooms
  <2>2. NoConnectionLost'
    BY DEF ConnectFails, ConnectCancelled, NoConnectionLost, Held, rooms
  <2> QED BY <2>1, <2>2
<1>6. CASE CleanUp \/ GiveUp
  <2>1. connected' = {}
    BY <1>6 DEF CleanUp, GiveUp, NoConnectionLost, Held, Abandoned, Joined
  <2> QED BY <1>6, <2>1 DEF CleanUp, GiveUp, NoConnectionLost, Held, NoBranch, Kinds, Outcomes, Joined
<1>7. CASE Establish
  <2>1. connected = {<<attempt, k>> : k \in {kk \in Kinds : branch[kk] = "up"}}
    BY <1>7 DEF Establish, Joined, NoConnectionLost, Held
  <2>2. connected' = {r \in Held' : r[1] # 0}
    BY <1>7, <2>1 DEF Establish, Joined, Held, Kinds
  <2>3. {k \in Kinds : branch'[k] = "up"} = {}
    BY <1>7 DEF Establish, NoBranch
  <2> QED BY <1>7, <2>2, <2>3 DEF Establish, NoConnectionLost, NoBranch, Kinds, Outcomes, Joined
<1> QED BY <1>1, <1>2, <1>3, <1>4, <1>5, <1>6, <1>7 DEF ServiceStep

LEMMA InvariantHolds == Spec => []ConnectionInvariant
<1>1. Init => ConnectionInvariant
  BY ConnectionInit
<1>2. ConnectionInvariant /\ [Next]_vars => ConnectionInvariant'
  <2> SUFFICES ASSUME ConnectionInvariant, [Next]_vars
               PROVE  ConnectionInvariant'
    OBVIOUS
  <2>1. CASE UNCHANGED vars
    BY <2>1 DEF vars, worker, rooms, ConnectionInvariant, BranchesInUse, NoConnectionLost, Held
  <2> QED BY <2>1, OthersPreserve, ServicePreserves DEF Next
<1> QED BY <1>1, <1>2, PTL DEF Spec

\* Every connection that is open at the LiveKit server is the held room of a call or
\* one of the two being set up: whichever way an attempt ends, cancelled, failed or
\* with a video room missing, nothing is left that destroy_room could not close.
THEOREM ConnectionsAreHeld == Spec => []NoConnectionLost
BY InvariantHolds, PTL DEF ConnectionInvariant

\* The core is never in the rooms of two calls at once, nor in a video room alone.
THEOREM OneCallHolds == Spec => []OneCallAtATime
<1>1. ConnectionInvariant => OneCallAtATime
  BY DEF ConnectionInvariant, BranchesInUse, NoConnectionLost, OneCallAtATime, Held, NoBranch, Kinds
<1> QED BY <1>1, InvariantHolds, PTL

--------------------------------------------------------------------------------

Commands == [type : {"create", "destroy"}, call : 0..MaxCalls]
Messages == {"callEnded", "roomFailed", "startFailed"}

LEMMA InitType == Init => TypeOK
<1> SUFFICES ASSUME Init PROVE TypeOK
  OBVIOUS
<1>1. toApp \in Seq(Messages) /\ queue \in Seq(Events) /\ commands \in Seq(Commands)
  BY EmptySeq DEF Init
<1>2. branch \in [Kinds -> Outcomes]
  BY DEF Init, NoBranch, Outcomes
<1>3. 0 \in 0..MaxCalls /\ 0 \in 0..MaxRequests
  BY BoundsAssumption
<1>4. connected \in SUBSET (Calls \X Kinds)
  BY DEF Init
<1> QED BY <1>1, <1>2, <1>3, <1>4 DEF Init, TypeOK, Messages, Commands, Outcomes

LEMMA EventType ==
    ASSUME NEW t \in {"callStart", "callEnd", "created", "failed", "startCamera", "stopCamera"}
    PROVE  /\ \A n \in 0..MaxCalls : Event(t, n) \in Events
           /\ Event(t, 0) \in Events
BY BoundsAssumption DEF Event, Events

LEMMA HandlesType ==
    ASSUME TypeOK, NEW type, Handles(type)
    PROVE  queue' \in Seq(Events) /\ Head(queue) \in Events
BY HeadTailProperties DEF TypeOK, Handles

LEMMA TakesType ==
    ASSUME TypeOK, NEW type, Takes(type)
    PROVE  commands' \in Seq(Commands) /\ attempt' \in 0..MaxCalls
<1>1. commands \in Seq(Commands) /\ commands # <<>>
  BY DEF TypeOK, Takes, Commands
<1>2. Head(commands) \in Commands /\ Tail(commands) \in Seq(Commands)
  BY <1>1, HeadTailProperties
<1> QED BY <1>2 DEF Takes, Commands

LEMMA UserType ==
    ASSUME TypeOK, UserActs \/ AppReceives
    PROVE  TypeOK'
<1> USE DEF TypeOK
<1>1. CASE StartCall
  <2>1. calls' \in 0..MaxCalls
    BY <1>1, BoundsAssumption DEF StartCall
  <2>2. queue' \in Seq(Events)
    BY <1>1, <2>1, AppendProperties DEF StartCall, Event, Events
  <2> QED BY <1>1, <2>1, <2>2 DEF StartCall, devices, worker, rooms
<1>2. CASE EndCall
  <2>1. queue' \in Seq(Events) /\ tokens' \in 0..MaxCalls
    BY <1>2, BoundsAssumption, AppendProperties DEF EndCall, HangUp, Event, Events
  <2> QED BY <1>2, <2>1 DEF EndCall, devices, worker, rooms
<1>3. CASE \E t \in {"startCamera", "stopCamera", "callEnd"} : Request(t)
  <2> PICK t \in {"startCamera", "stopCamera", "callEnd"} : Request(t)
    BY <1>3
  <2>1. requests' \in 0..MaxRequests
    BY BoundsAssumption DEF Request
  <2>2. queue' \in Seq(Events)
    BY EventType, AppendProperties DEF Request
  <2> QED BY <2>1, <2>2 DEF Request, devices, worker, rooms
<1>4. CASE AppReceives
  <2>1. toApp' \in Seq(Messages)
    BY <1>4, HeadTailProperties DEF AppReceives, Messages
  <2>2. tokens' \in 0..MaxCalls
    BY <1>4, BoundsAssumption DEF AppReceives, HangUp
  <2>3. queue' = queue \/ queue' = Append(queue, Event("callEnd", 0))
    BY <1>4 DEF AppReceives, HangUp
  <2>4. Event("callEnd", 0) \in Events
    BY EventType
  <2>5. Append(queue, Event("callEnd", 0)) \in Seq(Events)
    BY <2>4, AppendProperties
  <2>6. queue' \in Seq(Events)
    BY <2>3, <2>5
  <2> QED BY <1>4, <2>1, <2>2, <2>6 DEF AppReceives, devices, worker, rooms, Messages
<1> QED BY <1>1, <1>2, <1>3, <1>4 DEF UserActs

LEMMA MainType ==
    ASSUME TypeOK, MainStep
    PROVE  TypeOK'
<1> USE DEF TypeOK, user, devices, worker, rooms
<1>1. CASE CallStart
  <2>1. queue' \in Seq(Events) /\ Head(queue) \in Events
    BY <1>1, HandlesType DEF CallStart
  <2>2. commands' \in Seq(Commands)
    BY <1>1, <2>1, AppendProperties DEF CallStart, Event, Events, Commands
  <2> QED BY <1>1, <2>1, <2>2 DEF CallStart, Commands
<1>2. CASE CallStartFails
  <2>1. queue' \in Seq(Events)
    BY <1>2, HandlesType DEF CallStartFails
  <2>2. toApp' \in Seq(Messages)
    BY <1>2, AppendProperties DEF CallStartFails, Messages
  <2> QED BY <1>2, <2>1, <2>2 DEF CallStartFails, Messages
<1>3. CASE CallEnd
  <2>1. queue' \in Seq(Events)
    BY <1>3, HandlesType DEF CallEnd
  <2>2. toApp' \in Seq(Messages)
    BY <1>3, AppendProperties DEF CallEnd, Messages
  <2>3. commands' \in Seq(Commands)
    BY <1>3, BoundsAssumption, AppendProperties DEF CallEnd, DestroyRoom, Event, Commands
  <2> QED BY <1>3, <2>1, <2>2, <2>3 DEF CallEnd, DestroyRoom, Messages, Commands
<1>4. CASE RoomCreated
  <2>1. Tail(queue) \in Seq(Events)
    BY <1>4, HeadTailProperties DEF RoomCreated
  <2>2. Event("startCamera", 0) \in Events
    BY BoundsAssumption DEF Event, Events
  <2>3. queue' \in Seq(Events)
    BY <1>4, <2>1, <2>2, AppendProperties DEF RoomCreated
  <2> QED BY <1>4, <2>3 DEF RoomCreated
<1>5. CASE RoomFailed
  <2>1. queue' \in Seq(Events)
    BY <1>5, HandlesType DEF RoomFailed
  <2>2. toApp' \in Seq(Messages)
    BY <1>5, ConcatProperties DEF RoomFailed, FailureMessage, Messages
  <2> QED BY <1>5, <2>1, <2>2 DEF RoomFailed, Messages
<1>6. CASE StartCamera \/ StopCamera
  <2>1. queue' \in Seq(Events)
    BY <1>6, HandlesType DEF StartCamera, StopCamera
  <2> QED BY ZenonT(60), <1>6, <2>1 DEF StartCamera, StopCamera
<1>7. CASE StartCapture \/ CapturePanics
  BY <1>7 DEF StartCapture, CapturePanics
<1> QED BY <1>1, <1>2, <1>3, <1>4, <1>5, <1>6, <1>7 DEF MainStep

LEMMA ServiceType ==
    ASSUME TypeOK, BranchesInUse, ServiceStep
    PROVE  TypeOK'
<1> USE DEF TypeOK, user, devices, worker, rooms
<1>1. CASE TakeCreateRoom \/ TakeDestroyRoom
  <2>1. commands' \in Seq(Commands) /\ attempt' \in 0..MaxCalls
    BY <1>1, TakesType DEF TakeCreateRoom, TakeDestroyRoom
  <2> QED BY <1>1, <2>1 DEF TakeCreateRoom, TakeDestroyRoom, Commands
<1>2. CASE CloseRooms
  BY <1>2, BoundsAssumption DEF CloseRooms
<1>3. CASE TakeSources
  BY <1>3 DEF TakeSources
<1>4. CASE \E k \in Kinds : Connects(k)
  <2> PICK k \in Kinds : Connects(k)
    BY <1>4
  <2>1. attempt \in Calls
    BY DEF Connects, BranchesInUse, Calls
  <2>2. branch' \in [Kinds -> Outcomes]
    BY DEF Connects, Outcomes
  <2> QED BY <2>1, <2>2 DEF Connects, Outcomes
<1>5. CASE \E k \in Kinds : ConnectFails(k) \/ ConnectCancelled(k)
  BY <1>5 DEF ConnectFails, ConnectCancelled
<1>6. CASE CleanUp
  BY <1>6 DEF CleanUp, NoBranch
<1>7. CASE GiveUp
  <2>1. Event("failed", attempt) \in Events
    BY EventType
  <2>2. queue' \in Seq(Events)
    BY <1>7, <2>1, AppendProperties DEF GiveUp
  <2> QED BY <1>7, <2>2 DEF GiveUp, NoBranch
<1>8. CASE Establish
  <2>1. Event("created", attempt) \in Events
    BY EventType
  <2>2. queue' \in Seq(Events)
    BY <1>8, <2>1, AppendProperties DEF Establish
  <2>3. videoRoom' \in 0..MaxCalls
    BY <1>8, BoundsAssumption DEF Establish
  <2> QED BY <1>8, <2>2, <2>3 DEF Establish, NoBranch
<1> QED BY <1>1, <1>2, <1>3, <1>4, <1>5, <1>6, <1>7, <1>8 DEF ServiceStep

\* Every variable keeps its type; that an open connection is of a call needs that an
\* attempt with branches is of one.
THEOREM TypeCorrect == Spec => []TypeOK
<1>1. TypeOK /\ ConnectionInvariant /\ [Next]_vars => TypeOK'
  <2> SUFFICES ASSUME TypeOK, ConnectionInvariant, [Next]_vars
               PROVE  TypeOK'
    OBVIOUS
  <2>1. CASE UNCHANGED vars
    BY <2>1 DEF vars, user, devices, worker, rooms, TypeOK
  <2> QED BY <2>1, UserType, MainType, ServiceType DEF Next, ConnectionInvariant
<1> QED BY <1>1, InitType, InvariantHolds, PTL DEF Spec

--------------------------------------------------------------------------------
(* Types of the cursors. *)

Labels == {"idle", "drop", "sharer", "hide", "render", "window"}
LoopStates == [at : Labels, who : Controllers \cup {None}, then : {"idle", "window"}]

LEMMA AtType ==
  ASSUME NEW l \in Labels, NEW w \in Controllers \cup {None}, NEW t \in {"idle", "window"}
  PROVE  At(l, w, t) \in LoopStates
  BY DEF At, LoopStates

LEMMA IdleType == Idle \in LoopStates
  BY AtType DEF Idle, Labels

LEMMA CursorModeType == \A d \in DrawingModes : CursorModeFor(d) \in CursorModes \cup {None}
  BY DEF DrawingModes, CursorModeFor, CursorModes

LEMMA CoercedType == \A m \in CursorModes : Coerced(m) \in CursorModes
  BY DEF Coerced, CursorModes

LEMMA CursorInitType == CursorInit => CursorTypeOK
  <1> SUFFICES ASSUME CursorInit PROVE CursorTypeOK
    OBVIOUS
  <1>1. /\ mode \in [Controllers -> CursorModes]
        /\ cached \in [Controllers -> CursorModes \cup {None}]
        /\ drawMode \in [Controllers -> DrawingModes]
    BY DEF CursorInit, CursorModes, DrawingModes
  <1>2. eventLoop \in LoopStates
    BY IdleType DEF CursorInit
  <1> QED BY <1>1, <1>2 DEF CursorInit, CursorTypeOK, LoopStates, Labels

LEMMA SetEnabledType ==
  ASSUME CursorTypeOK, NEW e \in BOOLEAN, NEW t \in {"idle", "window"}, SetEnabled(e, t)
  PROVE  /\ enabled' \in BOOLEAN /\ present' = present /\ inControl' = {}
         /\ mode' \in [Controllers -> CursorModes]
         /\ cached' \in [Controllers -> CursorModes \cup {None}]
         /\ drawMode' = drawMode /\ sharerControl' = sharerControl /\ announced' = announced
         /\ sharerLock' = sharerLock /\ cursorsLock' = cursorsLock
         /\ eventLoop' \in LoopStates /\ tap' = tap /\ placed' = placed
  <1>1. mode' \in [Controllers -> CursorModes]
    BY CoercedType DEF SetEnabled, CursorTypeOK
  <1>2. cached' \in [Controllers -> CursorModes \cup {None}]
    BY DEF SetEnabled, CursorTypeOK
  <1>3. eventLoop' \in LoopStates
    BY AtType DEF SetEnabled, Labels
  <1> QED BY <1>1, <1>2, <1>3 DEF SetEnabled, locks

LEMMA OverlayType ==
  ASSUME NEW e \in BOOLEAN, NEW P \in SUBSET Controllers,
         NEW dm \in [Controllers -> DrawingModes], CreateOverlay(e, P, dm)
  PROVE  /\ enabled' \in BOOLEAN /\ present' \in SUBSET Controllers /\ inControl' = {}
         /\ mode' \in [Controllers -> CursorModes]
         /\ cached' \in [Controllers -> CursorModes \cup {None}]
         /\ drawMode' \in [Controllers -> DrawingModes]
         /\ sharerControl' = TRUE /\ sharerLock' = None /\ cursorsLock' = None /\ tap' = "idle"
  <1> DEFINE logical == [c \in Controllers |->
                           IF SetsCursorMode(dm[c]) THEN CursorModeFor(dm[c]) ELSE "Normal"]
  <1>1. logical \in [Controllers -> CursorModes]
    BY CursorModeType DEF SetsCursorMode, CursorModes
  <1>2. /\ mode' = [c \in Controllers |-> IF e THEN logical[c] ELSE Coerced(logical[c])]
        /\ cached' = [c \in Controllers |-> IF e THEN None ELSE logical[c]]
    BY DEF CreateOverlay
  <1> HIDE DEF logical
  <1>3. mode' \in [Controllers -> CursorModes] /\ cached' \in [Controllers -> CursorModes \cup {None}]
    BY <1>1, <1>2, CoercedType
  <1> QED BY <1>3 DEF CreateOverlay

LEMMA CursorNextType == CursorTypeOK /\ [CursorNext]_cursorVars => CursorTypeOK'
  <1> SUFFICES ASSUME CursorTypeOK, [CursorNext]_cursorVars PROVE CursorTypeOK'
    OBVIOUS
  <1> USE DEF CursorTypeOK, settings, modes, control, locks
  <1>0. eventLoop \in LoopStates
    BY DEF LoopStates, Labels
  <1>1. CASE DropCursors
    <2>1. eventLoop' \in LoopStates
      BY <1>0, <1>1 DEF DropCursors, LoopStates, Labels
    <2> QED BY <1>1, <2>1 DEF DropCursors, LoopStates, Labels
  <1>16. CASE ShowSharer \/ RenderLocksCursors \/ DrawingWindowOpens
    <2>1. eventLoop' \in LoopStates
      BY <1>16, IdleType DEF ShowSharer, RenderLocksCursors, DrawingWindowOpens
    <2>2. eventLoop.who \in Controllers \cup {None}
      BY <1>0 DEF LoopStates
    <2> QED
      BY ZenonT(60), <1>16, <2>1, <2>2 DEF ShowSharer, RenderLocksCursors, DrawingWindowOpens, LoopStates, Labels
  <1>2. CASE HideSharer
    <2>1. eventLoop' \in LoopStates
      BY <1>0, <1>2, AtType DEF HideSharer, LoopStates, Labels
    <2> QED BY <1>2, <2>1 DEF HideSharer, LoopStates, Labels
  <1>3. CASE DrawingWindowFails
    BY <1>3, SetEnabledType DEF DrawingWindowFails, LoopStates, Labels
  <1>4. CASE ChangeNothing \/ RenderLocksSharer
    <2>1. eventLoop' \in LoopStates
      BY <1>4, AtType DEF ChangeNothing, RenderLocksSharer, Labels
    <2> QED BY <1>4, <2>1 DEF ChangeNothing, RenderLocksSharer, LoopStates, Labels
  <1>5. CASE StartDrawing \/ StopDrawing
    BY <1>5, SetEnabledType DEF StartDrawing, StopDrawing, LoopStates, Labels
  <1>6. CASE StopScreenshare
    BY <1>6 DEF StopScreenshare, NoRemoteControl
  <1>7. ASSUME NEW e \in BOOLEAN, ControllerCursorEnabled(e) PROVE CursorTypeOK'
    <2>1. CASE sharing /\ ~drawing
      BY <1>7, <2>1, SetEnabledType DEF ControllerCursorEnabled, LoopStates, Labels
    <2>2. CASE ~(sharing /\ ~drawing)
      BY <1>7, <2>2 DEF ControllerCursorEnabled
    <2> QED BY <2>1, <2>2
  <1>8. ASSUME NEW c \in Controllers, TakeControl(c) PROVE CursorTypeOK'
    <2>1. eventLoop' \in LoopStates
      BY <1>8, AtType DEF TakeControl, Labels
    <2> QED BY <1>8, <2>1 DEF TakeControl, OnlyInControl, LoopStates, Labels
  <1>9. ASSUME NEW c \in Controllers, AddController(c) PROVE CursorTypeOK'
    BY <1>9 DEF AddController, JoinMode, Coerced, CursorModes, DrawingModes
  <1>10. ASSUME NEW c \in Controllers, RemoveController(c) PROVE CursorTypeOK'
    BY <1>10 DEF RemoveController
  <1>11. ASSUME NEW c \in Controllers, NEW d \in DrawingModes, ParticipantDrawingMode(c, d)
         PROVE  CursorTypeOK'
    <2>1. CASE SetsCursorMode(d)
      <3> DEFINE m == CursorModeFor(d)
      <3>1. m \in CursorModes
        BY <2>1, CursorModeType DEF SetsCursorMode
      <3>2. eventLoop' \in LoopStates
        BY <1>11, <2>1, AtType, IdleType DEF ParticipantDrawingMode, Labels
      <3>3. /\ mode' = [mode EXCEPT ![c] = IF cached[c] = None THEN m ELSE Coerced(m)]
            /\ cached' = [cached EXCEPT ![c] = IF cached[c] = None THEN None ELSE m]
            /\ inControl' = inControl \ {c}
        BY <1>11, <2>1 DEF ParticipantDrawingMode
      <3> HIDE DEF m
      <3>4. mode' \in [Controllers -> CursorModes] /\ cached' \in [Controllers -> CursorModes \cup {None}]
        BY <3>1, <3>3, CoercedType
      <3> QED BY <1>11, <3>2, <3>3, <3>4 DEF ParticipantDrawingMode, LoopStates, Labels
    <2>2. CASE ~SetsCursorMode(d)
      BY <1>11, <2>2 DEF ParticipantDrawingMode
    <2> QED BY <2>1, <2>2
  <1>12. ASSUME NEW P \in SUBSET Controllers, Screenshare(P) PROVE CursorTypeOK'
    <2>1. [c \in Controllers |-> "Disabled"] \in [Controllers -> DrawingModes]
      BY DEF DrawingModes
    <2> QED BY <1>12, <2>1, OverlayType DEF Screenshare
  <1>13. ASSUME NEW P \in SUBSET Controllers, RepairOverlay(P) PROVE CursorTypeOK'
    <2> DEFINE dm == [c \in Controllers |-> IF c \in P \cap present THEN drawMode[c] ELSE "Disabled"]
    <2>1. dm \in [Controllers -> DrawingModes]
      BY DEF DrawingModes
    <2>2. CreateOverlay(pref /\ ~drawing, P, dm)
      BY <1>13 DEF RepairOverlay
    <2>3. (pref /\ ~drawing) \in BOOLEAN
      OBVIOUS
    <2> HIDE DEF dm
    <2> QED BY <1>13, <2>1, <2>2, <2>3, OverlayType DEF RepairOverlay
  <1>14. CASE TapTakesBack \/ TapShowsControllers \/ FrameChanges
    BY ZenonT(60), <1>14 DEF TapTakesBack, TapShowsControllers, FrameChanges, Sharer
  <1>17. CASE DrawingWindowCloses
    <2>1. eventLoop' \in LoopStates
      BY <1>0, <1>17 DEF DrawingWindowCloses
    <2> QED BY <1>17, <2>1 DEF DrawingWindowCloses, LoopStates, Labels
  <1>15. CASE UNCHANGED cursorVars
    BY <1>15 DEF cursorVars
  <1> QED
    BY <1>1, <1>2, <1>3, <1>4, <1>5, <1>6, <1>7, <1>8, <1>9, <1>10, <1>11, <1>12, <1>13, <1>14, <1>15, <1>16, <1>17
       DEF CursorNext, MainStarts, MainContinues

\* Every variable keeps the shape the code gives it.
THEOREM CursorTypeCorrect == CursorSpec => []CursorTypeOK
  BY CursorInitType, CursorNextType, PTL DEF CursorSpec

--------------------------------------------------------------------------------
(* ControlIsExclusive speaks of the states where neither thread is in the middle *)
(* of a change.  The invariant says what excuses a controller in control that    *)
(* the sharer or the room does not know of: the handler that gave it control has *)
(* yet to lock sharer_cursor, or the observer is about to take control away.     *)

Claims(c) == eventLoop.at \in {"drop", "sharer"} /\ eventLoop.who = c

Known(c) == ~sharerControl /\ announced = c

ControlInvariant ==
    /\ \A c, d \in inControl : c = d
    /\ \A c \in inControl : Known(c) \/ Claims(c) \/ tap = "show"
    /\ \A c \in Controllers : Claims(c) => inControl \subseteq {c}
    /\ eventLoop.at = "hide" => inControl = {}
    /\ tap = "show" => sharerLock = "tap"
    /\ eventLoop.at = "render" => sharerLock = "eventLoop"

LEMMA AtFields ==
  ASSUME NEW l, NEW w, NEW t
  PROVE  At(l, w, t).at = l /\ At(l, w, t).who = w
  BY DEF At

LEMMA IdleClaimsNothing == Idle.at = "idle"
  BY AtFields DEF Idle

LEMMA SetEnabledControl ==
  ASSUME CursorTypeOK, ControlInvariant, NEW e \in BOOLEAN, NEW t \in {"idle", "window"}, SetEnabled(e, t)
  PROVE  ControlInvariant'
  <1>1. inControl' = {} /\ tap' = tap /\ sharerLock' = sharerLock
    BY DEF SetEnabled, locks
  <1>2. eventLoop'.at \in {"idle", "window", "hide"}
    BY AtFields DEF SetEnabled
  <1> QED BY <1>1, <1>2 DEF ControlInvariant, Claims

LEMMA NextControl == CursorTypeOK /\ ControlInvariant /\ [CursorNext]_cursorVars => ControlInvariant'
  <1> SUFFICES ASSUME CursorTypeOK, ControlInvariant, [CursorNext]_cursorVars PROVE ControlInvariant'
    OBVIOUS
  <1> USE ConstantsAssumption, AtFields, IdleClaimsNothing
      DEF settings, modes, control, locks, Claims, Known
  <1>1. CASE DropCursors
    <2>1. eventLoop'.at = "sharer" /\ eventLoop'.who = eventLoop.who
      BY <1>1 DEF DropCursors, CursorTypeOK
    <2> QED BY <1>1, <2>1 DEF DropCursors, ControlInvariant
  <1>2. CASE ShowSharer
    <2>1. CASE eventLoop.who = None
      BY <1>2, <2>1 DEF ShowSharer, ControlInvariant, CursorTypeOK
    <2>2. CASE eventLoop.who # None
      <3>1. eventLoop.who \in Controllers /\ inControl \subseteq {eventLoop.who}
        BY <1>2, <2>2 DEF ShowSharer, ControlInvariant, CursorTypeOK
      <3> QED BY <1>2, <2>2, <3>1 DEF ShowSharer, ControlInvariant
    <2> QED BY <2>1, <2>2
  <1>3. CASE HideSharer
    <2>1. inControl = {} /\ eventLoop'.at \in {"idle", "window"}
      BY <1>3 DEF HideSharer, ControlInvariant, CursorTypeOK
    <2> QED BY <1>3, <2>1 DEF HideSharer, ControlInvariant
  <1>4. CASE RenderLocksCursors \/ DrawingWindowOpens
    <2>1. eventLoop.at \in {"render", "window"} /\ eventLoop'.at = "idle"
      BY <1>4 DEF RenderLocksCursors, DrawingWindowOpens
    <2>2. CASE DrawingWindowOpens
      BY <2>1, <2>2 DEF DrawingWindowOpens, ControlInvariant
    <2>3. CASE RenderLocksCursors
      BY <2>1, <2>3 DEF RenderLocksCursors, ControlInvariant
    <2> QED BY <1>4, <2>2, <2>3
  <1>5. CASE DrawingWindowFails \/ StartDrawing \/ StopDrawing
    <2>1. pref \in BOOLEAN
      BY DEF CursorTypeOK
    <2>2. SetEnabled(pref, "idle") \/ SetEnabled(FALSE, "window")
      BY <1>5 DEF DrawingWindowFails, StartDrawing, StopDrawing
    <2> QED BY <2>1, <2>2, SetEnabledControl
  <1>6. ASSUME NEW e \in BOOLEAN, ControllerCursorEnabled(e) PROVE ControlInvariant'
    BY <1>6, SetEnabledControl DEF ControllerCursorEnabled, ControlInvariant
  <1>7. CASE ChangeNothing \/ RenderLocksSharer
    BY <1>7 DEF ChangeNothing, RenderLocksSharer, ControlInvariant, CursorTypeOK
  <1>8. ASSUME NEW c \in Controllers, TakeControl(c) PROVE ControlInvariant'
    BY <1>8 DEF TakeControl, OnlyInControl, ControlInvariant
  <1>9. ASSUME NEW c \in Controllers, AddController(c) \/ RemoveController(c)
        PROVE  ControlInvariant'
    BY <1>9 DEF AddController, RemoveController, ControlInvariant
  <1>10. ASSUME NEW c \in Controllers, NEW d \in DrawingModes, ParticipantDrawingMode(c, d)
         PROVE  ControlInvariant'
    <2>1. CASE c \in inControl /\ SetsCursorMode(d)
      <3>1. inControl' = {} /\ eventLoop'.at = "hide"
        BY <1>10, <2>1 DEF ParticipantDrawingMode, ControlInvariant
      <3> QED BY <1>10, <3>1 DEF ParticipantDrawingMode, ControlInvariant
    <2>2. CASE ~(c \in inControl /\ SetsCursorMode(d))
      <3>1. inControl' = inControl /\ eventLoop' = eventLoop
        <4>1. CASE SetsCursorMode(d)
          <5>1. c \notin inControl
            BY <2>2, <4>1
          <5>2. inControl' = inControl \ {c} /\ eventLoop' = Idle /\ eventLoop = Idle
            BY <1>10, <4>1, <5>1 DEF ParticipantDrawingMode
          <5>3. inControl \ {c} = inControl
            BY <5>1
          <5> QED BY <5>2, <5>3
        <4>2. CASE ~SetsCursorMode(d)
          BY <1>10, <4>2 DEF ParticipantDrawingMode
        <4> QED BY <4>1, <4>2
      <3> QED BY <1>10, <3>1 DEF ParticipantDrawingMode, ControlInvariant
    <2> QED BY <2>1, <2>2
  <1>11. CASE StopScreenshare
    BY <1>11 DEF StopScreenshare, NoRemoteControl, ControlInvariant
  <1>12. ASSUME NEW P \in SUBSET Controllers, Screenshare(P) \/ RepairOverlay(P)
         PROVE  ControlInvariant'
    <2>1. inControl' = {} /\ tap' = "idle" /\ sharerLock' = None /\ eventLoop'.at = "idle"
      BY <1>12 DEF Screenshare, RepairOverlay, CreateOverlay
    <2> QED BY <2>1 DEF ControlInvariant
  <1>13. CASE TapTakesBack \/ TapShowsControllers
    BY <1>13 DEF TapTakesBack, TapShowsControllers, ControlInvariant
  <1>14. CASE FrameChanges \/ UNCHANGED cursorVars
    BY <1>14 DEF FrameChanges, cursorVars, ControlInvariant
  <1>15. CASE DrawingWindowCloses
    BY <1>15 DEF DrawingWindowCloses, ControlInvariant
  <1> QED
    BY <1>1, <1>2, <1>3, <1>4, <1>5, <1>6, <1>7, <1>8, <1>9, <1>10, <1>11, <1>12, <1>13, <1>14, <1>15
       DEF CursorNext, MainStarts, MainContinues

\* Two controllers never have control, and outside a change the one that has it is
\* the one announced and the sharer has not, for any number of controllers.
THEOREM ExclusiveControl == CursorSpec => []ControlIsExclusive
  <1>1. CursorInit => ControlInvariant
    BY IdleClaimsNothing, ConstantsAssumption DEF CursorInit, ControlInvariant, Claims
  <1>2. ControlInvariant => ControlIsExclusive
    BY IdleClaimsNothing DEF ControlInvariant, ControlIsExclusive, Claims, Known
  <1> QED BY <1>1, <1>2, NextControl, CursorTypeCorrect, PTL DEF CursorSpec

--------------------------------------------------------------------------------
(* DisabledBlocks speaks of the states between two handlers.  The invariant holds  *)
(* within them too: from the moment drawing begins until its window opens or fails *)
(* the controllers are disabled, and a disabled cursor has its logical mode cached. *)

ModesInvariant ==
    sharing =>
      /\ enabled => pref /\ ~drawing
      /\ eventLoop.at = "window" \/ eventLoop.then = "window" => ~enabled /\ ~drawing
      /\ ~enabled => inControl = {} /\ \A c \in present : mode[c] # "Normal" /\ cached[c] # None
      /\ \A c \in present : SetsCursorMode(drawMode[c]) => Logical(c) = CursorModeFor(drawMode[c])

LEMMA AtThen ==
  ASSUME NEW l, NEW w, NEW t
  PROVE  At(l, w, t).at = l /\ At(l, w, t).then = t
  BY DEF At

LEMMA IdleWaitsForNoWindow == Idle.at = "idle" /\ Idle.then = "idle"
  BY AtThen DEF Idle

LEMMA CoercedIsNotNormal == \A m \in CursorModes : Coerced(m) # "Normal"
  BY DEF Coerced, CursorModes

\* Enabling and disabling leave each logical mode as it was.
LEMMA SetEnabledKeepsModes ==
  ASSUME CursorTypeOK, NEW e \in BOOLEAN, NEW t, SetEnabled(e, t)
  PROVE  \A c \in present : /\ ~e => mode'[c] # "Normal" /\ cached'[c] # None
                            /\ Logical(c)' = Logical(c)
  <1> SUFFICES ASSUME NEW c \in present
               PROVE  /\ ~e => mode'[c] # "Normal" /\ cached'[c] # None
                      /\ Logical(c)' = Logical(c)
    OBVIOUS
  <1>1. c \in Controllers /\ mode[c] \in CursorModes /\ cached[c] \in CursorModes \cup {None}
    BY DEF CursorTypeOK
  <1>2. mode'[c] = IF ~e THEN Coerced(mode[c])
                   ELSE IF cached[c] # None THEN cached[c] ELSE mode[c]
    BY <1>1 DEF SetEnabled
  <1>3. cached'[c] = IF e THEN None ELSE IF cached[c] = None THEN mode[c] ELSE cached[c]
    BY <1>1 DEF SetEnabled
  <1>4. None \notin CursorModes
    BY ConstantsAssumption
  <1> QED BY <1>1, <1>2, <1>3, <1>4, CoercedIsNotNormal DEF Logical

LEMMA SetEnabledModes ==
  ASSUME CursorTypeOK, ModesInvariant, NEW e \in BOOLEAN, NEW t \in {"idle", "window"},
         SetEnabled(e, t), sharing' = sharing,
         e => pref' /\ ~drawing',
         t = "window" => ~e /\ ~drawing'
  PROVE  ModesInvariant'
  <1>1. enabled' = e /\ inControl' = {} /\ present' = present /\ drawMode' = drawMode
    BY DEF SetEnabled
  <1>2. eventLoop'.at = "window" \/ eventLoop'.then = "window" => t = "window"
    BY AtThen DEF SetEnabled
  <1>3. \A c \in present : /\ ~e => mode'[c] # "Normal" /\ cached'[c] # None
                           /\ Logical(c)' = Logical(c)
    BY SetEnabledKeepsModes
  <1> QED BY <1>1, <1>2, <1>3 DEF ModesInvariant

LEMMA CreateOverlayModes ==
  ASSUME NEW e \in BOOLEAN, NEW P \in SUBSET Controllers, NEW dm \in [Controllers -> DrawingModes],
         CreateOverlay(e, P, dm)
  PROVE  /\ enabled' = e /\ inControl' = {} /\ present' = P
         /\ ~e => \A c \in P : mode'[c] # "Normal" /\ cached'[c] # None
         /\ \A c \in P : SetsCursorMode(drawMode'[c]) => Logical(c)' = CursorModeFor(drawMode'[c])
  <1> DEFINE logical(c) == IF SetsCursorMode(dm[c]) THEN CursorModeFor(dm[c]) ELSE "Normal"
  <1>1. enabled' = e /\ inControl' = {} /\ present' = P /\ drawMode' = dm
    BY DEF CreateOverlay
  <1>2. \A c \in P : mode'[c] = IF e THEN logical(c) ELSE Coerced(logical(c))
    BY DEF CreateOverlay
  <1>3. \A c \in P : cached'[c] = IF e THEN None ELSE logical(c)
    BY DEF CreateOverlay
  <1>4. \A c \in P : logical(c) \in CursorModes
    BY CursorModeType DEF SetsCursorMode, CursorModes
  <1>5. None \notin CursorModes
    BY ConstantsAssumption
  <1>6. ASSUME ~e, NEW c \in P PROVE mode'[c] # "Normal" /\ cached'[c] # None
    BY <1>2, <1>3, <1>4, <1>5, <1>6, CoercedIsNotNormal
  <1>7. ASSUME NEW c \in P, SetsCursorMode(drawMode'[c])
        PROVE  Logical(c)' = CursorModeFor(drawMode'[c])
    <2>1. logical(c) = CursorModeFor(drawMode'[c])
      BY <1>1, <1>7
    <2>2. Logical(c)' = logical(c)
      BY <1>2, <1>3, <1>4, <1>5 DEF Logical
    <2> QED BY <2>1, <2>2
  <1> QED BY <1>1, <1>6, <1>7

LEMMA NextModes == CursorTypeOK /\ ModesInvariant /\ [CursorNext]_cursorVars => ModesInvariant'
  <1> SUFFICES ASSUME CursorTypeOK, ModesInvariant, [CursorNext]_cursorVars PROVE ModesInvariant'
    OBVIOUS
  <1> USE ConstantsAssumption, AtThen, IdleWaitsForNoWindow
      DEF settings, modes, control, locks
  <1>1. CASE DropCursors
    <2>1. eventLoop'.at = "sharer" /\ eventLoop'.then = eventLoop.then
      BY <1>1 DEF DropCursors, CursorTypeOK
    <2> QED BY <1>1, <2>1 DEF DropCursors, ModesInvariant, Logical
  <1>2. CASE ShowSharer \/ RenderLocksCursors
    BY <1>2 DEF ShowSharer, RenderLocksCursors, ModesInvariant, Logical
  <1>3. CASE HideSharer
    <2>1. eventLoop'.at = eventLoop.then /\ eventLoop'.then = "idle"
      BY <1>3 DEF HideSharer
    <2> QED BY <1>3, <2>1 DEF HideSharer, ModesInvariant, Logical
  <1>4. CASE DrawingWindowOpens
    BY <1>4 DEF DrawingWindowOpens, ModesInvariant, Logical
  <1>5. CASE DrawingWindowFails
    <2>1. SetEnabled(pref, "idle") /\ UNCHANGED settings /\ eventLoop.at = "window" /\ pref \in BOOLEAN
      BY <1>5 DEF DrawingWindowFails, CursorTypeOK
    <2>2. CASE sharing
      <3>1. ~drawing
        BY <2>1, <2>2 DEF ModesInvariant
      <3> QED BY <2>1, <3>1, SetEnabledModes
    <2>3. CASE ~sharing
      BY <2>1, <2>3 DEF ModesInvariant
    <2> QED BY <2>2, <2>3
  <1>6. CASE StartDrawing
    BY <1>6, SetEnabledModes DEF StartDrawing
  <1>7. CASE StopDrawing
    <2>1. SetEnabled(pref, "idle") /\ sharing' = sharing /\ pref' = pref /\ drawing' = FALSE
      BY <1>7 DEF StopDrawing
    <2>2. pref \in BOOLEAN
      BY DEF CursorTypeOK
    <2> QED BY <2>1, <2>2, SetEnabledModes
  <1>8. CASE ChangeNothing \/ RenderLocksSharer
    <2>1. eventLoop'.at \in {"drop", "render"} /\ eventLoop'.then = "idle"
      BY <1>8 DEF ChangeNothing, RenderLocksSharer
    <2>2. UNCHANGED <<settings, modes, control>>
      BY <1>8 DEF ChangeNothing, RenderLocksSharer
    <2> QED BY <2>1, <2>2 DEF ModesInvariant, Logical
  <1>9. CASE DrawingWindowCloses
    BY <1>9 DEF DrawingWindowCloses, ModesInvariant, Logical
  <1>10. ASSUME NEW e \in BOOLEAN, ControllerCursorEnabled(e) PROVE ModesInvariant'
    <2>1. CASE sharing /\ ~drawing
      BY <1>10, <2>1, SetEnabledModes DEF ControllerCursorEnabled
    <2>2. CASE sharing /\ drawing
      <3>1. ~enabled
        BY <2>2 DEF ModesInvariant
      <3> QED BY <1>10, <2>2, <3>1 DEF ControllerCursorEnabled, ModesInvariant, Logical
    <2>3. CASE ~sharing
      BY <1>10, <2>3 DEF ControllerCursorEnabled, ModesInvariant
    <2> QED BY <2>1, <2>2, <2>3 DEF CursorTypeOK
  <1>11. ASSUME NEW c \in Controllers, TakeControl(c) PROVE ModesInvariant'
    <2>1. enabled
      BY <1>11 DEF TakeControl, ModesInvariant, CursorTypeOK
    <2> QED BY <1>11, <2>1 DEF TakeControl, ModesInvariant, Logical
  <1>12. ASSUME NEW c \in Controllers, AddController(c) PROVE ModesInvariant'
    <2>1. JoinMode(enabled) = IF enabled THEN <<"Normal", None>> ELSE <<"Pointer", "Normal">>
      BY DEF JoinMode, Coerced
    <2>2. /\ mode'[c] = JoinMode(enabled)[1] /\ cached'[c] = JoinMode(enabled)[2]
          /\ drawMode'[c] = "Disabled"
      BY <1>12 DEF AddController, CursorTypeOK
    <2>3. \A d \in present : mode'[d] = mode[d] /\ cached'[d] = cached[d] /\ drawMode'[d] = drawMode[d]
      BY <1>12 DEF AddController, CursorTypeOK
    <2>4. CursorModeFor("Disabled") = "Normal"
      BY DEF CursorModeFor
    <2>5. Logical(c)' = "Normal" /\ (~enabled => mode'[c] # "Normal" /\ cached'[c] # None)
      BY <2>1, <2>2 DEF Logical, CursorModes
    <2>6. \A d \in present : Logical(d)' = Logical(d)
      BY <2>3 DEF Logical
    <2>7. /\ sharing /\ present' = present \cup {c}
          /\ UNCHANGED <<sharing, enabled, pref, drawing, inControl, eventLoop>>
      BY <1>12 DEF AddController
    <2> QED BY <2>2, <2>3, <2>4, <2>5, <2>6, <2>7 DEF ModesInvariant
  <1>13. ASSUME NEW c \in Controllers, RemoveController(c) PROVE ModesInvariant'
    BY <1>13 DEF RemoveController, ModesInvariant, Logical
  <1>14. ASSUME NEW c \in Controllers, NEW d \in DrawingModes, ParticipantDrawingMode(c, d)
         PROVE  ModesInvariant'
    <2>1. /\ sharing /\ c \in present /\ drawMode' = [drawMode EXCEPT ![c] = d]
          /\ UNCHANGED <<sharing, enabled, pref, drawing, present>>
      BY <1>14 DEF ParticipantDrawingMode
    <2>2. CASE SetsCursorMode(d)
      <3> DEFINE m == CursorModeFor(d)
      <3>1. m \in CursorModes
        BY <2>2, CursorModeType DEF SetsCursorMode
      <3>2. /\ mode' = [mode EXCEPT ![c] = IF cached[c] = None THEN m ELSE Coerced(m)]
            /\ cached' = [cached EXCEPT ![c] = IF cached[c] = None THEN None ELSE m]
            /\ inControl' = inControl \ {c}
            /\ eventLoop' = (IF c \in inControl THEN At("hide", None, "idle") ELSE Idle)
        BY <1>14, <2>2 DEF ParticipantDrawingMode
      <3>3. eventLoop'.at # "window" /\ eventLoop'.then # "window"
        BY <3>2
      <3>4. /\ mode'[c] = IF cached[c] = None THEN m ELSE Coerced(m)
            /\ cached'[c] = IF cached[c] = None THEN None ELSE m
        BY <3>2 DEF CursorTypeOK
      <3>5. \A p \in present \ {c} :
              mode'[p] = mode[p] /\ cached'[p] = cached[p] /\ drawMode'[p] = drawMode[p]
        BY <2>1, <3>2 DEF CursorTypeOK
      <3>6. Logical(c)' = m /\ drawMode'[c] = d
        BY <2>1, <3>1, <3>4 DEF Logical, CursorTypeOK
      <3>7. cached[c] # None => mode'[c] # "Normal" /\ cached'[c] # None
        BY <3>1, <3>4, CoercedIsNotNormal
      <3>8. \A p \in present \ {c} : Logical(p)' = Logical(p)
        BY <3>5 DEF Logical
      <3> QED BY <2>1, <3>2, <3>3, <3>5, <3>6, <3>7, <3>8 DEF ModesInvariant
    <2>3. CASE ~SetsCursorMode(d)
      <3>1. UNCHANGED <<mode, cached, inControl, eventLoop>>
        BY <1>14, <2>3 DEF ParticipantDrawingMode
      <3>2. drawMode'[c] = d /\ \A p \in present \ {c} : drawMode'[p] = drawMode[p]
        BY <2>1 DEF CursorTypeOK
      <3> QED BY <2>1, <2>3, <3>1, <3>2 DEF ModesInvariant, Logical
    <2> QED BY <2>2, <2>3
  <1>15. CASE StopScreenshare
    BY <1>15 DEF StopScreenshare, NoRemoteControl, ModesInvariant
  <1>16. ASSUME NEW P \in SUBSET Controllers, Screenshare(P) PROVE ModesInvariant'
    <2>1. /\ CreateOverlay(pref, P, [c \in Controllers |-> "Disabled"])
          /\ drawing' = FALSE /\ pref' = pref /\ eventLoop' = Idle /\ pref \in BOOLEAN
      BY <1>16 DEF Screenshare, CursorTypeOK
    <2>2. [c \in Controllers |-> "Disabled"] \in [Controllers -> DrawingModes]
      BY DEF DrawingModes
    <2>3. /\ enabled' = pref /\ inControl' = {} /\ present' = P
          /\ ~pref => \A c \in P : mode'[c] # "Normal" /\ cached'[c] # None
          /\ \A c \in P : SetsCursorMode(drawMode'[c]) => Logical(c)' = CursorModeFor(drawMode'[c])
      BY <2>1, <2>2, CreateOverlayModes
    <2> QED BY <2>1, <2>3 DEF ModesInvariant
  <1>17. ASSUME NEW P \in SUBSET Controllers, RepairOverlay(P) PROVE ModesInvariant'
    <2>1. [c \in Controllers |-> IF c \in P \cap present THEN drawMode[c] ELSE "Disabled"]
            \in [Controllers -> DrawingModes]
      BY DEF DrawingModes, CursorTypeOK
    <2>2. PICK e \in BOOLEAN, dm \in [Controllers -> DrawingModes] :
            e = (pref /\ ~drawing) /\ CreateOverlay(e, P, dm)
      BY <1>17, <2>1 DEF RepairOverlay, CursorTypeOK
    <2>3. /\ enabled' = e /\ inControl' = {} /\ present' = P
          /\ ~e => \A c \in P : mode'[c] # "Normal" /\ cached'[c] # None
          /\ \A c \in P : SetsCursorMode(drawMode'[c]) => Logical(c)' = CursorModeFor(drawMode'[c])
      BY <2>2, CreateOverlayModes
    <2>4. pref' = pref /\ drawing' = drawing /\ eventLoop' = Idle
      BY <1>17 DEF RepairOverlay
    <2> QED BY <2>2, <2>3, <2>4 DEF ModesInvariant
  <1>18. CASE TapTakesBack \/ TapShowsControllers
    BY <1>18 DEF TapTakesBack, TapShowsControllers, ModesInvariant, Logical
  <1>19. CASE FrameChanges \/ UNCHANGED cursorVars
    BY <1>19 DEF FrameChanges, cursorVars, ModesInvariant, Logical
  <1> QED
    BY <1>1, <1>2, <1>3, <1>4, <1>5, <1>6, <1>7, <1>8, <1>9, <1>10, <1>11, <1>12, <1>13, <1>14,
       <1>15, <1>16, <1>17, <1>18, <1>19
       DEF CursorNext, MainStarts, MainContinues

\* Whatever is disabled, drawn, repaired and restarted, and in whichever order: disabled
\* controllers have no control and cannot take it, and each cursor comes back to the mode
\* its participant chose, for any number of controllers.
THEOREM DisabledControllersAreBlocked == CursorSpec => []DisabledBlocks
  <1>1. CursorInit => ModesInvariant
    BY DEF CursorInit, ModesInvariant
  <1>2. ModesInvariant => DisabledBlocks
    BY DEF ModesInvariant, DisabledBlocks
  <1> QED BY <1>1, <1>2, NextModes, CursorTypeCorrect, PTL DEF CursorSpec

--------------------------------------------------------------------------------
(* Both parts. *)

\* Whichever part runs, every variable of the call and of the cursors has its type.
THEOREM CoreTypesCorrect == CoreSpec => []CoreTypeOK
  <1>1. CoreInit => Init /\ CursorInit
    BY DEF CoreInit
  <1>2. [CoreNext]_coreVars => [Next]_vars /\ [CursorNext]_cursorVars
    BY DEF CoreNext, coreVars
  <1>3. CoreSpec => Spec /\ CursorSpec
    BY <1>1, <1>2, PTL DEF CoreSpec, Spec, CursorSpec
  <1>4. TypeOK /\ CursorTypeOK => CoreTypeOK
    BY DEF CoreTypeOK
  <1> QED BY <1>3, <1>4, TypeCorrect, CursorTypeCorrect, PTL
==================================================================================
