-------------------------------- MODULE CoreCall --------------------------------
(***************************************************************************)
(* A call in the core process (core/src/lib.rs, core/src/room_service.rs): *)
(* the application and the call's windows ask for calls and for the camera *)
(* through the event loop's queue; the event loop hands rooms to the room  *)
(* service, an asynchronous task that takes its commands in order and      *)
(* connects a call's regular and video rooms in parallel.  The room        *)
(* service shares the camera's buffer source and the participants with the *)
(* event loop, and destroy_room reaches past its commands to cancel.       *)
(*                                                                         *)
(* The audio devices are one switch, the publications one source; the      *)
(* screen share is CursorControl's.  LiveKit is external: a connection is  *)
(* made, fails, times out or is dropped while it is being made.            *)
(***************************************************************************)
EXTENDS Naturals, Sequences

CONSTANTS
    MaxCalls,       \* bound: calls the user starts
    MaxRequests     \* bound: camera and hang-up requests outside endCall

ASSUME BoundsAssumption == MaxCalls \in Nat /\ MaxRequests \in Nat

Calls == 1..MaxCalls
Kinds == {"regular", "video"}

VARIABLES
    tokens,         \* the call whose tokens the application holds, or 0
    calls,          \* calls started
    requests,       \* requests made
    toApp,          \* messages of the core to the application
    queue,          \* the event loop's user events
    main,           \* the event loop: "idle", "capture" in StartCamera, "panicked"
    mic,            \* the microphone is captured and the audio player runs
    camera,         \* the camera is captured
    wantsCamera,    \* start_camera_on_call
    commands,       \* the room service's commands
    armed,          \* cancel_connect holds the senders of the current attempt
    service,        \* the room service: "idle", "clear", "take", "connect"
    attempt,        \* the call it creates rooms for, 0 when it destroys them
    branch,         \* the two connections of the attempt
    room,           \* the call whose regular room is held, or 0
    videoRoom,      \* the call whose video room is held, or 0
    source,         \* camera_buffer_source is there
    local,          \* participants has "local"
    connected       \* connections open at the LiveKit server

user == <<tokens, calls, requests>>
devices == <<mic, camera, wantsCamera>>
rooms == <<room, videoRoom, source, local, connected>>
worker == <<service, attempt, branch>>
vars == <<user, toApp, queue, main, devices, commands, armed, worker, rooms>>

Event(type, n) == [type |-> type, call |-> n]

--------------------------------------------------------------------------------
(* The application and the windows. *)

\* setCallTokens and call_started.
StartCall ==
    /\ tokens = 0 /\ calls < MaxCalls
    /\ calls' = calls + 1 /\ tokens' = calls'
    /\ queue' = Append(queue, Event("callStart", calls'))
    /\ UNCHANGED <<requests, toApp, main, devices, commands, armed, worker, rooms>>

\* useEndCall, from a button or because the core says so.
HangUp ==
    /\ tokens' = 0
    /\ queue' = Append(queue, Event("callEnd", 0))

EndCall ==
    /\ tokens # 0
    /\ HangUp
    /\ UNCHANGED <<calls, requests, toApp, main, devices, commands, armed, worker, rooms>>

\* A button of the application or of the camera window, or a shortcut: the camera
\* on or off, or the end of the call, which the application learns from the core.
Request(type) ==
    /\ tokens # 0 /\ requests < MaxRequests
    /\ requests' = requests + 1
    /\ queue' = Append(queue, Event(type, 0))
    /\ UNCHANGED <<tokens, calls, toApp, main, devices, commands, armed, worker, rooms>>

\* core_call_ended and core_room_connection_failed end the call the application is
\* in; a CallStartResult with an error clears its tokens in any case.
AppReceives ==
    /\ toApp # <<>>
    /\ toApp' = Tail(toApp)
    /\ IF tokens # 0 \/ Head(toApp) = "startFailed" THEN HangUp ELSE UNCHANGED <<tokens, queue>>
    /\ UNCHANGED <<calls, requests, main, devices, commands, armed, worker, rooms>>

--------------------------------------------------------------------------------
(* The event loop. *)

Handles(type) ==
    /\ main = "idle" /\ queue # <<>> /\ Head(queue).type = type
    /\ queue' = Tail(queue)

\* The audio devices start, the command is queued, and the camera may be to follow.
CallStart ==
    /\ Handles("callStart")
    /\ mic' = TRUE
    /\ wantsCamera' \in BOOLEAN
    /\ commands' = Append(commands, Event("create", Head(queue).call))
    /\ UNCHANGED <<user, toApp, main, camera, armed, worker, rooms>>

\* The player or the microphone does not start.
CallStartFails ==
    /\ Handles("callStart")
    /\ mic' = FALSE
    /\ toApp' = Append(toApp, "startFailed")
    /\ UNCHANGED <<user, main, camera, wantsCamera, commands, armed, worker, rooms>>

\* Mutant of DestroyRoom: the attempt in flight is cancelled, no room destroyed.
CancelOnly ==
    /\ armed' = FALSE
    /\ UNCHANGED commands

\* destroy_room: the senders are dropped at once, the command waits its turn.
DestroyRoom ==
    /\ armed' = FALSE
    /\ commands' = Append(commands, Event("destroy", 0))

CallEnd ==
    /\ Handles("callEnd")
    /\ mic' = FALSE /\ camera' = FALSE
    /\ DestroyRoom
    /\ toApp' = Append(toApp, "callEnded")
    /\ UNCHANGED <<user, main, wantsCamera, worker, rooms>>

\* CreateRoomResult(Ok): the camera is started by an event of its own.
RoomCreated ==
    /\ main = "idle" /\ queue # <<>> /\ Head(queue).type = "created"
    /\ queue' = IF wantsCamera THEN Append(Tail(queue), Event("startCamera", 0)) ELSE Tail(queue)
    /\ wantsCamera' = FALSE
    /\ UNCHANGED <<user, toApp, main, mic, camera, commands, armed, worker, rooms>>

\* Mutant of FailureMessage: the application is not told.
NoMessage == <<>>

FailureMessage == <<"roomFailed">>

\* CreateRoomResult(Err), whichever call it was for.
RoomFailed ==
    /\ Handles("failed")
    /\ mic' = FALSE
    /\ toApp' = toApp \o FailureMessage
    /\ UNCHANGED <<user, main, camera, wantsCamera, commands, armed, worker, rooms>>

\* StartCamera up to get_camera_buffer_source.
StartCamera ==
    /\ Handles("startCamera")
    /\ main' = IF source THEN "capture" ELSE "idle"
    /\ UNCHANGED <<user, toApp, devices, commands, armed, worker, rooms>>

\* local_camera_buffer_manager and start_capture, which may fail.
StartCapture ==
    /\ main = "capture" /\ local
    /\ main' = "idle"
    /\ camera' \in BOOLEAN
    /\ UNCHANGED <<user, toApp, queue, mic, wantsCamera, commands, armed, worker, rooms>>

\* "local participant info not found": the process ends.
CapturePanics ==
    /\ main = "capture" /\ ~local
    /\ main' = "panicked"
    /\ UNCHANGED <<user, toApp, queue, devices, commands, armed, worker, rooms>>

StopCamera ==
    /\ Handles("stopCamera")
    /\ camera' = FALSE
    /\ UNCHANGED <<user, toApp, main, mic, wantsCamera, commands, armed, worker, rooms>>

--------------------------------------------------------------------------------
(* The room service. *)

Takes(type) ==
    /\ service = "idle" /\ commands # <<>> /\ Head(commands).type = type
    /\ commands' = Tail(commands)
    /\ attempt' = Head(commands).call

NoBranch == [k \in Kinds |-> "none"]

\* CreateRoom arms the cancellation before it clears what the last call left.
TakeCreateRoom ==
    /\ Takes("create")
    /\ armed' = TRUE
    /\ service' = "clear"
    /\ UNCHANGED <<user, toApp, queue, main, devices, branch, rooms>>

TakeDestroyRoom ==
    /\ Takes("destroy")
    /\ service' = "clear"
    /\ UNCHANGED <<user, toApp, queue, main, devices, armed, branch, rooms>>

Held == {<<room, "regular">>, <<videoRoom, "video">>}

\* RoomServiceInner::clear: the rooms are closed ...
CloseRooms ==
    /\ service = "clear"
    /\ connected' = connected \ Held
    /\ room' = 0 /\ videoRoom' = 0
    /\ service' = "take"
    /\ UNCHANGED <<user, toApp, queue, main, devices, commands, armed, attempt, branch>>
    /\ UNCHANGED <<source, local>>

\* ... and then the sources and the participants go.
TakeSources ==
    /\ service = "take"
    /\ source' = FALSE /\ local' = FALSE
    /\ IF attempt = 0
       THEN service' = "idle" /\ UNCHANGED branch
       ELSE service' = "connect" /\ branch' = [k \in Kinds |-> "connecting"]
    /\ UNCHANGED <<user, toApp, queue, main, devices, commands, armed, attempt>>
    /\ UNCHANGED <<room, videoRoom, connected>>

\* A room is connected; the regular one with its camera track published, the source
\* of which is there from then on, or not.
Connects(k) ==
    /\ service = "connect" /\ branch[k] = "connecting"
    /\ branch' = [branch EXCEPT ![k] = "up"]
    /\ connected' = connected \cup {<<attempt, k>>}
    /\ source' \in IF k = "regular" THEN BOOLEAN ELSE {source}
    /\ UNCHANGED <<user, toApp, queue, main, devices, commands, armed, service, attempt>>
    /\ UNCHANGED <<room, videoRoom, local>>

\* Mutant of ConnectFails: a timeout has an outcome of its own.
ConnectTimesOut(k) ==
    /\ service = "connect" /\ branch[k] = "connecting"
    /\ branch' = [branch EXCEPT ![k] = "timedOut"]
    /\ UNCHANGED <<user, toApp, queue, main, devices, commands, armed, service, attempt, rooms>>

\* An error, or the 30 seconds are over.
ConnectFails(k) ==
    /\ service = "connect" /\ branch[k] = "connecting"
    /\ branch' = [branch EXCEPT ![k] = "failed"]
    /\ UNCHANGED <<user, toApp, queue, main, devices, commands, armed, service, attempt, rooms>>

\* The sender has been dropped.
ConnectCancelled(k) ==
    /\ service = "connect" /\ branch[k] = "connecting" /\ ~armed
    /\ branch' = [branch EXCEPT ![k] = "cancelled"]
    /\ UNCHANGED <<user, toApp, queue, main, devices, commands, armed, service, attempt, rooms>>

Joined == service = "connect" /\ \A k \in Kinds : branch[k] # "connecting"
Cancelled == \E k \in Kinds : branch[k] = "cancelled"

\* Mutant of Abandoned: the rooms that did connect are left open.
NothingClosed == {}

\* What an attempt without a result closes.
Abandoned == {attempt} \X Kinds

\* Either branch was cancelled: what did connect is closed, and no result is sent.
CleanUp ==
    /\ Joined /\ Cancelled
    /\ connected' = connected \ Abandoned
    /\ service' = "idle" /\ branch' = NoBranch
    /\ UNCHANGED <<user, toApp, queue, main, devices, commands, armed, attempt>>
    /\ UNCHANGED <<room, videoRoom, source, local>>

\* The regular room failed: so has the call.
GiveUp ==
    /\ Joined /\ ~Cancelled /\ branch["regular"] = "failed"
    /\ connected' = connected \ Abandoned
    /\ queue' = Append(queue, Event("failed", attempt))
    /\ service' = "idle" /\ branch' = NoBranch
    /\ UNCHANGED <<user, toApp, main, devices, commands, armed, attempt>>
    /\ UNCHANGED <<room, videoRoom, source, local>>

\* The call is on, with or without a video room.
Establish ==
    /\ Joined /\ ~Cancelled /\ branch["regular"] = "up"
    /\ local' = TRUE
    /\ room' = attempt
    /\ videoRoom' = IF branch["video"] = "up" THEN attempt ELSE 0
    /\ queue' = Append(queue, Event("created", attempt))
    /\ service' = "idle" /\ branch' = NoBranch
    /\ UNCHANGED <<user, toApp, main, devices, commands, armed, attempt, source, connected>>

--------------------------------------------------------------------------------
(* Specification. *)

Init ==
    /\ tokens = 0 /\ calls = 0 /\ requests = 0
    /\ toApp = <<>> /\ queue = <<>> /\ commands = <<>>
    /\ main = "idle" /\ mic = FALSE /\ camera = FALSE /\ wantsCamera = FALSE
    /\ armed = FALSE /\ service = "idle" /\ attempt = 0 /\ branch = NoBranch
    /\ room = 0 /\ videoRoom = 0 /\ source = FALSE /\ local = FALSE /\ connected = {}

UserActs == StartCall \/ EndCall \/ \E t \in {"startCamera", "stopCamera", "callEnd"} : Request(t)

MainStep ==
    \/ CallStart \/ CallStartFails \/ CallEnd \/ RoomCreated \/ RoomFailed
    \/ StartCamera \/ StartCapture \/ CapturePanics \/ StopCamera

ServiceStep ==
    \/ TakeCreateRoom \/ TakeDestroyRoom \/ CloseRooms \/ TakeSources
    \/ \E k \in Kinds : Connects(k) \/ ConnectFails(k) \/ ConnectCancelled(k)
    \/ CleanUp \/ GiveUp \/ Establish

\* Nothing happens in a core that has panicked.
Next == main # "panicked" /\ (UserActs \/ AppReceives \/ MainStep \/ ServiceStep)

Spec == Init /\ [][Next]_vars

\* The event loop, the room service's task, whose connections time out, and the
\* application's listeners all go on.  The user need do nothing.
Fairness == WF_vars(AppReceives) /\ WF_vars(MainStep) /\ WF_vars(ServiceStep)

FairSpec == Spec /\ Fairness

--------------------------------------------------------------------------------
(* Properties. *)

Events == [type : {"callStart", "callEnd", "created", "failed", "startCamera", "stopCamera"},
           call : 0..MaxCalls]

\* Every variable has the shape the code gives it.
TypeOK ==
    /\ tokens \in 0..MaxCalls /\ calls \in 0..MaxCalls /\ requests \in 0..MaxRequests
    /\ toApp \in Seq({"callEnded", "roomFailed", "startFailed"})
    /\ queue \in Seq(Events)
    /\ commands \in Seq([type : {"create", "destroy"}, call : 0..MaxCalls])
    /\ main \in {"idle", "capture", "panicked"}
    /\ mic \in BOOLEAN /\ camera \in BOOLEAN /\ wantsCamera \in BOOLEAN /\ armed \in BOOLEAN
    /\ service \in {"idle", "clear", "take", "connect"}
    /\ attempt \in 0..MaxCalls
    /\ branch \in [Kinds -> {"none", "connecting", "up", "failed", "cancelled"}]
    /\ room \in 0..MaxCalls /\ videoRoom \in 0..MaxCalls
    /\ source \in BOOLEAN /\ local \in BOOLEAN
    /\ connected \in SUBSET (Calls \X Kinds)

\* "clean up any room that did manage to connect before the cancellation was
\* observed": a connection is open only if the room service holds its room or is
\* about to, so that destroy_room can always close it, however an attempt ends.
NoConnectionLost ==
    connected = {r \in Held : r[1] # 0}
                \cup {<<attempt, k>> : k \in {kk \in Kinds : branch[kk] = "up"}}

\* "If a room already exists, it will be closed first": the core is never in the
\* rooms of two calls, and in a video room only with the regular one.
OneCallAtATime ==
    /\ \A r, s \in connected : r[1] = s[1]
    /\ service = "idle" => videoRoom \in {0, room}

\* The core is out of every room and captures no sound.
Quiet == connected = {} /\ ~mic

\* Once the application has no call, the core leaves all rooms and turns the
\* microphone off, wherever in the making of the call the hang-up came.
HangUpEndsAll == tokens = 0 ~> (tokens # 0 \/ Quiet \/ main = "panicked")

\* The call has its regular room and its sound.
Served(n) == room = n /\ mic

\* A call the application holds is served, or the application ends it: no failure,
\* stale result or hang-up of an earlier call leaves it waiting, or without sound.
NoCallIsForgotten ==
    \A n \in Calls :
        (tokens = n /\ ~Served(n)) ~> (tokens # n \/ Served(n) \/ main = "panicked")

\* "This should never happen": StartCamera finds the local participant.
CameraFindsLocal == main # "panicked"
================================================================================
