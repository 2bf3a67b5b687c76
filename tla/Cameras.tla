-------------------------------- MODULE Cameras --------------------------------
(***************************************************************************)
(* Cameras in a call, as one core shows them (core/src/room_service.rs,    *)
(* livekit/video.rs, livekit/participant.rs, lib.rs, camera/capturer.rs,   *)
(* camera/stream_nokhwa.rs).                                               *)
(*                                                                         *)
(* Each camera of another participant that is on has a stream, a task that *)
(* writes its pictures into the participant's buffer and keeps the         *)
(* buffer's flag "inactive" up to date; the task ends when the sender of   *)
(* its stop channel is used or dropped.  The own camera has a thread,      *)
(* which is told to stop and stops later.  The camera window is opened and *)
(* closed by events in the event loop's queue.                             *)
(*                                                                         *)
(* One call, in which nobody comes twice.                                  *)
(***************************************************************************)
EXTENDS Naturals, Sequences, FiniteSets

CONSTANTS
    Others,         \* the others
    Local,          \* the own participant
    Nobody,         \* no participant
    MaxInputs       \* bound: what the people do, and failures of the own camera

ASSUME CameraAssumption ==
    /\ IsFiniteSet(Others) /\ Local \notin Others
    /\ Nobody \notin Others \cup {Local} /\ MaxInputs \in Nat

VARIABLES
    there, came,    \* LiveKit: who is in the room, and who has been
    on,             \* LiveKit: whose camera is on
    inbox,          \* room events that handle_room_events has not handled
    starting,       \* whose stream it is starting
    panicked,       \* the task has panicked
    inRoom,         \* there is a room: clear() has not been called
    leaving,        \* DestroyRoom has been sent
    known,          \* the participants map, without "local"
    flags,          \* whose camera_active() is true
    pictures,       \* streams: [who, state], "running", "told" or "ended"
    stopper,        \* per participant, the stream its camera_stop_tx ends, or 0
    own,            \* threads of the own camera: as streams, or "failed"
    uiQueue,        \* user events that concern the camera window
    shown,          \* the camera window: "none", "hidden" or "shown"
    misread,        \* flags that were wrong have closed the window, or told it to close,
                    \* and it has not been opened since
    dismissed,      \* its user has closed it, or it could not be made, and it has not been
                    \* opened since
    inputs          \* inputs so far

livekitVars == <<there, came, on>>
taskVars == <<inbox, starting, panicked>>
streamVars == <<pictures, stopper>>
windowVars == <<uiQueue, shown, misread, dismissed>>
cameraVars == <<livekitVars, taskVars, inRoom, leaving, known, flags, streamVars, own, windowVars,
                inputs>>

Streaming(i) == pictures[i].state = "running"
Live(i) == pictures[i].state # "ended"

--------------------------------------------------------------------------------
(* The others, at LiveKit. *)

Input == inputs < MaxInputs /\ inputs' = inputs + 1
Elsewhere(events) ==
    /\ Input /\ inRoom
    /\ inbox' = inbox \o events
    /\ UNCHANGED <<starting, panicked, inRoom, leaving, known, flags, streamVars, own, windowVars>>

RoomEvent(type, p) == [type |-> type, who |-> p]

Appears(p) ==
    /\ p \notin came
    /\ there' = there \cup {p} /\ came' = came \cup {p}
    /\ \E set \in {{}, {p}} : on' = on \cup set
    /\ Elsewhere(<<RoomEvent("connected", p), RoomEvent("subscribed", p)>>)

CameraOn(p) ==
    /\ p \in there \ on
    /\ on' = on \cup {p}
    /\ Elsewhere(<<RoomEvent("unmuted", p)>>)
    /\ UNCHANGED <<there, came>>

CameraOff(p) ==
    /\ p \in on
    /\ on' = on \ {p}
    /\ Elsewhere(<<RoomEvent("muted", p)>>)
    /\ UNCHANGED <<there, came>>

Vanishes(p) ==
    /\ p \in there
    /\ there' = there \ {p} /\ on' = on \ {p}
    /\ Elsewhere(<<RoomEvent("unsubscribed", p), RoomEvent("disconnected", p)>>)
    /\ UNCHANGED came

--------------------------------------------------------------------------------
(* handle_room_events. *)

Takes(type, p) ==
    /\ ~panicked /\ starting = Nobody
    /\ inbox # <<>> /\ Head(inbox) = RoomEvent(type, p)
    /\ inbox' = Tail(inbox)
    /\ UNCHANGED <<livekitVars, panicked, inRoom, leaving, own, shown, dismissed, inputs>>

\* insert_participant_if_absent.
Entered(p) == known \cup {p}

Arrives(p) ==
    /\ Takes("connected", p)
    /\ known' = known \cup {p}
    /\ UNCHANGED <<starting, flags, streamVars, uiQueue, misread>>

\* OpenCamera.
Opened == Append(uiQueue, "open")

\* The publication is not muted.
HasPictures(p) == p \in on

\* start_remote_camera_stream first has the window opened; its second half is StartsStream.
CameraSubscribed(p) ==
    /\ Takes("subscribed", p)
    /\ known' = Entered(p)
    /\ IF HasPictures(p)
       THEN uiQueue' = Opened /\ starting' = p
       ELSE UNCHANGED <<uiQueue, starting>>
    /\ UNCHANGED <<flags, streamVars, misread>>

\* Of one who has left meanwhile the publication may have no track any more.
CameraUnmuted(p) ==
    /\ Takes("unmuted", p)
    /\ \/ uiQueue' = Opened /\ starting' = p
       \/ p \notin there /\ UNCHANGED <<uiQueue, starting>>
    /\ UNCHANGED <<known, flags, streamVars, misread>>

ToldStream(i) == [j \in 1..Len(pictures) |-> IF j = i /\ Streaming(j)
                                       THEN [pictures[j] EXCEPT !.state = "told"]
                                       ELSE pictures[j]]

\* Mutant of Replaced: the stream that was there goes on.
NotReplaced(p) == pictures
\* set_camera_stop_tx drops the sender that was there.
Replaced(p) == ToldStream(stopper[p])

StopperFor(p) == [stopper EXCEPT ![p] = Len(pictures) + 1]

\* "Participant should exist": the lock is taken when OpenCamera has been sent.
StartsStream ==
    /\ starting # Nobody
    /\ IF starting \in known
       THEN /\ pictures' = Append(Replaced(starting), [who |-> starting, state |-> "running"])
            /\ stopper' = StopperFor(starting)
            /\ UNCHANGED panicked
       ELSE panicked' = TRUE /\ UNCHANGED streamVars
    /\ starting' = Nobody
    /\ UNCHANGED <<livekitVars, inbox, inRoom, leaving, known, flags, own, windowVars, inputs>>

\* CloseCameraWindow, if no one's camera is active.
ClosesUnlessActive ==
    LET anyActive == flags' \cap (known' \cup {Local}) # {} IN
    /\ uiQueue' = IF anyActive THEN uiQueue ELSE Append(uiQueue, "close")
    /\ misread' = (misread \/ (~anyActive /\ on # {}))

\* stop_camera_stream.
StopsStream(p) ==
    IF p \in known
    THEN /\ flags' = flags \ {p}
         /\ pictures' = ToldStream(stopper[p])
         /\ stopper' = [stopper EXCEPT ![p] = 0]
    ELSE UNCHANGED <<flags, streamVars>>

CameraGone(type, p) ==
    /\ Takes(type, p)
    /\ StopsStream(p)
    /\ UNCHANGED <<known, starting>>
    /\ ClosesUnlessActive

Departs(p) ==
    /\ Takes("disconnected", p)
    /\ StopsStream(p)
    /\ known' = known \ {p}
    /\ UNCHANGED starting
    /\ ClosesUnlessActive

--------------------------------------------------------------------------------
(* process_video_stream. *)

StreamStep(i) ==
    /\ Live(i)
    /\ UNCHANGED <<livekitVars, taskVars, inRoom, leaving, known, stopper, own, windowVars, inputs>>

\* write_buffer; a stream that has been told may find one more picture first.
Picture(i) ==
    /\ StreamStep(i)
    /\ pictures[i].who \in on \/ ~Streaming(i)
    /\ flags' = flags \cup {pictures[i].who}
    /\ UNCHANGED pictures

\* No picture for a second.
Stall(i) ==
    /\ StreamStep(i)
    /\ flags' = flags \ {pictures[i].who}
    /\ UNCHANGED pictures

\* The stop channel, or the end of the track.
Ends(i) ==
    /\ StreamStep(i)
    /\ ~Streaming(i) \/ pictures[i].who \notin there
    /\ pictures' = [pictures EXCEPT ![i].state = "ended"]
    /\ flags' = flags \ {pictures[i].who}

--------------------------------------------------------------------------------
(* The own camera. *)

ThreadStep(t) ==
    UNCHANGED <<livekitVars, taskVars, inRoom, leaving, known, streamVars, windowVars>>

OwnPicture(t) ==
    /\ own[t] \in {"running", "told"} /\ ThreadStep(t)
    /\ flags' = flags \cup {Local}
    /\ UNCHANGED <<own, inputs>>

OwnStops(t) ==
    /\ own[t] = "told" /\ ThreadStep(t)
    /\ own' = [own EXCEPT ![t] = "ended"]
    /\ flags' = flags \ {Local}
    /\ UNCHANGED inputs

\* Failed is only logged by poll_camera_stream.
OwnFails(t) ==
    /\ own[t] = "running" /\ Input /\ ThreadStep(t)
    /\ own' = [own EXCEPT ![t] = "failed"]
    /\ UNCHANGED flags

\* stop_capture; the message to a thread that has failed is lost.
AllTold == [t \in 1..Len(own) |-> IF own[t] = "running" THEN "told"
                                  ELSE IF own[t] = "failed" THEN "ended" ELSE own[t]]

--------------------------------------------------------------------------------
(* The event loop. *)

User(type) ==
    /\ Input
    /\ uiQueue' = Append(uiQueue, type)
    /\ UNCHANGED <<livekitVars, taskVars, inRoom, leaving, known, flags, streamVars, own, shown,
                   misread, dismissed>>

HandlesCamera(type) ==
    /\ uiQueue # <<>> /\ Head(uiQueue) = type
    /\ uiQueue' = Tail(uiQueue)
    /\ leaving' = (leaving \/ type = "end")
    /\ UNCHANGED <<livekitVars, taskVars, inRoom, known, streamVars, inputs>>

HideCameraWindow == shown' = IF shown = "none" THEN "none" ELSE "hidden"

\* Mutant of OpenCameraWindow: the window that there is is not shown again.
MakeCameraWindow ==
    /\ shown' \in (IF shown = "none" THEN {"none", "shown"} ELSE {shown})
    /\ dismissed' = (shown' = "none")
    /\ misread' = (misread /\ (dismissed' \/ \E i \in 1..Len(uiQueue') : uiQueue'[i] = "close"))

\* open_camera_window: there is one, which is shown again, or one is made, if it can be.
OpenCameraWindow ==
    /\ shown' \in (IF shown = "none" THEN {"none", "shown"} ELSE {"shown"})
    /\ dismissed' = (shown' = "none")
    /\ misread' = (misread /\ (dismissed' \/ \E i \in 1..Len(uiQueue') : uiQueue'[i] = "close"))

OpenCamera ==
    /\ HandlesCamera("open")
    /\ OpenCameraWindow
    /\ UNCHANGED <<flags, own>>

CloseCameraWindow ==
    /\ HandlesCamera("close")
    /\ HideCameraWindow
    /\ UNCHANGED <<flags, own, misread, dismissed>>

\* The user closes the window, whoever's camera is on.
CloseRequested ==
    /\ shown = "shown" /\ HideCameraWindow
    /\ dismissed' = TRUE
    /\ UNCHANGED <<livekitVars, taskVars, inRoom, leaving, known, flags, streamVars, own,
                   uiQueue, misread, inputs>>

\* StartCamera, also from one device to another: the window, start_capture, and the
\* track muted or unmuted.
StartCamera ==
    /\ HandlesCamera("start")
    /\ IF inRoom
       THEN \E ok \in BOOLEAN :
              /\ OpenCameraWindow
              /\ own' = IF ok THEN Append(AllTold, "running") ELSE AllTold
              /\ flags' = IF ok THEN flags \cup {Local} ELSE flags \ {Local}
       ELSE UNCHANGED <<own, flags, shown, misread, dismissed>>

StopCamera ==
    /\ HandlesCamera("stop")
    /\ own' = AllTold
    /\ flags' = flags \ {Local}
    /\ LET anyActive == flags' \cap known # {} IN
       /\ IF anyActive THEN UNCHANGED shown ELSE HideCameraWindow
       /\ misread' = (misread \/ (~anyActive /\ on # {}))
    /\ UNCHANGED dismissed

\* CallEnd stops the camera and closes the window, and sends DestroyRoom.
CallEndsCamera ==
    /\ HandlesCamera("end")
    /\ own' = AllTold
    /\ flags' = flags \ {Local}
    /\ HideCameraWindow
    /\ UNCHANGED <<misread, dismissed>>

\* clear(): the participants go, and with them the senders of their stop channels.
ClearsStreams ==
    /\ inRoom /\ leaving
    /\ inRoom' = FALSE
    /\ known' = {} /\ stopper' = [p \in Others |-> 0]
    /\ pictures' = [i \in 1..Len(pictures) |->
                      IF \E p \in Others : stopper[p] = i /\ Streaming(i)
                      THEN [pictures[i] EXCEPT !.state = "told"] ELSE pictures[i]]
    /\ UNCHANGED <<livekitVars, taskVars, leaving, flags, own, windowVars, inputs>>

--------------------------------------------------------------------------------
CameraInit ==
    /\ there = {} /\ came = {} /\ on = {}
    /\ inbox = <<>> /\ starting = Nobody /\ panicked = FALSE
    /\ inRoom = TRUE /\ leaving = FALSE
    /\ known = {} /\ flags = {}
    /\ pictures = <<>> /\ stopper = [p \in Others |-> 0]
    /\ own = <<>>
    /\ uiQueue = <<>> /\ shown = "none" /\ misread = FALSE /\ dismissed = FALSE
    /\ inputs = 0

RoomEvents ==
    \/ StartsStream
    \/ \E p \in Others :
         \/ Arrives(p) \/ CameraSubscribed(p) \/ CameraUnmuted(p) \/ Departs(p)
         \/ CameraGone("muted", p) \/ CameraGone("unsubscribed", p)
CameraEvents ==
    \/ OpenCamera \/ CloseCameraWindow \/ StartCamera \/ StopCamera \/ CallEndsCamera
    \/ CloseRequested

CameraNext ==
    \/ \E p \in Others : Appears(p) \/ CameraOn(p) \/ CameraOff(p) \/ Vanishes(p)
    \/ RoomEvents \/ CameraEvents \/ ClearsStreams
    \/ \E i \in 1..Len(pictures) : Picture(i) \/ Stall(i) \/ Ends(i)
    \/ \E t \in 1..Len(own) : OwnPicture(t) \/ OwnStops(t) \/ OwnFails(t)
    \/ \E type \in {"open", "start", "stop", "end"} : User(type)

CameraSpec == CameraInit /\ [][CameraNext]_cameraVars

--------------------------------------------------------------------------------
(* Correctness. *)

\* Every variable has its type, and a stop channel belongs to the participant whose
\* stream it ends.
CameraTypeOK ==
    /\ there \subseteq came /\ came \subseteq Others /\ on \subseteq there
    /\ \A i \in 1..Len(inbox) : inbox[i].who \in Others
    /\ starting \in Others \cup {Nobody}
    /\ panicked \in BOOLEAN /\ inRoom \in BOOLEAN /\ leaving \in BOOLEAN
    /\ misread \in BOOLEAN /\ dismissed \in BOOLEAN
    /\ known \subseteq Others /\ flags \subseteq Others \cup {Local}
    /\ pictures \in Seq([who : Others, state : {"running", "told", "ended"}])
    /\ stopper \in [Others -> 0..Len(pictures)]
    /\ \A p \in Others : stopper[p] # 0 => pictures[stopper[p]].who = p
    /\ own \in Seq({"running", "told", "ended", "failed"})
    /\ uiQueue \in Seq({"open", "close", "start", "stop", "end"})
    /\ shown \in {"none", "hidden", "shown"}
    /\ inputs \in 0..MaxInputs

Settled ==
    /\ inbox = <<>> /\ starting = Nobody
    /\ \A i \in 1..Len(pictures) : pictures[i].state # "told"

\* When the room's events have been handled and the streams that were told to stop have,
\* each camera that is on has exactly one stream, no other has one or counts as active,
\* however the subscription and the changes of the camera crossed.  And when the windows'
\* events have been too, the window is open if someone else's camera is on: unless since it
\* was last opened its user has closed it (dismissed), it could not be made (dismissed too),
\* or it was closed by a flag that was not up to date (misread), as one is after a second
\* without a picture.
CamerasAreShown ==
    Settled /\ inRoom =>
        /\ \A p \in Others :
             /\ Cardinality({i \in 1..Len(pictures) : pictures[i].who = p /\ Live(i)})
                = (IF p \in on THEN 1 ELSE 0)
             /\ p \in flags => p \in on
        /\ ~misread /\ ~dismissed /\ uiQueue = <<>> /\ on # {} /\ ~leaving => shown = "shown"

\* "Participant should exist".
ParticipantExists == ~panicked
================================================================================
