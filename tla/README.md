# Hopp, modelled in TLA+

Hopp is a pair-programming application: direct calls and named rooms between
teammates, with screen sharing and remote control. This directory models the
parts of it whose correctness depends on the order in which independent actors
act, model-checks them with TLC, and proves the most important invariants with
TLAPS. `PROJECT.json` maps each definition to the lines it models, and lists the
hazards the properties are aimed at.

## The system

| Component | State it keeps | Operations | Talks to |
|---|---|---|---|
| Presence tracker (`backend/internal/callstate`) | `presence:snapshot` (room to display name and users, 30 s TTL) and `presence:pending:<room>` in Redis; one process-wide mutex | add, remove, materialise, reconcile every 10 s | handlers call it; it lists LiveKit and pings clients |
| Call handlers (`websocketHandlers.go`) | `call:pending:<a>:<b>` in Redis (30 s TTL), who rang | request, accept, reject, end; presence acknowledgements; invitations | clients over the socket; other users over their Redis channel |
| WebSocket connection (`CreateWSHandler`) | one handler, one read loop, one Redis relay; a `done` channel, a context, a subscription, a socket | greet, read, relay, shut down | the desktop client, Redis |
| REST and Slack handlers (`handlers.go`, `slackHandlers.go`) | rows in the database | room and call joins, leaves, teams, billing | tracker, LiveKit tokens |
| Desktop front end (`tauri/src`) | `callTokens`, `calling`, the incoming banner, listeners and timers | call, answer, reject, hang up, answer a ping | backend by socket and HTTP; Tauri back end by commands and events |
| Tauri back end (`tauri/src-tauri`) | the child core process and its socket, one mutex over the application's data, the settings file, sounds, shortcuts, timers | forwards commands to the core and its events back, restarts a core that died, keeps settings over versions | front end, core |
| Application-core socket (`core/socket_lib`) | a reader thread and two queues on each side | framing, routing of events and responses, timeouts | Tauri back end, core |
| Core event loop (`core/src/lib.rs`) | devices, windows, the remote control | a queue of user events | application over the socket; room service |
| Core room service (`core/src/room_service.rs`) | the regular and the video room, sources, participants, what others share | create and destroy a room, mute and unmute tracks, publish data; a task handles the room's events | LiveKit; event loop |
| Core remote control (`core/src/input`) | controllers' cursors and the sharer's cursor, each behind a mutex; the keyboard; a clipboard's packets | take control, take it back, enable, disable, repair, simulate input, copy and paste | event loop, the system's mouse observer, the room |
| Core capture (`core/src/capture`) | the capturer behind its mutex, capture threads, a polling thread | start, stop, restart after a failure | event loop, LiveKit's track, the system |
| Core audio and camera (`core/src/audio`, `core/src/camera`) | a capture thread each with a stop flag, the devices | start, stop, switch, fall back | event loop, the system |
| Core windows (`core/src/window*`, `core/src/graphics`) | one overlay per monitor, the chooser, the window of a watched screen, the camera window, the drawing window; pointers, strokes, clicks | choose what to share, show, draw, resize, redraw | event loop, streams, the system |
| LiveKit | rooms, participants | external | everything |

How a call runs: the caller's row sends `call_request`; the backend records who
rang and publishes `incoming_call` to the callee, whose banner answers with
`call_accept`; the backend consumes the record, makes a room name, sends both
sides tokens, and adds the room to presence. Each application starts the core's
call, which opens two LiveKit rooms. `call_end` undoes it, over the socket on
one side and into the core on the other. Every ten seconds a sweep compares
presence with what LiveKit lists.

### What is hard, and what makes it correct

- **Presence** is a cache of what LiveKit and the clients know, changed by many
  handlers and overwritten by a sweep that looked at LiveKit before it took the
  lock. Correct: it shows nobody in a room they were never admitted to, a sweep
  changes only what its listing justifies, and once people stop starting and
  ending calls it settles on the calls they are in, whatever was lost or crashed
  before.
- **Ringing** relies on a record that both sides delete and that expires.
  Correct: at most one room per ring and only for the user who was rung; nothing
  rings for ever, and a pair can call again without a record having to expire.
- **A connection** is three goroutines that end one another. Correct: a live
  client is not cut off by them, a lost client does not stay online.
- **Remote control** is two mutexes and three kinds of actors. Correct: one
  holder at most, never one who has been disabled, modes restored afterwards, no
  deadlock; the sharer's machine holds down what its watcher holds, and no more.
- **The core's call** is a queue, a task and a cancellation that reaches past the
  task's own queue. Correct: no LiveKit connection is lost track of, no two
  calls at once, hanging up ends everything, no call is left waiting; what is
  said in a call is heard in it and in no other.
- **Sharing** has no arbiter: everybody who hears of another share stops their
  own. Correct: when all has been heard one shares at most, all others watch it,
  and what is drawn on it looks the same on both sides.
- **Capture** sleeps and retries with the capturer's mutex held, while streams
  fail and users stop. Correct: one stream, with the content that was asked for,
  published exactly while it is there; a stop is honoured, a failure dealt with.
- **Participants and cameras** are kept by a task from events that race the
  set-up and the closing of the room. Correct: the lists and the windows come to
  show who is there and whose camera is on.
- **Windows** answer events that do not say who caused them, over monitors that
  come and go. Correct: nothing stays over a desktop that is not shared; what is
  marked is what is shared; pointers and pictures are recent and true.
- **The application and the core** are two processes that wait for each other
  under a mutex and outlive each other's crashes. Correct: answers meet their
  requests, every wait ends, no core outlives its application, settings survive.

## Modules

| Module | Models | Run by |
|---|---|---|
| `PresenceSnapshot` | the snapshot as a value and each tracker operation as a pure function of it | the next one |
| `CallState` | tracker, sweep, and every handler and client that reaches them | `MCCallState` |
| `CallRing` | the ringing protocol on both clients and in the backend | `MCWebSocket` |
| `WsConnection` | the goroutines of a WebSocket connection | `MCWebSocket` |
| `CoreCall` | a call in the core process | `MCCore` |
| `CursorControl` | who controls the cursor of a shared screen | `MCCore` |
| `ShareRoom` | who shares in a room of cores, and who watches | `MCBetweenCores` |
| `Drawing` | strokes from the one who draws to the one who looks on | `MCBetweenCores` |
| `RemoteInput` | keys and buttons from a watcher to the sharer's machine | `MCBetweenCores` |
| `Clipboard` | texts in packets, in both directions | `MCBetweenCores` |
| `RoomMessages` | the room service's command queue, calls that follow each other, the throttle | `MCBetweenCores` |
| `CaptureSession` | abstract: what a capturer promises | `MCScreenCapture` |
| `ScreenCapture` | the capturer, its mutex and threads; implements `CaptureSession` | `MCScreenCapture` |
| `AppSocket` | application, core process and the socket between them | `MCApplication` |
| `Sounds`, `SettingsFile`, `Backend` | the application's players; its settings file over crashes and versions; its call state, shortcuts, timers and windows | `MCApplication` |
| `Audio` | the microphone: devices, names, capture threads | `MCApplication` |
| `Participants`, `Cameras` | who is in the room; whose camera is on and shown | `MCRoom` |
| `Frames`, `WindowPicker` | geometry of overlapping windows; choosing what to share | `MCRoom` |
| `Overlay` | the windows over the monitors | `MCRoom` |
| `Pointers`, `Redraw` | the pointers over a shared screen; when they are drawn | `MCRoom` |
| `Viewer`, `ViewerSize` | the pictures in a watcher's window; its size | `MCRoom` |
| `CallStateProofs`, `ScreenCaptureProofs` | theorems about these modules | TLAPS |
| `WebSocketProofs`, `CoreProofs`, `ApplicationProofs`, `BetweenCoresProofs`, `RoomProofs` | theorems about the modules of the run they are named after | TLAPS |
| `Facts` | lemmas about queues and numbers that several of these share, and what the functions of `Frames` compute | TLAPS |

An MC module that runs several modules has a variable `part` that chooses, in the
initial state, the module whose steps are taken; the others rest. Such modules
share no state, and the run checks each alone; where two do meet, the state in
which they meet is in one module (`CursorControl` has the drawing that disables
controllers, `ScreenCapture` the track that `ShareRoom` takes as an event).
Properties of several parts are joined into one where a run asks one question
of them (`ScreensAreAsShown`, `PointersAreTrue`, `ViewerShowsTheShare`).

### CallState (and PresenceSnapshot)

One step of a handler is one tracker method, because the tracker's mutex makes
each method atomic and nobody holds the mutex between two of them. A handler
that calls several is several actions, with where it stands in `handler`
(read loops) or `joining` (the join request): `AcceptCall` then
`AcceptCallAddRoom`; `JoinCallRead` then `JoinCallAdd`; `EndCallInRoom` then
`EndCallCollapse`; `AckGetPending`, `AckMaterialize`, `AckClearPending`. The
sweep is `ListRooms`, one `ListRoomMembers` per room, then the locked `Apply`.
`snap` is the Redis snapshot, `pending` the stashed members, `app` and `peer`
the client's `callTokens`, `live` LiveKit's participants. `ever`,
`sweep.stayed`, `sweep.seen` and the `about` of a message are history: no guard
reads them, but for the freshness of a new room's name, a uuid in the code.

RemoveUser's walk over a Go map is a choice among the rooms that list the user.
A display name matters only as empty or not. Redis, LiveKit, database and token
failures are branches of the step in which the code meets them; crashes of the
application, lost publications and a restart of the backend are actions. The
snapshot's expiry needs three ticks that did not write it. Left out: tokens
reach both clients with the acceptance (`CallRing` has them in flight); a user
who is pinged answers once per ping; and the setting of pending records in one
sweep fails for all rooms or none.

### CallRing

`record` is `call:pending`, indexed by the pair. The Redis commands of a call
request and of an accept are separate steps; the deletion of a record and the
message that reports it are one, since no other handler can tell them apart.
Publications keep their order in a channel; an answer the read loop writes to
its own socket can overtake them (`Writes`). On the clients, `calling` is the
ringing row, `banner` the incoming call, `answering` the five seconds of wait
for tokens, `app` the room of `callTokens`. Presence takes part as far as
`endCall` needs it. Left out: moving from one ringing row to another, a second
answer timer running beside the first, the acceptance toast, and loss of
messages.

### WsConnection

Each goroutine is a program counter; a receive from `done` is a rendezvous of
the sender with either receiver, a send on the closed channel and the closing of
a channel with a blocked sender are panics, and a panic ends the process with
all its connections. The handler's deferred calls run in LIFO order:
`Unsubscribe`, `Cancel`, `CloseSocket`. `Severed` is what makes the read fail,
the 65-second read deadline included. `faulty` is history.

### CursorControl

The event loop and the mouse observer's callback are threads; a handler is cut
where it releases one mutex and takes another, and each mutex holds its owner.
`mode` is what a controller's cursor shows, `cached` what it will show again
when controllers are enabled, `drawMode` the participants manager's. `enabled`
stands for the keyboard's flag too. Left out: positions, visibility, click
animations and the pressed button; the simulator's mutex, whose holder waits for
no other; drawing modes of participants who are not there. The observer of a
finished share is gone at once, and the participants a new overlay is given are
any subset. An input that changes nothing still takes the locks
(`ChangeNothing`).

### CoreCall

Three actors: the application (`tokens`), the event loop (`queue`, `main`,
devices) and the room service (`commands`, `service`, `branch`, `room`,
`videoRoom`, `source`, `local`). `destroy_room` drops the cancellation senders
at once (`armed`) and queues its command. The two connections of an attempt are
two branches that connect, fail, time out or are cancelled independently and
are then joined: `CleanUp`, `GiveUp`, `Establish`. `connected` is LiveKit's
side. Clearing is two steps, since the event loop reads the source in between,
and so is `StartCamera`. Left out: the screen share and what `Participants`,
`RoomMessages` and `Audio` have; the audio devices are one switch; `Establish` is
one step; a connection dropped while it is being made leaves nothing at LiveKit;
tokio's select may take either branch that is ready; the room service exists from
the start (its URL is the first message the core gets).

### ShareRoom and ScreenCapture

`ShareRoom` has a core per member: `ui` is its event loop's queue, `commands` its
room service's, `events` what LiveKit has told it and its task has not handled;
`publisher`, `sharers` and `window` are what it believes. A share that starts
ends what the core shares or watches; the event of another's share ends one's
own. A share starts, fails or ends by itself; how is `ScreenCapture`'s. LiveKit
orders the changes of one room.

In `ScreenCapture` a step is what a thread does between two points at which
another could get in: the event loop stops a share, locks the mutex again, waits
for the first picture with the mutex held (`extent`), opens the overlay, undoes
the share; `poll_stream` takes a message, locks, sleeps (`restart`), tries a copy
(`attempt`). A thread that was told to stop may be in a last callback. A panic
inside a restart poisons the mutex until `CallEnd` makes a new capturer. Both
stream kinds are there (`backend`). `CaptureSession` says what that comes to: one
content at a time, changed by a stop and a start only, and no failure that stays.
The mapping takes a stream that is being replaced for the content it captures.

### Drawing, RemoteInput and Clipboard

One draws in each behaviour of `Drawing`: the sharer in the drawing window for the
watcher's window, or the watcher for the sharer's overlay. `picture` is the
artist's, `seen` the other side's, `wire` the published messages; a path is its
number, since its points are lossy and only its begin and end are not. Expiry of
permanent paths is by age alone on both sides. In `RemoteInput`, `hands` is what
the watcher holds, `pressed` what the sharer's system is made to hold, `queued`
the modifier presses the window keeps back; `unheard` and `ignored` name the keys
whose last event nobody took, which excuses them. The sharer's own drawing
window, which suspends remote control, is in `CursorControl`. In `Clipboard` both
members may share in turn and use one payload for both directions.

### RoomMessages and Participants, Cameras

`RoomMessages` has the command queue (`waiting`) of a core's room service, which
takes no command while it connects (`joining`), LiveKit's delivery (`post`) with
the visits it belongs to, and the throttle's two clocks in ticks. `Participants`
has a task per room that handles its events (`news`), also when the room has been
closed, the map (`people`), and snapshots built by one task and not yet sent
(`held`). `Cameras` has a stream task per camera that is on, its stop channel
(`stopper`), the flags, the own camera's threads and the camera window, which its
user may close over anybody's camera (`CloseRequested`) and which may not open
(`OpenCameraWindow`): `dismissed` says that since it was last opened one of these has
happened, `misread` that a flag that was not up to date has closed it.

### AppSocket, Sounds, SettingsFile, Backend

In `AppSocket` a command's thread keeps the mutex (`lock`) while it waits for its
answer, and the forwarder needs it for some events. A message is in the queue it
will be read from as soon as it is sent. A core is up, hangs, has failed with the
exit code that the health check knows, or is dead. There are two settings, because
the code has two ways: `SaveSetting` saves and sends under one lock and the start
sends what is saved; `remote_control_enabled` is saved under one lock (`SaveControl`),
sent under another (`SendControl`, `owed` in between), told by a call without being
saved and sent again with each choice of a screen (`TellControl`), and not sent at the
start. `word` is history: what the core was last told of it. `Sounds` is one looped
sound on two threads and the mutex they leave between looking and entering.
`SettingsFile` writes in place: a crash empties or tears the file; a start reads it, or
what an older version could have written, or fails to read it (`StartUnreadable`) or the
old version's `user_token.txt` (`StartReads`, `StartReadsOld` with a token that stays
where it is). `login` is the token the user set last, and `cutOff`, `overwritten`,
`unreadable` and `leftOver` say what became of the last write and the last start; all of
these are history. `Backend` has the call flag, the shortcuts and
their late unregistration, the flags that timers reset, and the windows.

### Audio

A capture thread looks at its stop flag between two reads only, and a read of a
microphone that has gone ends it with an event. `stopFlag` numbers the flags:
`stop_thread` raises one and makes another. Names are a base and a number, as
`assign_ui_names` and the fallback by name need them. The list of microphones is the
one made last (`available`), empty at first: the start of a call makes none, so that a
name may be looked up in an old list or none. A microphone that was chosen keeps the name it had in the list;
for the default one the name that the system gives is looked up (`ActiveName`). The
name a thread remembers (`name`) is history, as are `silent` and `untold`.

### Frames, WindowPicker, Overlay

`Frames` has the geometry as operators: which windows are seen, which is under the
cursor, which is next. `WindowPicker` lists, marks and shares with them, on
desktops and layouts that its instance chooses. `Overlay` has the windows of
`WindowManager`: which are shown, take the mouse, show the chooser, have strayed
from their monitor since the system moved them (`moved` are those of whose move
the event loop has not heard), and what is captured and controlled. `adrift` is
history: cases in which the code loses what it overlays.

### Pointers, Redraw

`Pointers` has the two pictures of the others, each with its pool of colours and
visible names, events that wait for the event loop, and the set-up of a picture
from a list that may be older than they. `Redraw` has ticks: the thread that skips
activities within an interval and rests, and the frames, which hide and clear.

### Viewer, ViewerSize

`Viewer` cuts the writer and the reader at every access to the two slots, their
index and the frame number, none of which is locked with another. `drawn` is history:
the number that the last redraw to come to its end had read, and the number last
uploaded before, which it was measured by. `ViewerSize` has
the window's size, the surface's, and the resize events between them, in widths
and aspects.

## Runs

| Run | Asks | Answer |
|---|---|---|
| `presence_safety` | is every member justified and each sweep bounded? two users, an ad-hoc and a named room, two operations, one failure | holds |
| `presence_recovers` | does presence converge, under fairness? one named room, three operations and failures in all | holds |
| `websocket` | one room per ring, and does ringing stop? only dead clients cut off, gone clients offline? two users, two rooms, two requests; two connections | holds |
| `ws_shutdown` | does a relay always end on the context? | no: it can signal an error on a closed channel |
| `core` | no lost connection, hanging up ends all, no call forgotten? exclusive control, disabled controllers, no deadlock? two calls, one request; two controllers | holds |
| `core_camera` | does StartCamera find the local participant? | no: the event loop can panic |
| `between_cores` | does the room agree on who shares? does a picture, a key, a text, a word arrive, whole and only where it should? | holds |
| `screen_capture` | is every thread and track accounted for, is a stop honoured, is the session implemented? | holds |
| `application` | do answers match, do waits end, do settings, the login and sounds survive what crosses them? is the voice captured, once, in a call only, and under the name that is shown? | holds |
| `core_restart` | are the events of a core that replaced another read? | no: nobody takes its queue |
| `room` | do lists, cameras, screens, pointers and pictures show what is there? | holds |
| `camera_participant` | does a camera's event find its participant? | no: after the room is closed the task panics |

The runs that end in a violation check a sentence of the code's own comments or
assertions; `PROJECT.json` quotes it and says what the trace shows.

### What the properties say

`PresenceConverges`, `MembersJustified` and `SweepIsBounded` are about the
presence snapshot; `OneRoomPerRing` and `RingingStops` about ringing;
`CutsOffOnlyTheDead` and `GoneIsOffline` about connections; `NoConnectionLost`,
`HangUpEndsAll` and `NoCallIsForgotten` about the core's call; `ControlIsExclusive`,
`DisabledBlocks` and `NoThreadIsStuck` about control. `SharesAgree`: when all news
has arrived one core at most shares, what it captures, and the others watch that.
`PictureArrives`, `KeysFollowHands`, `ClipboardIsWhole`, `SaidIsHeard`: what one
side does is what the other has once the messages have been handled, with the
exceptions their comments name. `CaptureIsAccountedFor`: no thread captures beside
the capturer's stream, and the track is unmuted exactly while there is one.
`StopIsHonoured` and `ImplementsSession` need fairness. `AnswersMatch`,
`SettingReachesCore`, `NothingHangs`: request and answer, saved and followed, and
an end to every wait and every orphaned core. `NoLostSound`, `StaysLoggedIn`,
`ShortcutsOnlyInCall`, `VoiceIsCaptured`: parts of the application and the
microphone. `ListFollowsRoom`, `CamerasAreShown`, `ScreensAreAsShown`,
`PointersAreTrue`, `ViewerShowsTheShare`: what is shown against what there is. One
type invariant per run holds the types of its parts.

Five of them hold with exceptions, each of which is something the code does, and each
of which the property names:

- `SettingReachesCore`. The other settings reach the first core without exception.
  `remote_control_enabled` does unless the core has not been told of it (the start, and
  `main.rs` 1357-1383, leave it out), was last told by a call, is owed it by a thread
  between its two locks, or was last sent a value that another save had overtaken
  (`main.rs` 826-834 with 231-239). Each lasts until the next save or choice of a
  screen. A core that has replaced a failed one has its own defaults.
- `StaysLoggedIn`. A start loses the login to a file that is not there, one whose last
  write was cut off (a later write that ends mends this), one that cannot be read
  (`app_state.rs` 335-337), a whole file written by a process that had lost the login
  already, and a `user_token.txt` that an earlier start could not read or not remove
  (240-246) and that now comes back.
- `VoiceIsCaptured`. A call is silent once its user has stopped the microphone, and
  also, without anybody being told, when a stream does not open (`silent` is
  `"failed"`). The window's name is not kept when a call begins behind an open window.
- `CamerasAreShown`, as to the window: not when since it was last opened its user
  closed it or it could not be made (`dismissed`), or a flag that was not up to date
  closed it, as one is after a second without a picture (`misread`). As to the streams
  and flags there is none.
- `ViewerShowsTheShare`: not while two streams write at once, nor for a redraw whose
  number is within `RestartGap` of the last one uploaded of an older stream, which the
  code does not take for a restart (`RestartMissed`).

### Behaviours no run asks about

The models show these; the code and its documentation say nothing against them, or
too little to call it a disagreement.

- Calls: a join that read a named room before its last member left creates it
  again without its name (`JoinCallAdd`). The end of a named room notifies the
  leaver too when the request overtakes `call_end`. The call record expires before
  the callee's banner. A read loop whose handler has returned on a Redis error
  blocks for ever on `done`. A wish to start the camera survives the end of a call.
- Control: a click can end with nobody in control. `RemoteControlEnabled` is
  published when it changes only; newcomers do not learn it (a TODO in `lib.rs`
  2290 says so).
- Drawing: a point that is late joins the next path. Closing the drawing window
  hides it without clearing the other side's strokes. Choosing the mode in the
  dropdown publishes it on any tab. Who begins to watch late misses what was drawn.
- Input: a clipboard request that is dropped for want of a remote control leaves
  its packets in the payload, and the next text is joined to them.
- Overlay: `CallEnd` and `StopScreenShare` leave the chooser open; a repair that
  fails ends the share silently; the overlay can be lost when a monitor goes while
  the chooser is opened.
- Audio: a default device that changes while a named one is captured switches only
  if that has gone, though the comment's first line promises a reconnection for the
  default; the application shows the microphone asked for when the core fell back; two
  quick toggles can end in the first's state; dropping `AudioTrackHandle` leaves its source in the mixer.
- Viewer: the frame number is set before the slots are swapped, so that the last
  picture of a burst can wait for the next one, and a picture can go back by one;
  the comment that there is no contention (`video.rs` 89) is not so; a stream that
  restarts within 40 numbers is not noticed; the previous share's last picture is
  in the slots when the next share's window opens.
- Window size: when the system clamps or ignores a resize, the awaited size stays
  awaited and the user's next resize is taken for the program's; a kept width can
  make the window taller than the screen; a size of zero is ignored.
- Pointers: the removal of somebody without a colour of the pool gives the default
  colour to the pool, so that two later ones can share it although others are
  free; a participant that could not be made loses its colour; clicks are drained
  before expired slots are reclaimed, so that one can be dropped that had room. A
  stroke of the one in control sends no activity. The last position of a pointer
  can be left out by the throttle.

### Bounds, and why they are enough

Bounds are constants and appear in guards: `MaxOps`, `MaxFaults` and `MaxEvents`
limit what clients start and what fails in `CallState`; `MaxInbox`, `MaxQueue`,
`MaxWire`, `MaxInFlight`, `MaxWaiting` and `MaxPost` what may be under way;
`MaxCalls`, `MaxRequests`, `MaxWishes`, `MaxNews`, `MaxPresses`, `MaxDecisions`,
`MaxUses`, `MaxMoves`, `MaxInputs`, `MaxChanges` and the like what users, devices,
monitors and the system do. What the system does in response is never bounded, nor
are sweeps. Each hazard listed is between one actor's two steps and one or two
other actors, and the instances have one more of each than it takes:

- Two users and a pair of rooms, ad-hoc and named, are every crossing of two
  handlers and a sweep. Two connections show a panic that takes down another user.
- Two controllers and the sharer are all the kinds of rivals for control. Two calls
  are one attempt and a stale result, cancellation or room of an earlier one.
- Sharing: three cores with two wishes in all (a takeover with a third who watches
  or joins late), two cores with four (share, take over, take back, stop).
- Capture: two requests and two pieces of news, no failure in a row too many and
  one retry: a stop meets a restart, a restart a new share, a retry an end.
- Two texts of two packets and a third; two shares and four strokes; five presses
  with two changes of the setting; four commands of two members.
- Two monitors and four changes; three guests for two colours; two streams and five
  pictures, three of the first and two of the second, so that a number of the second
  can be above 0 and below the first's last; a rest of 21 ticks against intervals of 2.
- Two microphones of one name, or of which one has the name that would tell the other's
  double; two captures, as in two calls or a choice within one; one microphone that
  comes, goes, becomes the default or does not open. The theorem `VoiceIsAlwaysCaptured`
  is for any number of these.

`RestartGap` is 0 where the code has 40, so that a redraw misses a restart at equal
numbers only, and `RestsAfter`, `HidesAfter` and
`RippleTime` keep the order of 15, 5 and 0.8 seconds, not their ratio: every
comparison the code makes comes out both ways. Pictures of one shape are enough
for `Viewer`, since another shape only ends a redraw early; its shape is
`ViewerSize`'s.

`InTime`, the constraint of `room`, stops a behaviour once a closed room's event
has come late or a stream has written beside a later one: `ListFollowsRoom` and
`PictureIsRecent` ask nothing afterwards, by their own conditions.

`CHECK_DEADLOCK FALSE` is said where the system really may stop: a history that has
used its bounds, a connection that is closed, a core that has panicked. `CallState`
is checked for deadlock: sweeps never end. Symmetry over users, cores or persons is
used for runs without liveness properties only.

### Fairness

- `CallState`: the ticker fires and its sweep finishes, read loops and HTTP
  handlers run, keys expire, clients answer pings, receive `call_end`, and keep
  LiveKit in step with their tokens. Nobody has to start or end a call and nothing
  has to fail; failures are bounded by a budget, so they end.
- `CallRing`: connections deliver, read loops run, client timers fire. No button
  is pressed and no record has to expire.
- `WsConnection`: goroutines run, a severed socket is noticed, a receive on a
  closed subscription returns.
- `CursorControl`: a handler or callback that has begun goes on when its mutex is
  free. No input need come.
- `CoreCall`: event loop, room service (whose connections have a timeout) and the
  application's listeners go on. The user need do nothing.
- `ScreenCapture`: event loop and polling thread go on; the wait for a first
  picture and the retries are bounded in the code. No picture need come.
- `AppSocket`: threads that have something to do go on, and waits with a timeout end.
- All other modules state safety only.

## Proofs

The runs show these properties on small instances; the theorems hold for any
users, rooms, cores, persons, contents, connections, controllers and bounds that
satisfy the named assumptions of the modules. These say only that a null value is
none of the others (`None`, `Nobody`, `NoShape`, ...), that bounds are natural
numbers and sets of people finite, and of four modules a little more. In
`ViewerSize` every dimension has an aspect and every aspect a widest window. In
`WindowPicker` the windows of a desktop have identities of their own, which are not 0
(the code keeps them in a map by the system's window number, `macos.rs` 79-153), there
is a monitor, and positions are whole numbers where the code has floating-point ones.
In `Redraw` the rest of 15 s is longer than hiding a pointer (5 s) and than a ripple
(0.8 s) with all the clicks and lost frames that the bounds allow, each of which costs
an interval of 16 ms and the frame's delay; a behaviour with so many of them that 15 s
are not enough is not covered. Each proof is Init, one step per
action, and a temporal step; a lemma about queues or snapshots is stated once and
cited. The type invariants come first, since no other proof can do without them
(`TypeCorrect`, `ConnTypeCorrect`, `CursorTypeCorrect`, `SocketTypeCorrect`;
`SocketTypesCorrect`, `CoreTypesCorrect`, `BetweenTypesCorrect`,
`ApplicationTypesCorrect` and `TheRoomHasItsTypes` for the compositions that the runs
check). A queue's bound needs counts, such as that no more presses wait than there were,
and the pictures that what is on its way will draw; `RoomTypeOK` also says who built the
snapshots that wait and which streams there have been, and so rests on the whole of
`RoomInv`.

Every invariant that a passing run checks, and every action property without
fairness, is a theorem of the list in `PROJECT.json`; the table leaves out the types.

| Theorem | Property | The inductive invariant adds |
|---|---|---|
| `CallStateProofs`: `NobodyIsInvented` | `MembersJustified` | what is stashed, listed by a sweep, or read by a handler that has not finished was admitted too |
| `SweepsAreBounded` | `SweepIsBounded` | between a sweep's listing and its application, what it has seen and who has stayed match the snapshot (`SweepTracks`) |
| `WebSocketProofs`: `OneRoomPerRingHolds` | `OneRoomPerRing` | nothing but types: in this form it is inductive |
| `LiveClientsStay` | `CutsOffOnlyTheDead` | the cause, followed through the loops: nothing is signalled, closed or unsubscribed unless the client has gone, Redis or the greeting failed, or the process died |
| `CoreProofs`: `ConnectionsAreHeld`, `OneCallHolds` | `NoConnectionLost` | connections are in the making only after the last call's rooms were closed, and only in `connect` |
| `ExclusiveControl` | `ControlIsExclusive` | what each label of the event loop owes: who took control and has yet to take it from the sharer |
| `DisabledControllersAreBlocked` | `DisabledBlocks` | from the start of drawing until its window opens or fails controllers are disabled; a disabled cursor has its logical mode cached (`ModesInvariant`) |
| `ScreenCaptureProofs`: `NothingIsCapturedUnseen` | `CaptureIsAccountedFor` | who holds the mutex and what its holder has done so far (`Hands`), each stream's content (`Captured`), no stream that nobody will end (`NoOrphan`) |
| `StepsOfSession` | safety part of `ImplementsSession` | the same: a step of the capturer is a step of `CaptureSession` or none |
| `ApplicationProofs`: `SettingArrives` | `SettingReachesCore` | the last of the settings under way is the one that was saved; of `remote_control_enabled` this is so once nobody owes the core a value and the last one sent was no stale one (`Follows`) |
| `NobodyTakesAnothersAnswer` | `AnswersMatch` | a question under way, or its answer, belongs to a command that waits or has given up, and is then the only one (`AnswersInv`) |
| `NoSoundIsLost` | `NoLostSound` | no player is entered twice or held by two threads (`SoundInv`) |
| `TokenSurvives` | `StaysLoggedIn` | a file that is whole holds the login, unless the last write was cut off or was made without it; a token of the older version's is the login until the first start (`LoginIsKept`) |
| `ShortcutsOutsideCalls` | `ShortcutsOnlyInCall` | timers are counted (`TimersCounted`) |
| `VoiceIsAlwaysCaptured` | `VoiceIsCaptured` | see below |
| `BetweenCoresProofs`: `TheRoomAgrees` | `SharesAgree` | see below |
| `HeldKeysAreReal` | `KeysFollowHands` | what the last message about a key in the line says is what the watcher holds (`KeysReach`); presses kept back are of a modifier that is held (`QueuedIsHeld`) |
| `ThePictureArrives` | `PictureArrives` | see below |
| `WordsAreHeardInOrder` | `SaidIsHeard` | see below |
| `TextsAreWhole` | `ClipboardIsWhole` | as long as pieces come in turn, the payload is the beginning of the text whose piece came last, and not all of it (`Begun`) |
| `RoomProofs`: `TheListFollows` | `ListFollowsRoom` | see below |
| `TheShareIsShown` | `ViewerShowsTheShare` | see below |
| `TheCamerasAreShown` | `CamerasAreShown` | see below |
| `TheScreensAreAsShown` | `ScreensAreAsShown` | see below, and `TheOverlayFollows` |
| `ThePointersAreTrue` | `PointersAreTrue` | see below |
| `TheOverlayFollows` | `OverlayHasItsPlace`, half of `ScreensAreAsShown` | where the overlay is, or is next to be put, is where the capture is (`OverlayFollows`); an overlay that strayed has been heard of or will be (`StrayIsHeard`) |

Three results are about operators: `ConstructedFacts` (a sort by number, stated by the
place of each piece, keeps a sequence of pieces and leaves one in order as it is;
that every place is taken is the pigeonhole principle), `SubtractFrameExact` (cutting one frame out of
another leaves frames that cover exactly the rest) and `OneMoreOccluder`, in `Facts` (so does one
window more, whatever had been left before it), for any whole coordinates.

Some arguments deserve a word.

- `OneRoomPerRing` counts rooms minted and accepts still entitled to one against
  the records ever created in a direction. A ring counts itself and adds one
  entitlement, consuming the record passes it to the handler, minting spends it,
  everything else gives entitlements up. The pairs being unordered and the
  directions ordered is what takes the work (`PairDirections`).
- `SharesAgree` is about a moment when nothing is under way, its invariant about all
  others. It says of each pair of cores that share that the news which will make
  one give way is on its way in one of them (`OneGivesWay`); of each core and share
  that the core believes it or will hear of it (`SharesAreSeen`), and of an end
  likewise (`EndsAreSeen`); and that a window whose share is over is closed or will
  be (`WindowCloses`). LiveKit's one order for all members is what makes it
  inductive.
- `PictureArrives`: the messages under way, replayed one after the other on the
  picture that is looked on, give what the artist's window shows (`WillMatch`). The
  replay is stated as a sequence of pictures that begins with one and ends with the
  other (`Replays`); such a sequence grows with a message that is published and loses
  its first picture with one that is handled, so no induction over the queue is
  needed. That the mode will be right is kept also while messages are missed
  (`ModeWillMatch`), since a repaired overlay relies on it; and a path that expires is
  completed and never the one in progress (`PathsAreFresh`).
- `SaidIsHeard`: each message in a command queue is about the call that the command
  before it is about, and the first about the service's room, which is why a word of
  one call is never published in the next (`CallsFollow`); data under way is of no
  later visit than the present one, so that a new visit makes all of it old
  (`DataFits`); and less has passed since a position went out than since one was
  last let through (`Throttled`). The numbers of the words in a queue follow one
  another (`Consecutive`), and do so with one more at the end or one less in front.
- `ListFollowsRoom`: the events that wait, applied to what the map says of a person,
  give what LiveKit says (`EventsTell`); whoever has a track enters or is in
  (`TracksEntered`); and the list is the newest snapshot, or one is due
  (`ListIsDue`), but where an older one has overtaken it (`Excused`).
- `ViewerShowsTheShare`: for the pictures, both slots are no older than the frame
  number that a redraw has read, at each of the writer's program counters
  (`Recent`, `TaskStands`), since the redraw may read any slot at any time; and a redraw
  that keeps the picture there is has read a number that is not above the one last
  uploaded, so that a picture recent by that one is recent by this, or the two are of
  different streams and the redraw has missed a restart. For the
  size, the last resize event under way tells the size (`LastToldIsSize`), and an
  awaited one has the aspect the window is to have (`AwaitsAspect`, `HasAspect`).
- `CamerasAreShown`: the events that wait are in the order LiveKit gave them, and the
  last about a camera says how it is (`EventsInOrder`); whoever is there is in the
  map before anything else is heard of him (`Entering`); each stream that runs is the
  one its participant's stop channel ends, and what has been heard of a camera has
  been done (`StreamsFollow`); the window, taken as it was last opened, will be open when
  the event loop has handled its queue (`WindowFollows`).
- `VoiceIsCaptured`: each thread has a flag of its own, and one that nobody has told to
  stop has the capturer's (`OneFlagEach`); as long as there is a sender, it is the
  call's, the track takes samples, and the thread with that flag goes on or its error
  waits (`CaptureGoesOn`); an open window shows the name the capturer keeps, which is
  that of the microphone this thread reads (`NameGoesWithIt`). That no two microphones are shown by one name
  (`NamesGiven`) is about a recursion over the list of names, and for lists of any
  length: there is a free number because fewer are taken than are tried
  (`FreeNumber`). The library's induction theorems take an operator and cannot be
  instantiated here; that the natural numbers are well founded can be cited, and so
  the least place at which the statement could fail is refuted instead.
- `ScreensAreAsShown`: the invariant itself is short (the list is of windows on the
  desktop, each once, and as long as the desktop is the one that was listed it is what
  would be listed now: `ListIsGood`; the mark is on a window of the list, and on
  the one at the cursor when the mouse chose it: `MarkIsGood`). The work is in what the algorithms compute, for lists of
  any length (in `Facts`). A recursive function that goes through a list exists (`StepsExist`) and is
  right at every place (`OneByOne`, the least place again). What is left of a frame
  behind others is the points that none of them covers (`FragmentsExact`). Occluders
  that are not seen themselves may be left out, since whatever they cover is covered
  (`BehindTheSeen`), so that the list has the windows of which a point is seen
  (`SeenPlacesExact`), in their order (`AtPlacesInOrder`). The property looks at the
  corners of frames only, which is enough (`CornersSuffice`: move any point left and up
  to the nearest edges). The arrow keys go back to where they came from because windows
  have identities of their own (`RoundAndBack`), and from monitor to monitor because
  each has a place of its own among those in line (`PlacesAreTaken`, the pigeonhole
  principle once more). TLC checked this invariant with two changes of the desktop
  before it was proved.
- `PointersAreTrue`: for the pictures, what the last event that waits says of a person
  is whether the person is there (`EventsTellPresence`), and what is left of it in a
  picture (`PictureTells`); adding and removing one keeps names apart and colours
  between the people and the pool (`GoodPicture`), through the lists in which people are
  added (`AddInOrderKeeps`) and the letters a name is made longer by (`NameIsFree`).
  For the drawing, how late a change is, how long the next frame takes at most
  (`NextFrameYet`) and what frames that may yet be lost cost (`LostWaits`) stay within
  the time allowed (`DrawnInTime`), a sum no step increases; and as long as no signal
  waits, the time since the last one leaves room for each ripple to end, each click to
  be drawn and each pointer to be hidden before the thread rests (`HeardAll`).

### Only model-checked

- Liveness: `PresenceConverges`, `RingingStops`, `GoneIsOffline`, `NoThreadIsStuck`,
  `HangUpEndsAll`, `NoCallIsForgotten`, `StopIsHonoured`, `NothingHangs`, and the
  fairness part of `ImplementsSession`. TLAPS has no rule for fairness here.
- All violations.

## Not modelled, and why

Rendering, audio samples, camera formats and encoding are data; teams, e-mail and
authentication are requests to a database or a service with no state between two of
them; the web application and the documentation hold no state of the system. Two
goroutines writing one socket at once is misuse of the library whose effects the
code does not describe. Parts of the core logic that are left are in the plan.

## Plan

What is left, by how much of the system's behaviour hangs on it.

1. `CallInvite`: invitations into a running call (`websocketHandlers.go`
   643-773, `hooks.ts`, the invite banner) and their one-time record: a response
   is delivered at most once, an invitation that was cancelled is not accepted.
2. The reader of `socket_lib`: a frame cut by the read timeout. `AppSocket` has
   whole messages only, so what a cut does is not shown.
3. `Billing`: subscription rows under duplicated and reordered Stripe events
   (`billing.go`).
4. An abstract presence (who is in which call) implemented by `CallState` between
   sweeps, an abstract lock (one holder of control, or a change in progress) by
   `CursorControl`, an abstract call (idle, ringing, on) by `CallRing`; with their
   step simulations as theorems.
5. The client's switches between rows and its reconnection (`socket.ts`).
