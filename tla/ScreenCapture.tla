------------------------------ MODULE ScreenCapture ------------------------------
(***************************************************************************)
(* The screen capturer of a core process (core/src/capture/capturer.rs,    *)
(* stream.rs and macos_stream.rs, and its use in core/src/lib.rs).         *)
(*                                                                         *)
(* One mutex guards the capturer.  The event loop starts and stops shares  *)
(* under it; the poll_stream thread takes the streams' messages and        *)
(* restarts a failed stream, holding the mutex over sleeps and retries.    *)
(* Each stream has a capture thread (or the system's queue) that delivers  *)
(* pictures and failures whenever it likes, also while it is being told to *)
(* stop.  A panic of poll_stream leaves the mutex poisoned; CallEnd then   *)
(* makes a new capturer.                                                   *)
(***************************************************************************)
EXTENDS Naturals, Sequences, FiniteSets

CONSTANTS
    Content,        \* the displays and windows that can be shared
    None,           \* no content
    MaxRequests,    \* bound: what the users ask for
    MaxNews,        \* bound: failures, stops by the system, moved windows
    MaxFailures,    \* MAX_STREAM_FAILURES_BEFORE_EXIT, for failures in a row
    MaxRetries      \* MAX_STREAM_FAILURES_BEFORE_EXIT, for attempts to start

ASSUME ContentAssumption == IsFiniteSet(Content) /\ None \notin Content
ASSUME BoundsAssumption ==
    MaxRequests \in Nat \ {0} /\ MaxNews \in Nat /\ MaxFailures \in Nat /\ MaxRetries \in Nat

\* A failure restarts a stream once and a share takes a request, so that neither bound
\* is ever in the way.
Stream == 1..(MaxRequests + MaxNews)
NoStream == 0
Share == 1..MaxRequests

VARIABLES
    backend,        \* "webrtc" (stream.rs) or "sck" (macos_stream.rs)
    available,      \* the contents the system lists as sources
    stream,         \* [share, content, failed, thread] of every stream
    streams, shares,    \* how many streams and shares have been started
    failures,       \* failures_count, which the copies of a stream share
    sized,          \* the stream buffer has the size of a picture, per share
    active,         \* active_stream
    taken,          \* the stream restart_stream has taken out of active_stream
    mutex,          \* the capturer's: "free", "loop", "poll" or "poisoned"
    channel,        \* StreamRuntimeMessages to poll_stream
    poll, tries,    \* where poll_stream is, and attempts to start a copy
    loop, wanted,   \* where the event loop is, and the content it is to share
    ui,             \* the event loop's user events
    inCall, track,  \* there is a room; its screen share track is unmuted
    over,           \* the process has ended
    requests, news

capture == <<stream, streams, shares, failures, sized, active, taken>>
world == <<backend, available, requests, news>>
room == <<inCall, track>>
vars == <<capture, world, room, mutex, channel, poll, tries, loop, wanted, ui, over>>

UserEvent(type, c) == [type |-> type, content |-> c]
Running(s) == stream[s].thread = "running"
ShareOf(s) == stream[s].share

--------------------------------------------------------------------------------
(* The users and the system. *)

Ask(type, c) ==
    /\ requests < MaxRequests
    /\ requests' = requests + 1
    /\ ui' = Append(ui, UserEvent(type, c))
    /\ UNCHANGED <<capture, backend, available, news, room, mutex, channel, poll, tries,
                   loop, wanted, over>>

AskShare == \E c \in Content : Ask("share", c)
AskStop == Ask("stop", None)
AskEnd == inCall /\ Ask("callEnd", None)
AskExit == Ask("terminate", None)

\* A display is unplugged or a window closed.
ContentGoes(c) ==
    /\ c \in available
    /\ available' = available \ {c}
    /\ UNCHANGED <<capture, backend, requests, news, room, mutex, channel, poll, tries,
                   loop, wanted, ui, over>>

--------------------------------------------------------------------------------
(* The capture threads. *)

\* run_capture_frame: one that was told to stop, or finds its channel closed, may be in
\* a last callback, or ends without one.
Calls(s) == stream[s].thread \in {"running", "told"}

\* A told thread's callback is its last.
Last(t) == IF t = "told" THEN "ended" ELSE t

News(s, message) ==
    /\ Calls(s) /\ news < MaxNews
    /\ news' = news + 1
    /\ channel' = Append(channel, message)
    /\ UNCHANGED <<streams, shares, sized, active, taken, backend, available, requests, room, mutex,
                   poll, tries, loop, wanted, ui, over>>

\* The callback has a picture: the failures before it do not count any more.
Frame(s) ==
    /\ Calls(s) /\ (failures[ShareOf(s)] > 0 \/ ~sized[ShareOf(s)])
    /\ failures' = [failures EXCEPT ![ShareOf(s)] = 0]
    /\ sized' = [sized EXCEPT ![ShareOf(s)] = TRUE]
    /\ stream' = [stream EXCEPT ![s].thread = Last(@)]
    /\ UNCHANGED <<streams, shares, active, taken, world, room, mutex, channel, poll, tries,
                   loop, wanted, ui, over>>

\* Or webrtc has a permanent error, which is counted and reported once per stream.
PermanentError(s) ==
    /\ backend = "webrtc" /\ ~stream[s].failed
    /\ News(s, "failed")
    /\ failures' = [failures EXCEPT ![ShareOf(s)] = @ + 1]
    /\ stream' = [stream EXCEPT ![s].failed = TRUE, ![s].thread = Last(@)]

\* Or the user has ended the capture with the system's controls: it says so again at
\* every attempt to capture.
UserStops(s) ==
    /\ backend = "webrtc"
    /\ News(s, "userStopped")
    /\ stream' = [stream EXCEPT ![s].thread = Last(@)]
    /\ UNCHANGED failures

\* SCK's output handler has a picture of a shared window that has moved or changed its
\* size.
SckFrame(s) ==
    /\ backend = "sck"
    /\ News(s, "frameChanged")
    /\ failures' = [failures EXCEPT ![ShareOf(s)] = 0]
    /\ stream' = [stream EXCEPT ![s].thread = Last(@)]

\* SCK's delegate: an error ends the stream, and then on_stop says nothing; otherwise
\* the user has stopped it.
SckError(s) ==
    /\ backend = "sck" /\ ~stream[s].failed
    /\ News(s, "failed")
    /\ failures' = [failures EXCEPT ![ShareOf(s)] = @ + 1]
    /\ stream' = [stream EXCEPT ![s].failed = TRUE, ![s].thread = Last(@)]

SckStops(s) ==
    /\ backend = "sck" /\ ~stream[s].failed
    /\ News(s, "userStopped")
    /\ stream' = [stream EXCEPT ![s].thread = "ended"]
    /\ UNCHANGED failures

--------------------------------------------------------------------------------
(* Streams. *)

\* Mutant of Told: the thread takes a closed channel for a time-out.
ToldNothing(s) == stream

\* stop_capture: the thread is told, and its channel is dropped.
Told(s) == [stream EXCEPT ![s].thread = IF @ = "running" THEN "told" ELSE @]

\* The sources are asked for at every start.
Found(c) == c \in available

\* Stream::start_capture finds the content among the sources and starts a thread.
Starts(share, c) ==
    /\ Found(c) /\ streams + 1 \in Stream
    /\ streams' = streams + 1
    /\ stream' = [stream EXCEPT ![streams + 1] =
                    [share |-> share, content |-> c, failed |-> FALSE, thread |-> "running"]]
    /\ active' = streams + 1

\* Capturer::stop_capture.
StopCapture ==
    /\ stream' = IF active = NoStream THEN stream ELSE Told(active)
    /\ active' = NoStream
    /\ UNCHANGED <<streams, shares, failures, sized, taken>>

--------------------------------------------------------------------------------
(* The event loop. *)

Handles(type) == loop = "idle" /\ ui # <<>> /\ Head(ui).type = type

\* stop_screenshare, in a handler that goes on to `next`.  With a poisoned mutex it
\* returns at once.
StopScreenshare(next) ==
    /\ loop' = next
    /\ \/ /\ mutex = "free"
          /\ StopCapture
          /\ track' = FALSE
       \/ /\ mutex = "poisoned"
          /\ UNCHANGED <<capture, track>>
    /\ UNCHANGED <<world, inCall, mutex, channel, poll, tries, over>>

\* UserEvent::StopScreenShare.
StopShare ==
    /\ Handles("stop")
    /\ StopScreenshare("idle")
    /\ ui' = Tail(ui)
    /\ UNCHANGED wanted

\* UserEvent::ScreenShare: whatever is shared ends first.
ShareStops ==
    /\ Handles("share")
    /\ StopScreenshare("starting")
    /\ wanted' = Head(ui).content
    /\ ui' = Tail(ui)

\* The mutex again: poll_stream may have had it in between.
ShareStarts ==
    /\ loop = "starting" /\ mutex = "free"
    /\ \/ /\ inCall /\ shares + 1 \in Share
          /\ Starts(shares + 1, wanted)
          /\ shares' = shares + 1
          /\ mutex' = "loop"
          /\ loop' = "extent"
       \/ /\ loop' = "idle"
          /\ UNCHANGED <<stream, streams, shares, active, mutex>>
    /\ wanted' = None
    /\ UNCHANGED <<failures, sized, taken, world, room, channel, poll, tries, ui, over>>

\* The event loop unwraps the poisoned mutex, and with it ends the process.
SharePanics ==
    /\ loop = "starting" /\ mutex = "poisoned"
    /\ over' = TRUE
    /\ UNCHANGED <<capture, world, room, mutex, channel, poll, tries, loop, wanted, ui>>

\* get_stream_extent: SCK knows the size, webrtc has it from the first picture.
HasExtent == active # NoStream /\ (backend = "sck" \/ sized[ShareOf(active)])

ShareGetsExtent ==
    /\ loop = "extent" /\ HasExtent
    /\ mutex' = "free"
    /\ track' = TRUE
    /\ loop' = "overlay"
    /\ UNCHANGED <<capture, world, inCall, channel, poll, tries, wanted, ui, over>>

\* Mutant of ShareHasNoExtent: the wait for the first picture has no end.
WaitForPicture == FALSE

\* No picture in 15 seconds.
ShareHasNoExtent ==
    /\ loop = "extent" /\ backend = "webrtc" /\ ~HasExtent
    /\ mutex' = "free"
    /\ loop' = "undo"
    /\ UNCHANGED <<capture, world, room, channel, poll, tries, wanted, ui, over>>

\* create_overlay_window: it is there, or the share is undone.
OverlayOpens ==
    /\ loop = "overlay"
    /\ loop' \in {"idle", "undo"}
    /\ UNCHANGED <<capture, world, room, mutex, channel, poll, tries, wanted, ui, over>>

UndoShare ==
    /\ loop = "undo"
    /\ StopScreenshare("idle")
    /\ UNCHANGED <<wanted, ui>>

\* UserEvent::CallEnd finds the mutex valid and goes on to stop the share and leave.
CallEnd ==
    /\ Handles("callEnd") /\ mutex = "free"
    /\ loop' = "leaving"
    /\ ui' = Tail(ui)
    /\ UNCHANGED <<capture, world, room, mutex, channel, poll, tries, wanted, over>>

LeaveCall ==
    /\ loop = "leaving" /\ mutex \in {"free", "poisoned"}
    /\ IF mutex = "free" THEN StopCapture ELSE UNCHANGED capture
    /\ inCall' = FALSE
    /\ track' = FALSE
    /\ loop' = "idle"
    /\ UNCHANGED <<world, mutex, channel, poll, tries, wanted, ui, over>>

\* Its mutex, its channel and its thread are new.
NewCapturer == mutex' = "free" /\ channel' = <<>> /\ poll' = "wait"

\* ... or poisoned, and makes a new capturer.
CallEndRecovers ==
    /\ Handles("callEnd") /\ mutex = "poisoned"
    /\ NewCapturer
    /\ inCall' = FALSE
    /\ track' = FALSE
    /\ ui' = Tail(ui)
    /\ UNCHANGED <<capture, world, tries, loop, wanted, over>>

\* UserEvent::CallStart: there is a room, and a track, again.
CallStart ==
    /\ loop = "idle" /\ ~inCall /\ requests < MaxRequests
    /\ inCall' = TRUE
    /\ UNCHANGED <<capture, world, track, mutex, channel, poll, tries, loop, wanted, ui, over>>

\* UserEvent::CaptureFrameChanged reads the active stream's frame.
CaptureFrameChanged ==
    /\ Handles("frameChanged") /\ mutex \in {"free", "poisoned"}
    /\ ui' = Tail(ui)
    /\ UNCHANGED <<capture, world, room, mutex, channel, poll, tries, loop, wanted, over>>

\* The event loop exits and the application is dropped: Stop for poll_stream, too.
Terminate ==
    /\ Handles("terminate")
    /\ loop' = "ended"
    /\ \/ /\ mutex = "free"
          /\ StopCapture
          /\ channel' = Append(channel, "stop")
       \/ /\ mutex = "poisoned"
          /\ UNCHANGED <<capture, channel>>
    /\ UNCHANGED <<world, room, mutex, poll, tries, wanted, ui, over>>

--------------------------------------------------------------------------------
(* poll_stream. *)

\* The message it takes says what it waits for the mutex for.
PollTakes ==
    /\ poll = "wait" /\ channel # <<>>
    /\ poll' = IF Head(channel) = "stop" THEN "dead" ELSE Head(channel)
    /\ channel' = Tail(channel)
    /\ UNCHANGED <<capture, world, room, mutex, tries, loop, wanted, ui, over>>

Forwards(message, type) ==
    /\ poll = message /\ mutex = "free"
    /\ poll' = "wait"
    /\ ui' = Append(ui, UserEvent(type, None))
    /\ UNCHANGED <<capture, world, room, mutex, channel, tries, loop, wanted, over>>

ForwardStop == Forwards("userStopped", "stop")
ForwardFrameChanged == Forwards("frameChanged", "frameChanged")

\* restart_stream sleeps with the mutex held.
RestartLocks ==
    /\ poll = "failed" /\ mutex = "free"
    /\ mutex' = "poll"
    /\ poll' = "restart"
    /\ UNCHANGED <<capture, world, room, channel, tries, loop, wanted, ui, over>>

\* Mutant of NothingToRestart: the early return keeps the mutex.
NothingUnlocked ==
    /\ poll = "restart" /\ active = NoStream
    /\ poll' = "wait"
    /\ UNCHANGED <<capture, world, room, mutex, channel, tries, loop, wanted, ui, over>>

\* There is no stream any more: it was stopped meanwhile.
NothingToRestart ==
    /\ poll = "restart" /\ active = NoStream
    /\ mutex' = "free"
    /\ poll' = "wait"
    /\ UNCHANGED <<capture, world, room, channel, tries, loop, wanted, ui, over>>

TooMany(s) == failures[ShareOf(s)] > MaxFailures

\* Too many failures in a row, or a copy that cannot be made, end the process, for the
\* application's health check to notice.
RestartTakes ==
    /\ poll = "restart" /\ active # NoStream
    /\ stream' = Told(active)
    /\ taken' = active
    /\ active' = NoStream
    /\ \/ TooMany(active) /\ over' = TRUE /\ UNCHANGED <<poll, tries>>
       \/ backend = "webrtc" /\ over' = TRUE /\ UNCHANGED <<poll, tries>>
       \/ ~TooMany(active) /\ poll' = "attempt" /\ tries' = 0 /\ UNCHANGED over
    /\ UNCHANGED <<streams, shares, failures, sized, world, room, mutex, channel, loop, wanted, ui>>

\* Mutant of Copied: the copy starts with the content that was asked for last.
CopiedContent(s) == CHOOSE c \in available : TRUE

\* Stream::copy keeps the source.
Copied(s) == stream[s].content

RestartSucceeds ==
    /\ poll = "attempt"
    /\ Starts(ShareOf(taken), Copied(taken))
    /\ taken' = NoStream
    /\ mutex' = "free"
    /\ poll' = "wait"
    /\ UNCHANGED <<shares, failures, sized, world, room, channel, tries, loop, wanted, ui, over>>

\* Mutant of RestartFindsNoSource: the event loop hears nothing.
ShareIsDropped ==
    /\ poll = "attempt" /\ ~Found(stream[taken].content)
    /\ taken' = NoStream
    /\ mutex' = "free"
    /\ poll' = "wait"
    /\ UNCHANGED <<stream, streams, shares, failures, sized, active, world, room, channel, tries,
                   loop, wanted, ui, over>>

\* SelectedSourceNotFound: the share is to stop, and active_stream stays empty.
RestartFindsNoSource ==
    /\ poll = "attempt" /\ ~Found(stream[taken].content)
    /\ ui' = Append(ui, UserEvent("stop", None))
    /\ taken' = NoStream
    /\ mutex' = "free"
    /\ poll' = "wait"
    /\ UNCHANGED <<stream, streams, shares, failures, sized, active, world, room, channel, tries,
                   loop, wanted, over>>

\* Another error: again with a further copy, until the process ends.
RestartFails ==
    /\ poll = "attempt"
    /\ \/ tries < MaxRetries /\ tries' = tries + 1 /\ UNCHANGED over
       \/ tries = MaxRetries /\ over' = TRUE /\ UNCHANGED tries
       \/ backend = "webrtc" /\ over' = TRUE /\ UNCHANGED tries
    /\ UNCHANGED <<capture, world, room, mutex, channel, poll, loop, wanted, ui>>

\* A panic below restart_stream: the stream it has taken is dropped.
RestartPanics ==
    /\ poll = "attempt"
    /\ taken' = NoStream
    /\ mutex' = "poisoned"
    /\ poll' = "dead"
    /\ UNCHANGED <<stream, streams, shares, failures, sized, active, world, room, channel, tries,
                   loop, wanted, ui, over>>

--------------------------------------------------------------------------------
Init ==
    /\ backend \in {"webrtc", "sck"}
    /\ available = Content
    /\ stream = [s \in Stream |->
                   [share |-> 1, content |-> None, failed |-> FALSE, thread |-> "none"]]
    /\ streams = 0 /\ shares = 0
    /\ failures = [h \in Share |-> 0]
    /\ sized = [h \in Share |-> FALSE]
    /\ active = NoStream /\ taken = NoStream
    /\ mutex = "free" /\ channel = <<>>
    /\ poll = "wait" /\ tries = 0
    /\ loop = "idle" /\ wanted = None
    /\ ui = <<>>
    /\ inCall = TRUE /\ track = FALSE
    /\ over = FALSE
    /\ requests = 0 /\ news = 0

Users ==
    \/ AskShare \/ AskStop \/ AskEnd \/ AskExit \/ CallStart
    \/ \E c \in Content : ContentGoes(c)
EventLoop ==
    \/ StopShare \/ ShareStops \/ ShareStarts \/ SharePanics \/ ShareGetsExtent
    \/ ShareHasNoExtent \/ OverlayOpens \/ UndoShare \/ CallEnd \/ LeaveCall
    \/ CallEndRecovers \/ CaptureFrameChanged \/ Terminate
PollStream ==
    \/ PollTakes \/ ForwardStop \/ ForwardFrameChanged
    \/ RestartLocks \/ NothingToRestart \/ RestartTakes
    \/ RestartSucceeds \/ RestartFindsNoSource \/ RestartFails
Threads ==
    \E s \in Stream :
      \/ Frame(s) \/ PermanentError(s) \/ UserStops(s)
      \/ SckFrame(s) \/ SckError(s) \/ SckStops(s)

Next == ~over /\ (Users \/ EventLoop \/ PollStream \/ RestartPanics \/ Threads)

\* Both threads run on: the event loop's waits and poll_stream's retries are bounded.
Fairness == WF_vars(~over /\ EventLoop) /\ WF_vars(~over /\ PollStream)

Spec == Init /\ [][Next]_vars /\ Fairness
--------------------------------------------------------------------------------
(* Correctness. *)

\* Every variable has its type, and who is inside the mutex holds it.
TypeOK ==
    /\ backend \in {"webrtc", "sck"} /\ available \subseteq Content
    /\ stream \in [Stream -> [share : Share, content : Content \cup {None}, failed : BOOLEAN,
                              thread : {"none", "running", "told", "ended"}]]
    /\ streams \in 0..(MaxRequests + MaxNews) /\ shares \in 0..MaxRequests
    /\ failures \in [Share -> 0..MaxNews] /\ sized \in [Share -> BOOLEAN]
    /\ active \in 0..streams /\ taken \in 0..streams
    /\ mutex \in {"free", "loop", "poll", "poisoned"}
    /\ channel \in Seq({"failed", "userStopped", "frameChanged", "stop"})
    /\ poll \in {"wait", "failed", "userStopped", "frameChanged", "restart", "attempt", "dead"}
    /\ tries \in 0..MaxRetries
    /\ loop \in {"idle", "starting", "extent", "overlay", "undo", "leaving", "ended"}
    /\ wanted \in Content \cup {None}
    /\ ui \in Seq([type : {"share", "stop", "callEnd", "frameChanged", "terminate"},
                   content : Content \cup {None}])
    /\ inCall \in BOOLEAN /\ track \in BOOLEAN /\ over \in BOOLEAN
    /\ requests \in 0..MaxRequests /\ news \in 0..MaxNews
    /\ (mutex = "loop") = (loop = "extent")
    /\ (mutex = "poll") = (poll \in {"restart", "attempt"})
    /\ taken # NoStream => poll = "attempt" \/ over

\* However restarts, stops and new shares cross: no capture thread runs on unknown to
\* the capturer, feeding the track beside the stream it has.
NoOrphan == \A s \in Stream : Running(s) => s = active

\* Nothing is under way in either thread.
Rest ==
    /\ loop = "idle" /\ ui = <<>> /\ poll = "wait" /\ channel = <<>> /\ mutex = "free"
    /\ ~over

\* At rest the room is sent a track exactly while there is a stream: a share that could
\* not be restarted, that was stopped by the system or that failed half-way has been
\* muted, and one that goes on has not.
TrackFollowsCapture == Rest => track = (active # NoStream)

\* Both: the stream the capturer has is all that is captured and all that is published.
CaptureIsAccountedFor == NoOrphan /\ TrackFollowsCapture

Sharing(h) == active # NoStream /\ ShareOf(active) = h

\* A stop that is asked for while a share goes on ends it, however long the capturer is
\* busy starting or restarting it.
StopIsHonoured ==
    \A h \in Share :
      (Sharing(h) /\ \E i \in DOMAIN ui : ui[i].type = "stop")
        ~> (~Sharing(h) \/ over \/ loop = "ended")

--------------------------------------------------------------------------------
(* The session that the rest of the core sees.  A stream that is being replaced still  *)
(* stands for the content it captures.                                                  *)

Current == IF taken # NoStream THEN taken ELSE active

Session == INSTANCE CaptureSession WITH
    content <- IF Current = NoStream THEN None ELSE stream[Current].content,
    failing <- Current # NoStream /\ stream[Current].failed,
    over <- over

\* The capturer implements the session: a restart keeps the content, nothing starts
\* but what a handler starts after a stop, and a failed capture is always dealt with.
ImplementsSession == Session!Spec
================================================================================
