-------------------------------- MODULE AppSocket --------------------------------
(***************************************************************************)
(* The application and its core process, and the socket between them       *)
(* (core/socket_lib/src/lib.rs, tauri/src-tauri/src/{lib,main,shortcuts,   *)
(* app_activation}.rs, the socket threads of core/src/lib.rs).             *)
(*                                                                         *)
(* The application's commands run on threads of their own and share the    *)
(* mutex of AppData, which a command keeps while it waits for the core's   *)
(* answer; a forwarder thread passes the core's events on and needs that   *)
(* mutex for some of them.  The reader thread of each side splits what     *)
(* arrives into events and responses.  A message is in the queue it will   *)
(* be read from as soon as it is sent: what is lost with a process is lost *)
(* with its queues.                                                        *)
(***************************************************************************)
EXTENDS Naturals, Sequences, FiniteSets

CONSTANTS
    Cmd,            \* threads that run the application's commands
    Setting,        \* values of a setting that the core follows
    Default,        \* the value the core starts with
    None,           \* nobody
    MaxRequests,    \* bound: commands the user gives
    MaxFaults       \* bound: failures of the core

ASSUME SocketAssumption ==
    /\ IsFiniteSet(Cmd) /\ None \notin Cmd /\ Default \in Setting /\ None \notin Setting
    /\ MaxRequests \in Nat /\ MaxFaults \in Nat

VARIABLES
    app,            \* the application runs
    lock,           \* the thread that holds the mutex of AppData
    asked,          \* the request a thread waits for, if any
    responses,      \* the application's response queue
    events,         \* the events the forwarder reads
    forwarding,     \* the forwarder thread runs
    unread,         \* events of a core whose queue nobody took
    callActive,     \* AppData.call_active
    setting,        \* a saved setting
    control,        \* the saved remote_control_enabled
    owed,           \* what a thread has saved of it and not sent yet, if anything
    word,           \* where the core was last told of it from: "none", the "call", what is
                    \* "saved", or a "stale" value that another save has overtaken
    core,           \* "up", "hung", "failed" (exit code 2) or "dead"
    restarted,      \* this core replaced one that had failed
    ui,             \* the core's events, dispatched to its event loop
    answers,        \* the core's response queue
    pending,        \* the camera start that waits for the preferred camera, or 0
    inCall,         \* the core was told to start a call, and not to end it since
    coreSetting,    \* the setting as the core has it
    coreControl,    \* remote_control_enabled as the core has it
    abandoned,      \* requests whose sender does not wait for the answer
    requests,       \* commands given
    faults          \* failures of the core

settings == <<setting, control, owed, word>>
coreSettings == <<coreSetting, coreControl>>
appVars == <<app, lock, asked, responses, forwarding, callActive, settings>>
coreVars == <<core, restarted, answers, pending, inCall, coreSettings>>
vars == <<appVars, coreVars, events, unread, ui, abandoned, requests, faults>>

Message(type, id, arg) == [type |-> type, id |-> id, arg |-> arg]
NoRequest == Message("none", 0, None)

CoreRuns == core \in {"up", "hung"}
Free == app /\ lock = None
Waits(t) == asked[t] # NoRequest

--------------------------------------------------------------------------------
(* The application's commands. *)

\* SocketSender::send, from the application: one message of several on a mutex, whole
\* or, when the core is gone, not at all.
Sent(news) == ui' = IF CoreRuns THEN ui \o news ELSE ui

Request(t) ==
    /\ Free /\ ~Waits(t) /\ owed[t] = None
    /\ requests < MaxRequests /\ requests' = requests + 1

\* Mutant of KeepsLock: the mutex is free while the command waits.
WaitsUnlocked(t) == lock' = lock
KeepsLock(t) == lock' = t

\* list_microphones, list_webcams, select_microphone, start_camera with a device,
\* bring_windows_to_front: a request and its answer, of one kind.
Ask(t, type, arg) ==
    /\ Request(t)
    /\ IF CoreRuns
       THEN /\ KeepsLock(t)
            /\ asked' = [asked EXCEPT ![t] = Message(type, requests', arg)]
       ELSE UNCHANGED <<lock, asked>>
    /\ Sent(<<Message(type, requests', arg)>>)
    /\ UNCHANGED <<app, responses, events, unread, forwarding, callActive, settings,
                   coreVars, abandoned, faults>>

List(t) == Ask(t, "list", None)
StartCamera(t) == Ask(t, "camera", Default)

\* start_camera without a device: the core will ask for the preferred one.
StartPreferredCamera(t) == Ask(t, "camera", None)

\* call_started first lists the audio devices, then starts the call, all on the mutex.
CallStarted(t) == Ask(t, "list", "call")

\* What the command does with the answer it took, or with none.
Answered(t, ok) ==
    IF asked[t].arg = "call" /\ asked[t].type = "list" /\ CoreRuns
    THEN /\ asked' = [asked EXCEPT ![t] = Message("call", @.id, "call")]
         /\ Sent(<<Message("call", asked[t].id, "call")>>)
         /\ UNCHANGED <<lock, callActive>>
    ELSE /\ asked' = [asked EXCEPT ![t] = NoRequest]
         /\ lock' = None
         /\ callActive' = (callActive \/ (asked[t].type = "call" /\ ok))
         /\ UNCHANGED ui

\* recv_expected_response: an answer of the kind it wants is taken for its own; if it
\* is that of an earlier request, its own stays for a later one.
TakeAnswer(t) ==
    /\ app /\ Waits(t) /\ responses # <<>>
    /\ Head(responses).type = asked[t].type
    /\ responses' = Tail(responses)
    /\ Answered(t, Head(responses).arg = "ok")
    /\ abandoned' = abandoned \cup ({asked[t].id} \ {Head(responses).id})
    /\ UNCHANGED <<app, events, unread, forwarding, settings, coreVars, requests, faults>>

\* An answer of another kind is dropped.
SkipAnswer(t) ==
    /\ app /\ Waits(t) /\ responses # <<>>
    /\ Head(responses).type # asked[t].type
    /\ responses' = Tail(responses)
    /\ UNCHANGED <<app, lock, asked, events, unread, forwarding, callActive, settings,
                   coreVars, ui, abandoned, requests, faults>>

\* Mutant of GivesUp: a command waits until it is answered.
NeverGivesUp == FALSE

\* Ten seconds have passed, or the reader thread has ended with the core.
GivesUp == TRUE

NoAnswer(t) ==
    /\ app /\ Waits(t) /\ responses = <<>> /\ GivesUp
    /\ Answered(t, FALSE)
    /\ abandoned' = abandoned \cup {asked[t].id}
    /\ UNCHANGED <<app, responses, events, unread, forwarding, settings, coreVars,
                   requests, faults>>

\* handle_camera, the global shortcut: nobody waits for the result.
ShortcutCamera(t) ==
    /\ Request(t)
    /\ Sent(<<Message("camera", requests', Default)>>)
    /\ abandoned' = abandoned \cup {requests'}
    /\ UNCHANGED <<appVars, events, unread, coreVars, faults>>

\* end_call.
EndCall(t) ==
    /\ Request(t)
    /\ Sent(<<Message("end", requests', None)>>)
    /\ callActive' = FALSE
    /\ UNCHANGED <<app, lock, asked, responses, events, unread, forwarding, settings,
                   coreVars, abandoned, faults>>

\* reset_core_process and the shortcut for ending a call: only the core hears of it.
HangUp(t) ==
    /\ Request(t)
    /\ Sent(<<Message("end", requests', None)>>)
    /\ UNCHANGED <<appVars, events, unread, coreVars, abandoned, faults>>

\* Mutant of SaveSetting: it is saved and not sent.
SaveOnly(t, value) ==
    /\ Request(t)
    /\ setting' = value
    /\ UNCHANGED <<app, lock, asked, responses, events, unread, forwarding, callActive,
                   control, owed, word, coreVars, ui, abandoned, faults>>

\* set_noise_cancellation, set_screen_share_resolution, set_screen_share_picker_mode,
\* set_telemetry_enabled: saved and sent while the mutex is held.
SaveSetting(t, value) ==
    /\ Request(t)
    /\ setting' = value
    /\ Sent(<<Message("set", requests', value)>>)
    /\ UNCHANGED <<app, lock, asked, responses, events, unread, forwarding, callActive,
                   control, owed, word, coreVars, abandoned, faults>>

\* set_remote_control_enabled saves, and lets go of the mutex ...
SaveControl(t, value) ==
    /\ Request(t)
    /\ control' = value
    /\ owed' = [owed EXCEPT ![t] = value]
    /\ UNCHANGED <<app, lock, asked, responses, events, unread, forwarding, callActive,
                   setting, word, coreVars, ui, abandoned, faults>>

\* ... before it sends, in set_controller_cursor: another thread may have saved since.
SendControl(t) ==
    /\ Free /\ owed[t] # None
    /\ Sent(<<Message("control", 0, owed[t])>>)
    /\ owed' = [owed EXCEPT ![t] = None]
    /\ word' = IF owed[t] = control THEN "saved" ELSE "stale"
    /\ UNCHANGED <<app, lock, asked, responses, events, unread, forwarding, callActive,
                   setting, control, coreVars, abandoned, requests, faults>>

\* The core is told of it and it is not saved (set_controller_cursor, from a call), or told
\* what is saved (get_available_content, whose other message opens the window picker).
TellControl(t, value, from) ==
    /\ Request(t)
    /\ Sent(<<Message("control", 0, value)>>)
    /\ word' = from
    /\ UNCHANGED <<app, lock, asked, responses, events, unread, forwarding, callActive,
                   setting, control, owed, coreVars, abandoned, faults>>

SetControllerCursor(t, value) == TellControl(t, value, "call")
GetAvailableContent(t) == TellControl(t, control, "saved")

\* quit_app: the call is ended, and the process; its end of the socket goes with it.
Quit(t) ==
    /\ Request(t)
    /\ Sent(<<Message("end", requests', None)>>)
    /\ app' = FALSE
    /\ UNCHANGED <<lock, asked, responses, events, unread, forwarding, callActive,
                   settings, coreVars, abandoned, faults>>

--------------------------------------------------------------------------------
(* The forwarder thread. *)

Event(type) == app /\ forwarding /\ events # <<>> /\ Head(events).type = type

MayForward == lock = None

ForwardCallEnded ==
    /\ Event("ended") /\ MayForward
    /\ callActive' = FALSE
    /\ events' = Tail(events)
    /\ UNCHANGED <<app, lock, asked, responses, unread, forwarding, settings, coreVars,
                   ui, abandoned, requests, faults>>

ForwardQuery ==
    /\ Event("query") /\ MayForward
    /\ answers' = IF CoreRuns /\ ~restarted THEN Append(answers, Head(events).id) ELSE answers
    /\ events' = Tail(events)
    /\ UNCHANGED <<appVars, unread, core, restarted, pending, inCall, coreSettings, ui,
                   abandoned, requests, faults>>

\* The first core is gone and all its events are handled.
ForwarderEnds ==
    /\ app /\ forwarding /\ events = <<>>
    /\ ~CoreRuns \/ restarted
    /\ forwarding' = FALSE
    /\ UNCHANGED <<app, lock, asked, responses, callActive, settings, coreVars, events,
                   unread, ui, abandoned, requests, faults>>

--------------------------------------------------------------------------------
(* The core's event loop. *)

Loops == core = "up" /\ pending = 0
Handles(type) == Loops /\ ui # <<>> /\ Head(ui).type = type

\* SocketSender::send, from the core.  take_events has taken the first core's events
\* for the forwarder; nobody takes those of another.
Emit(type, id) ==
    IF restarted
    THEN /\ unread' = Append(unread, Message(type, id, None))
         /\ UNCHANGED events
    ELSE /\ events' = Append(events, Message(type, id, None))
         /\ UNCHANGED unread

Result == {"ok", "failed"}
Respond(type, id, result) == responses' = Append(responses, Message(type, id, result))

\* ListAudioDevices, ListCameras, StartAudioCapture, BringWindowsToFront.
ListDevices ==
    /\ Handles("list")
    /\ ui' = Tail(ui)
    /\ Respond("list", Head(ui).id, "ok")
    /\ UNCHANGED <<app, lock, asked, forwarding, callActive, settings, coreVars, events,
                   unread, abandoned, requests, faults>>

\* StartCamera with a device: it starts or it does not.
CameraStarts ==
    /\ Handles("camera") /\ Head(ui).arg # None
    /\ ui' = Tail(ui)
    /\ \E result \in Result : Respond("camera", Head(ui).id, result)
    /\ UNCHANGED <<app, lock, asked, forwarding, callActive, settings, coreVars, events,
                   unread, abandoned, requests, faults>>

\* StartCamera without one: the event loop asks for the preferred one and waits.
QueryPreferredCamera ==
    /\ Handles("camera") /\ Head(ui).arg = None
    /\ pending' = Head(ui).id
    /\ Emit("query", Head(ui).id)
    /\ ui' = Tail(ui)
    /\ UNCHANGED <<appVars, core, restarted, answers, inCall, coreSettings, abandoned,
                   requests, faults>>

\* An answer has come, perhaps to an earlier query, or half a second has passed.
CameraChosen ==
    /\ core = "up" /\ pending # 0
    /\ answers' = IF answers = <<>> THEN answers ELSE Tail(answers)
    /\ pending' = 0
    /\ \E result \in Result : Respond("camera", pending, result)
    /\ UNCHANGED <<app, lock, asked, forwarding, callActive, settings, core, restarted,
                   inCall, coreSettings, events, unread, ui, abandoned, requests, faults>>

\* CallStart.
CallStart ==
    /\ Handles("call")
    /\ ui' = Tail(ui)
    /\ \E result \in Result :
         /\ inCall' = (inCall \/ result = "ok")
         /\ Respond("call", Head(ui).id, result)
    /\ UNCHANGED <<app, lock, asked, forwarding, callActive, settings, core, restarted,
                   answers, pending, coreSettings, events, unread, abandoned, requests, faults>>

CallEnd ==
    /\ Handles("end")
    /\ ui' = Tail(ui)
    /\ inCall' = FALSE
    /\ Emit("ended", Head(ui).id)
    /\ UNCHANGED <<appVars, core, restarted, answers, pending, coreSettings, abandoned,
                   requests, faults>>

SetSetting ==
    /\ Handles("set")
    /\ ui' = Tail(ui)
    /\ coreSetting' = Head(ui).arg
    /\ UNCHANGED <<appVars, core, restarted, answers, pending, inCall, coreControl, events,
                   unread, abandoned, requests, faults>>

\* ControllerCursorEnabled.
ControllerCursorEnabled ==
    /\ Handles("control")
    /\ ui' = Tail(ui)
    /\ coreControl' = Head(ui).arg
    /\ UNCHANGED <<appVars, core, restarted, answers, pending, inCall, coreSetting, events,
                   unread, abandoned, requests, faults>>

\* The user ends the call in the camera or screen sharing window.
WindowHangUp ==
    /\ core = "up" /\ requests < MaxRequests
    /\ requests' = requests + 1
    /\ ui' = Append(ui, Message("end", requests', None))
    /\ UNCHANGED <<appVars, coreVars, events, unread, abandoned, faults>>

--------------------------------------------------------------------------------
(* Processes end. *)

Gone(how) ==
    /\ core' = how
    /\ ui' = <<>> /\ answers' = <<>> /\ pending' = 0 /\ inCall' = FALSE

\* The event loop blocks, the capture cannot be recovered (STREAM_FAILURE_EXIT_CODE),
\* or the process dies, as when its reader meets a timeout inside a frame.
CoreFault(how) ==
    /\ core = "up" /\ faults < MaxFaults
    /\ faults' = faults + 1
    /\ IF how = "hung" THEN core' = how /\ UNCHANGED <<ui, answers, pending, inCall>>
                       ELSE Gone(how)
    /\ UNCHANGED <<appVars, events, unread, restarted, coreSettings, abandoned, requests>>

\* HANG_PROTECTION: the thread saw no progress between two looks.
HangProtection ==
    /\ core = "hung"
    /\ Gone("dead")
    /\ UNCHANGED <<appVars, events, unread, restarted, coreSettings, abandoned, requests, faults>>

\* Mutant of Disconnected: the core does not notice.
NeverDisconnected == FALSE

Disconnected == ~app

\* The dispatching thread finds its channel closed (or no ping for half a minute).
CoreTerminates ==
    /\ CoreRuns /\ Disconnected
    /\ Gone("dead")
    /\ UNCHANGED <<appVars, events, unread, restarted, coreSettings, abandoned, requests, faults>>

\* show_stdout, exit code 2: a new core, its ends of the socket, and the server's URL;
\* the old EventSocket goes, and with it what was in its queue.
Restart ==
    /\ core = "failed" /\ Free
    /\ core' = "up" /\ restarted' = TRUE
    /\ responses' = <<>>
    /\ coreSetting' = Default /\ coreControl' = Default
    /\ UNCHANGED <<app, lock, asked, forwarding, callActive, settings, events, unread, ui,
                   answers, pending, inCall, abandoned, requests, faults>>

\* create_core_process fails.
RestartFails ==
    /\ core = "failed" /\ app
    /\ core' = "dead"
    /\ UNCHANGED <<appVars, events, unread, restarted, answers, pending, inCall,
                   coreSettings, ui, abandoned, requests, faults>>

--------------------------------------------------------------------------------
\* The first core has been started, and told of every setting but remote_control_enabled.
Init ==
    /\ app = TRUE
    /\ lock = None
    /\ asked = [t \in Cmd |-> NoRequest]
    /\ responses = <<>> /\ events = <<>> /\ unread = <<>> /\ answers = <<>>
    /\ forwarding = TRUE
    /\ callActive = FALSE
    /\ setting \in Setting /\ control \in Setting
    /\ ui = <<Message("set", 0, setting)>>
    /\ owed = [t \in Cmd |-> None] /\ word = "none"
    /\ coreSetting = Default /\ coreControl = Default
    /\ core = "up" /\ restarted = FALSE
    /\ pending = 0
    /\ inCall = FALSE
    /\ abandoned = {}
    /\ requests = 0 /\ faults = 0

Commands(t) ==
    \/ List(t) \/ StartCamera(t) \/ StartPreferredCamera(t) \/ CallStarted(t)
    \/ ShortcutCamera(t) \/ EndCall(t) \/ HangUp(t) \/ Quit(t)
    \/ SendControl(t) \/ GetAvailableContent(t)
    \/ \E value \in Setting :
         SaveSetting(t, value) \/ SaveControl(t, value) \/ SetControllerCursor(t, value)
Answers(t) == TakeAnswer(t) \/ SkipAnswer(t) \/ NoAnswer(t)
Forwarder == ForwardCallEnded \/ ForwardQuery \/ ForwarderEnds
EventLoop ==
    \/ ListDevices \/ CameraStarts \/ QueryPreferredCamera \/ CameraChosen
    \/ CallStart \/ CallEnd \/ SetSetting \/ ControllerCursorEnabled
Watchdogs == HangProtection \/ CoreTerminates
Environment ==
    \/ WindowHangUp \/ \E how \in {"hung", "failed", "dead"} : CoreFault(how)
    \/ Restart \/ RestartFails

Next ==
    \/ \E t \in Cmd : Commands(t) \/ Answers(t)
    \/ Forwarder \/ EventLoop \/ Watchdogs \/ Environment

\* Threads and timers go on; users and failures need not come.
Fairness ==
    /\ \A t \in Cmd : WF_vars(Answers(t))
    /\ WF_vars(Forwarder) /\ WF_vars(EventLoop) /\ WF_vars(Watchdogs)

Spec == Init /\ [][Next]_vars /\ Fairness

--------------------------------------------------------------------------------
(* Correctness. *)

Type == {"none", "list", "camera", "call", "end", "set", "control", "query", "ended"}
Arg == Setting \cup {None, "call"} \cup Result
Id == 0..MaxRequests
Messages == [type : Type, id : Id, arg : Arg]

\* Every variable has its type; whoever waits has the mutex, and nobody else has it.
TypeOK ==
    /\ app \in BOOLEAN /\ forwarding \in BOOLEAN /\ callActive \in BOOLEAN
    /\ lock \in Cmd \cup {None}
    /\ asked \in [Cmd -> Messages]
    /\ \A q \in {responses, events, unread, ui} : q \in Seq(Messages)
    /\ setting \in Setting /\ control \in Setting
    /\ owed \in [Cmd -> Setting \cup {None}] /\ word \in {"none", "call", "saved", "stale"}
    /\ coreSetting \in Setting /\ coreControl \in Setting
    /\ core \in {"up", "hung", "failed", "dead"} /\ restarted \in BOOLEAN
    /\ answers \in Seq(Id) /\ pending \in Id
    /\ inCall \in BOOLEAN
    /\ abandoned \subseteq Id
    /\ requests \in Id /\ faults \in 0..MaxFaults
    /\ \A t \in Cmd : Waits(t) <=> lock = t

\* An answer that a command takes is the answer to its own request, or to one that
\* nobody waits for any more: whatever commands run at the same time, none takes the
\* answer another one is waiting for.
AnswersMatch ==
    [][\A t \in Cmd :
         Waits(t) /\ asked'[t] # asked[t] /\ responses' # responses
         => Head(responses).id \in abandoned \cup {asked[t].id}]_vars

NobodyOwes == \A t \in Cmd : owed[t] = None

\* What is saved last is what the first core follows once it has handled its events.  Of
\* remote_control_enabled, which is saved and sent in two critical sections, and not at the
\* start, this excepts: a core that has not been told of it at all, one that was last told
\* by the call, a save that is not sent yet, and one that was sent after another had
\* overtaken it, each until the next save or choice of a screen.
SettingReachesCore ==
    core = "up" /\ ~restarted /\ ui = <<>> =>
        /\ coreSetting = setting
        /\ word = "saved" /\ NobodyOwes => coreControl = control

\* No command keeps its thread, and everybody else from the mutex, for ever.
CommandsEnd == \A t \in Cmd : Waits(t) ~> (~Waits(t) \/ ~app)

\* A core whose event loop hangs ends, and so does one whose application has gone:
\* "This is used for killing the core process in case the tauri app has crashed."
NoZombieCore == (core = "hung" \/ (~app /\ core = "up")) ~> core \in {"dead", "failed"}

\* Both: whatever the application and the core wait for has an end.
NothingHangs == CommandsEnd /\ NoZombieCore

\* "we restart it and say to the user to select a screen again": no event of the core
\* that runs waits for a reader when the thread that reads events has ended.
EventsAreRead == core = "up" /\ app /\ unread # <<>> => forwarding
================================================================================
