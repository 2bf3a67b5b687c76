---------------------------- MODULE ApplicationProofs ----------------------------
(***************************************************************************)
(* Theorems about the application's parts: the socket between it and its   *)
(* core (AppSocket), its sounds (Sounds), its settings' file               *)
(* (SettingsFile), the shortcuts and windows of its back end (Backend) and *)
(* the microphone of its core (Audio).                                     *)
(*                                                                         *)
(* The socket.  That a command takes no answer that another one waits for  *)
(* rests on AnswersInv: a question under way, or its answer, is that of a  *)
(* command that waits, or nobody waits for it, and while somebody does     *)
(* there is one of it in all queues together.  As the command that waits   *)
(* has the mutex, it is the only one, so the head of the response queue    *)
(* is its own or abandoned.  That the core follows the settings rests on   *)
(* Follows: what the core will have, once it has handled its queue, is     *)
(* what is saved.                                                          *)
(*                                                                         *)
(* The microphone.  Names are given in a recursion over the list.  What    *)
(* holds of every step of it is proved of the least step at which it could *)
(* fail (LeastNumber), which says that the recursion has a value           *)
(* (GivenExists) and what that is (NamesGiven).                            *)
(***************************************************************************)
EXTENDS MCApplication, Facts

--------------------------------------------------------------------------------
(* The socket: types, and the settings that the core follows. *)

USE DEF settings, coreSettings

LEMMA MessageType ==
  /\ NoRequest \in Messages
  /\ \A type \in Type, id \in Id, arg \in Arg :
       /\ Message(type, id, arg) \in Messages
       /\ Message(type, id, arg).type = type
       /\ Message(type, id, arg).id = id
       /\ Message(type, id, arg).arg = arg
       /\ type # "none" => Message(type, id, arg) # NoRequest
  BY SocketAssumption DEF Messages, Message, NoRequest, Type, Id, Arg

\* What the core is told to follow is a value of a setting.
SettingsSent ==
    \A i \in DOMAIN ui : ui[i].type \in {"set", "control"} => ui[i].arg \in Setting

LEMMA InitType == Init => TypeOK
  <1> SUFFICES ASSUME Init PROVE TypeOK
    OBVIOUS
  <1>1. <<>> \in Seq(Messages) /\ <<>> \in Seq(Id)
    BY EmptySeq
  <1>2. \A q \in {responses, events, unread, ui} : q \in Seq(Messages)
    <2>1. Message("set", 0, setting) \in Messages
      BY MessageType, SocketAssumption DEF Init, Type, Id, Arg
    <2>2. ui \in Seq(Messages)
      BY <2>1 DEF Init
    <2> QED BY <1>1, <2>2 DEF Init
  <1>3. /\ lock \in Cmd \cup {None} /\ asked \in [Cmd -> Messages]
        /\ \A t \in Cmd : Waits(t) <=> lock = t
    BY MessageType, SocketAssumption DEF Init, Waits
  <1>4. /\ answers \in Seq(Id) /\ pending \in Id /\ requests \in Id /\ faults \in 0..MaxFaults
        /\ abandoned \subseteq Id
    BY <1>1, SocketAssumption DEF Init, Id
  <1> QED BY <1>2, <1>3, <1>4, SocketAssumption DEF Init, TypeOK

\* A request counts, and its number is new.
LEMMA RequestType ==
  ASSUME TypeOK, NEW t \in Cmd, Request(t)
  PROVE  requests' \in Id /\ requests' = requests + 1 /\ lock = None /\ lock # t
  BY SocketAssumption DEF TypeOK, Request, Free, Id

LEMMA SentType ==
  ASSUME TypeOK, NEW m \in Messages, Sent(<<m>>)
  PROVE  ui' \in Seq(Messages)
  <1>1. <<m>> \in Seq(Messages) /\ ui \in Seq(Messages)
    BY DEF TypeOK
  <1> QED BY <1>1, ConcatProperties DEF Sent

LEMMA AskType ==
  ASSUME TypeOK, NEW t \in Cmd, NEW type \in {"list", "camera", "call"}, NEW arg \in Arg,
         Ask(t, type, arg)
  PROVE  TypeOK'
  <1> DEFINE m == Message(type, requests', arg)
  <1>1. requests' \in Id /\ lock = None
    BY RequestType DEF Ask
  <1>2. m \in Messages /\ m # NoRequest
    BY <1>1, MessageType DEF Type
  <1>3. ui' \in Seq(Messages)
    BY <1>2, SentType DEF Ask
  <1>4. /\ lock' \in Cmd \cup {None} /\ asked' \in [Cmd -> Messages]
        /\ \A u \in Cmd : Waits(u)' <=> lock' = u
    <2>1. CASE CoreRuns
      <3>1. lock' = t /\ asked' = [asked EXCEPT ![t] = m]
        BY <2>1 DEF Ask, KeepsLock
      <3> HIDE DEF m
      <3> QED BY <1>1, <1>2, <3>1, SocketAssumption DEF TypeOK, Waits
    <2>2. CASE ~CoreRuns
      BY <2>2 DEF Ask, TypeOK, Waits
    <2> QED BY <2>1, <2>2
  <1> QED BY <1>1, <1>3, <1>4 DEF Ask, TypeOK, coreVars

\* What a command that waits does with an answer or with none: the mutex goes when it is
\* done, and not before.
LEMMA AnsweredType ==
  ASSUME TypeOK, NEW t \in Cmd, NEW ok \in BOOLEAN, Waits(t), Answered(t, ok)
  PROVE  /\ lock' \in Cmd \cup {None} /\ asked' \in [Cmd -> Messages]
         /\ \A u \in Cmd : asked'[u] # NoRequest <=> lock' = u
         /\ ui' \in Seq(Messages) /\ callActive' \in BOOLEAN
  <1>0. lock = t /\ asked[t] \in Messages
    BY DEF TypeOK
  <1>1. CASE asked[t].arg = "call" /\ asked[t].type = "list" /\ CoreRuns
    <2> DEFINE m == Message("call", asked[t].id, "call")
    <2>1. m \in Messages /\ m # NoRequest
      BY <1>0, MessageType DEF Type, Arg, Messages
    <2>2. asked' = [asked EXCEPT ![t] = m] /\ Sent(<<m>>) /\ UNCHANGED <<lock, callActive>>
      BY <1>1 DEF Answered
    <2> HIDE DEF m
    <2>3. ui' \in Seq(Messages)
      BY <2>1, <2>2, SentType
    <2> QED BY <1>0, <2>1, <2>2, <2>3 DEF TypeOK, Waits
  <1>2. CASE ~(asked[t].arg = "call" /\ asked[t].type = "list" /\ CoreRuns)
    <2>1. asked' = [asked EXCEPT ![t] = NoRequest] /\ lock' = None /\ UNCHANGED ui
      BY <1>2 DEF Answered
    <2>2. callActive' \in BOOLEAN
      BY <1>2, Zenon DEF Answered, TypeOK
    <2> QED BY <1>0, <2>1, <2>2, MessageType, SocketAssumption DEF TypeOK, Waits
  <1> QED BY <1>1, <1>2

LEMMA CommandsType ==
  ASSUME TypeOK, NEW t \in Cmd, Commands(t)
  PROVE  TypeOK'
  <1>1. CASE List(t) \/ StartCamera(t) \/ StartPreferredCamera(t) \/ CallStarted(t)
    <2>1. None \in Arg /\ Default \in Arg /\ "call" \in Arg
      BY SocketAssumption DEF Arg
    <2> QED BY <1>1, <2>1, AskType DEF List, StartCamera, StartPreferredCamera, CallStarted
  <1>2. ASSUME Request(t), NEW type \in Type, NEW arg \in Arg,
               Sent(<<Message(type, requests', arg)>>)
        PROVE  ui' \in Seq(Messages) /\ requests' \in Id
    BY <1>2, RequestType, MessageType, SentType
  <1>3. CASE ShortcutCamera(t)
    <2>1. ui' \in Seq(Messages) /\ requests' \in Id
      BY <1>2, <1>3, SocketAssumption DEF ShortcutCamera, Type, Arg
    <2> QED BY <1>3, <2>1 DEF ShortcutCamera, TypeOK, Waits, appVars, coreVars
  <1>4. CASE EndCall(t)
    <2>1. ui' \in Seq(Messages) /\ requests' \in Id
      BY <1>2, <1>4 DEF EndCall, Type, Arg
    <2> QED BY <1>4, <2>1 DEF EndCall, TypeOK, Waits, coreVars
  <1>5. CASE HangUp(t)
    <2>1. ui' \in Seq(Messages) /\ requests' \in Id
      BY <1>2, <1>5 DEF HangUp, Type, Arg
    <2> QED BY <1>5, <2>1 DEF HangUp, TypeOK, Waits, appVars, coreVars
  <1>6. CASE Quit(t)
    <2>1. ui' \in Seq(Messages) /\ requests' \in Id
      BY <1>2, <1>6 DEF Quit, Type, Arg
    <2> QED BY <1>6, <2>1 DEF Quit, TypeOK, Waits, coreVars
  <1>7. ASSUME NEW value \in Setting, SaveSetting(t, value) PROVE TypeOK'
    <2>1. ui' \in Seq(Messages) /\ requests' \in Id
      BY <1>2, <1>7 DEF SaveSetting, Type, Arg
    <2> QED BY <1>7, <2>1 DEF SaveSetting, TypeOK, Waits, coreVars
  <1>8. ASSUME NEW value \in Setting, SaveControl(t, value) PROVE TypeOK'
    BY <1>8, RequestType DEF SaveControl, TypeOK, Waits, coreVars
  <1>9. CASE SendControl(t)
    <2>1. owed[t] \in Setting /\ 0 \in Id
      BY <1>9, SocketAssumption DEF SendControl, TypeOK, Id
    <2>2. Message("control", 0, owed[t]) \in Messages
      BY <2>1, MessageType DEF Type, Arg
    <2>3. ui' \in Seq(Messages)
      BY <1>9, <2>2, SentType DEF SendControl
    <2> QED BY <1>9, <2>3 DEF SendControl, TypeOK, Waits, coreVars
  <1>10. ASSUME NEW value \in Setting, NEW from \in {"call", "saved"},
                TellControl(t, value, from)
         PROVE  TypeOK'
    <2>1. 0 \in Id /\ requests' \in Id
      BY <1>10, RequestType, SocketAssumption DEF TellControl, Id
    <2>2. Message("control", 0, value) \in Messages
      BY <2>1, MessageType DEF Type, Arg
    <2>3. ui' \in Seq(Messages)
      BY <1>10, <2>2, SentType DEF TellControl
    <2> QED BY <1>10, <2>1, <2>3 DEF TellControl, TypeOK, Waits, coreVars
  <1>11. control \in Setting
    BY DEF TypeOK
  <1> QED BY <1>1, <1>3, <1>4, <1>5, <1>6, <1>7, <1>8, <1>9, <1>10, <1>11
          DEF Commands, GetAvailableContent, SetControllerCursor

\* What is read from a queue of messages.
LEMMA HeadType ==
  ASSUME NEW q \in Seq(Messages), q # <<>>
  PROVE  /\ Tail(q) \in Seq(Messages)
         /\ Head(q).type \in Type /\ Head(q).id \in Id /\ Head(q).arg \in Arg
  <1>1. Head(q) \in Messages /\ Tail(q) \in Seq(Messages)
    BY HeadTailProperties
  <1> QED BY <1>1 DEF Messages

LEMMA AnswersType ==
  ASSUME TypeOK, NEW t \in Cmd, Answers(t)
  PROVE  TypeOK'
  <1>0. responses \in Seq(Messages) /\ asked[t] \in Messages
    BY DEF TypeOK
  <1>1. CASE TakeAnswer(t)
    <2>1. responses # <<>> /\ responses' = Tail(responses)
          /\ abandoned' = abandoned \cup ({asked[t].id} \ {Head(responses).id})
      BY <1>1 DEF TakeAnswer
    <2>2. responses' \in Seq(Messages) /\ abandoned' \subseteq Id
      BY <1>0, <2>1, HeadType DEF TypeOK, Messages
    <2>3. /\ lock' \in Cmd \cup {None} /\ asked' \in [Cmd -> Messages]
          /\ \A u \in Cmd : asked'[u] # NoRequest <=> lock' = u
          /\ ui' \in Seq(Messages) /\ callActive' \in BOOLEAN
      BY <1>1, AnsweredType DEF TakeAnswer
    <2> QED BY <1>1, <2>2, <2>3 DEF TakeAnswer, TypeOK, Waits, coreVars
  <1>2. CASE SkipAnswer(t)
    <2>1. responses' \in Seq(Messages)
      BY <1>0, <1>2, HeadType DEF SkipAnswer
    <2> QED BY <1>2, <2>1 DEF SkipAnswer, TypeOK, Waits, coreVars
  <1>3. CASE NoAnswer(t)
    <2>1. abandoned' \subseteq Id
      BY <1>0, <1>3 DEF NoAnswer, TypeOK, Messages
    <2>3. /\ lock' \in Cmd \cup {None} /\ asked' \in [Cmd -> Messages]
          /\ \A u \in Cmd : asked'[u] # NoRequest <=> lock' = u
          /\ ui' \in Seq(Messages) /\ callActive' \in BOOLEAN
      BY <1>3, AnsweredType DEF NoAnswer
    <2> QED BY <1>3, <2>1, <2>3 DEF NoAnswer, TypeOK, Waits, coreVars
  <1> QED BY <1>1, <1>2, <1>3 DEF Answers

LEMMA ForwarderType ==
  ASSUME TypeOK, Forwarder
  PROVE  TypeOK'
  <1>0. events \in Seq(Messages)
    BY DEF TypeOK
  <1>1. CASE ForwardCallEnded
    <2>1. events' \in Seq(Messages)
      BY <1>0, <1>1, HeadType DEF ForwardCallEnded, Event
    <2> QED BY <1>1, <2>1 DEF ForwardCallEnded, TypeOK, Waits, coreVars
  <1>2. CASE ForwardQuery
    <2>1. events' \in Seq(Messages) /\ Head(events).id \in Id
      BY <1>0, <1>2, HeadType DEF ForwardQuery, Event
    <2>2. answers' \in Seq(Id)
      BY <1>2, <2>1, AppendProperties DEF ForwardQuery, TypeOK
    <2> QED BY <1>2, <2>1, <2>2 DEF ForwardQuery, TypeOK, Waits, appVars
  <1>3. CASE ForwarderEnds
    BY <1>3 DEF ForwarderEnds, TypeOK, Waits, coreVars
  <1> QED BY <1>1, <1>2, <1>3 DEF Forwarder

LEMMA EmitType ==
  ASSUME TypeOK, NEW type \in Type, NEW id \in Id, Emit(type, id)
  PROVE  events' \in Seq(Messages) /\ unread' \in Seq(Messages)
  <1>1. Message(type, id, None) \in Messages
    BY MessageType DEF Arg
  <1>2. events \in Seq(Messages) /\ unread \in Seq(Messages)
    BY DEF TypeOK
  <1> QED BY SMTT(30), <1>1, <1>2, AppendProperties DEF Emit

LEMMA RespondType ==
  ASSUME TypeOK, NEW type \in Type, NEW id \in Id, NEW result \in Result,
         Respond(type, id, result)
  PROVE  responses' \in Seq(Messages)
  <1>1. Message(type, id, result) \in Messages
    BY MessageType DEF Arg
  <1> QED BY <1>1, AppendProperties DEF Respond, TypeOK

LEMMA EventLoopType ==
  ASSUME TypeOK, SettingsSent, EventLoop
  PROVE  TypeOK'
  <1>0. /\ ui \in Seq(Messages) /\ {"ok", "failed"} = Result
        /\ {"list", "camera", "call", "end", "set", "control", "query", "ended"} \subseteq Type
    BY DEF TypeOK, Result, Type
  <1>1. ASSUME NEW type, Handles(type), ui' = Tail(ui)
        PROVE  ui' \in Seq(Messages) /\ Head(ui).id \in Id /\ Head(ui).arg \in Arg
    BY <1>0, <1>1, HeadType DEF Handles
  <1>2. CASE ListDevices
    <2>1. ui' \in Seq(Messages) /\ responses' \in Seq(Messages)
      BY <1>0, <1>1, <1>2, RespondType DEF ListDevices
    <2> QED BY <1>2, <2>1 DEF ListDevices, TypeOK, Waits, coreVars
  <1>3. CASE CameraStarts
    <2>1. ui' \in Seq(Messages) /\ responses' \in Seq(Messages)
      BY <1>0, <1>1, <1>3, RespondType DEF CameraStarts
    <2> QED BY <1>3, <2>1 DEF CameraStarts, TypeOK, Waits, coreVars
  <1>4. CASE QueryPreferredCamera
    <2>1. /\ ui' \in Seq(Messages) /\ events' \in Seq(Messages) /\ unread' \in Seq(Messages)
          /\ pending' \in Id
      BY <1>0, <1>1, <1>4, EmitType DEF QueryPreferredCamera
    <2> QED BY <1>4, <2>1 DEF QueryPreferredCamera, TypeOK, Waits, appVars
  <1>5. CASE CameraChosen
    <2>1. responses' \in Seq(Messages)
      BY <1>0, <1>5, RespondType DEF CameraChosen, TypeOK
    <2>2. answers' \in Seq(Id) /\ pending' \in Id
      <3>1. answers \in Seq(Id)
        BY DEF TypeOK
      <3>2. answers' = IF answers = <<>> THEN answers ELSE Tail(answers)
        BY <1>5 DEF CameraChosen
      <3>3. answers' \in Seq(Id)
        BY <3>1, <3>2, HeadTailProperties
      <3>4. pending' \in Id
        BY <1>5, SocketAssumption DEF CameraChosen, Id
      <3> QED BY <3>3, <3>4
    <2> QED BY <1>5, <2>1, <2>2 DEF CameraChosen, TypeOK, Waits
  <1>6. CASE CallStart
    <2>1. ui' \in Seq(Messages) /\ Head(ui).id \in Id
      BY <1>1, <1>6 DEF CallStart
    <2>2. responses' \in Seq(Messages)
      BY <1>0, <1>6, <2>1, RespondType DEF CallStart
    <2>3. inCall' \in BOOLEAN
      BY <1>6, Zenon DEF CallStart, TypeOK
    <2> QED BY <1>6, <2>1, <2>2, <2>3 DEF CallStart, TypeOK, Waits
  <1>7. CASE CallEnd
    <2>1. /\ ui' \in Seq(Messages) /\ events' \in Seq(Messages) /\ unread' \in Seq(Messages)
      BY <1>0, <1>1, <1>7, EmitType DEF CallEnd
    <2> QED BY <1>7, <2>1 DEF CallEnd, TypeOK, Waits, appVars
  <1>8. CASE SetSetting \/ ControllerCursorEnabled
    <2>1. ui' \in Seq(Messages)
      BY <1>1, <1>8 DEF SetSetting, ControllerCursorEnabled
    <2>2. Head(ui).arg \in Setting
      <3>1. ui # <<>> /\ Head(ui).type \in {"set", "control"}
        BY <1>8 DEF SetSetting, ControllerCursorEnabled, Handles
      <3>2. 1 \in DOMAIN ui /\ Head(ui) = ui[1]
        BY <1>0, <3>1, LenProperties, EmptySeq
      <3> QED BY <3>1, <3>2 DEF SettingsSent
    <2> QED BY <1>8, <2>1, <2>2
            DEF SetSetting, ControllerCursorEnabled, TypeOK, Waits, appVars
  <1> QED BY <1>2, <1>3, <1>4, <1>5, <1>6, <1>7, <1>8 DEF EventLoop

LEMMA ProcessesType ==
  ASSUME TypeOK, Watchdogs \/ Environment
  PROVE  TypeOK'
  <1>1. CASE WindowHangUp
    <2>1. requests' \in Id
      BY <1>1, SocketAssumption DEF WindowHangUp, TypeOK, Id
    <2>2. Message("end", requests', None) \in Messages
      BY <2>1, MessageType DEF Type, Arg
    <2>3. ui' \in Seq(Messages)
      BY <1>1, <2>2, AppendProperties DEF WindowHangUp, TypeOK
    <2> QED BY <1>1, <2>1, <2>3 DEF WindowHangUp, TypeOK, Waits, appVars, coreVars
  <1>2. ASSUME NEW how \in {"failed", "dead"}, Gone(how)
        PROVE  /\ core' \in {"failed", "dead"} /\ ui' \in Seq(Messages) /\ answers' \in Seq(Id)
               /\ pending' \in Id /\ inCall' \in BOOLEAN
    <2>1. \A S : <<>> \in Seq(S)
      BY EmptySeq
    <2>2. 0 \in Id
      BY SocketAssumption DEF Id
    <2> QED BY <1>2, <2>1, <2>2 DEF Gone
  <1>3. ASSUME NEW how \in {"hung", "failed", "dead"}, CoreFault(how) PROVE TypeOK'
    <2>1. /\ core' \in {"hung", "failed", "dead"} /\ ui' \in Seq(Messages) /\ answers' \in Seq(Id)
          /\ pending' \in Id /\ inCall' \in BOOLEAN
      BY <1>2, <1>3 DEF CoreFault, TypeOK
    <2>2. faults' \in 0..MaxFaults
      BY <1>3, SocketAssumption DEF CoreFault, TypeOK
    <2> QED BY <1>3, <2>1, <2>2 DEF CoreFault, TypeOK, Waits, appVars
  <1>4. CASE Watchdogs
    <2>1. /\ core' \in {"failed", "dead"} /\ ui' \in Seq(Messages) /\ answers' \in Seq(Id)
          /\ pending' \in Id /\ inCall' \in BOOLEAN
      BY <1>2, <1>4 DEF Watchdogs, HangProtection, CoreTerminates
    <2> QED BY <1>4, <2>1 DEF Watchdogs, HangProtection, CoreTerminates, TypeOK, Waits, appVars
  <1>5. CASE Restart
    <2>1. responses' \in Seq(Messages)
      BY <1>5, EmptySeq DEF Restart
    <2> QED BY <1>5, <2>1, SocketAssumption DEF Restart, TypeOK, Waits
  <1>6. CASE RestartFails
    BY <1>6 DEF RestartFails, TypeOK, Waits, appVars
  <1> QED BY <1>1, <1>3, <1>4, <1>5, <1>6 DEF Environment

LEMMA NextType == TypeOK /\ SettingsSent /\ [Next]_vars => TypeOK'
  <1> SUFFICES ASSUME TypeOK, SettingsSent, [Next]_vars PROVE TypeOK'
    OBVIOUS
  <1>1. CASE UNCHANGED vars
    BY <1>1 DEF vars, appVars, coreVars, TypeOK, Waits
  <1> QED BY <1>1, CommandsType, AnswersType, ForwarderType, EventLoopType, ProcessesType
          DEF Next

LEMMA SentAppends ==
  ASSUME TypeOK, NEW m \in Messages, Sent(<<m>>)
  PROVE  ui' = IF CoreRuns THEN Append(ui, m) ELSE ui
  BY AppendIsConcat DEF Sent, TypeOK

\* What the core last heard of the saved remote_control_enabled is what is saved.
Told == word = "saved" /\ NobodyOwes

\* A step leaves alone what the core has of it, and is no news of what is saved.
ControlKept == UNCHANGED coreControl /\ (Told' => Told /\ UNCHANGED control)

\* A step takes the first message of the event loop's queue, and does what it says of the
\* settings, or adds one, which says what is saved, or does not claim to; or there is no
\* such core any more.
UiStep ==
    \/ ui' = <<>> /\ core' # "up"
    \/ /\ UNCHANGED ui
       /\ (UNCHANGED <<setting, coreSetting>> /\ ControlKept) \/ core' # "up" \/ restarted'
    \/ /\ ui # <<>> /\ ui' = Tail(ui) /\ UNCHANGED settings
       /\ coreSetting' = IF Head(ui).type = "set" THEN Head(ui).arg ELSE coreSetting
       /\ coreControl' = IF Head(ui).type = "control" THEN Head(ui).arg ELSE coreControl
    \/ /\ \E m \in Messages :
            /\ ui' = Append(ui, m)
            /\ IF m.type = "set" THEN m.arg = setting' ELSE UNCHANGED setting
            /\ IF m.type = "control" THEN m.arg \in Setting /\ (Told' => m.arg = control')
                                     ELSE ControlKept
       /\ UNCHANGED coreSettings

\* The first core does not come back.
OnlyOnce == core' = "up" /\ ~restarted' => core = "up" /\ ~restarted

LEMMA CommandUiStep ==
  ASSUME TypeOK, NEW t \in Cmd, Commands(t)
  PROVE  UiStep
  <1>1. ASSUME NEW type \in Type, NEW id \in Id, NEW arg \in Arg,
               Sent(<<Message(type, id, arg)>>),
               IF type = "set" THEN arg = setting' ELSE UNCHANGED setting,
               IF type = "control" THEN arg \in Setting /\ (Told' => arg = control')
                                   ELSE ControlKept,
               UNCHANGED <<core, coreSettings>>
        PROVE  UiStep
    <2>1. /\ Message(type, id, arg) \in Messages
          /\ Message(type, id, arg).type = type
          /\ Message(type, id, arg).arg = arg
      BY MessageType
    <2>2. ui' = IF CoreRuns THEN Append(ui, Message(type, id, arg)) ELSE ui
      BY <1>1, <2>1, SentAppends
    <2>3. CASE CoreRuns
      BY <1>1, <2>1, <2>2, <2>3 DEF UiStep
    <2>4. CASE ~CoreRuns
      BY <1>1, <2>2, <2>4 DEF UiStep, CoreRuns
    <2> QED BY <2>3, <2>4
  <1>2. ASSUME Request(t), NEW type \in Type \ {"set", "control"}, NEW arg \in Arg,
               Sent(<<Message(type, requests', arg)>>), UNCHANGED <<settings, core, coreSettings>>
        PROVE  UiStep
    <2>1. requests' \in Id
      BY <1>2, RequestType
    <2>2. ControlKept
      BY <1>2 DEF ControlKept, Told, NobodyOwes
    <2> QED BY <1>1, <1>2, <2>1, <2>2
  <1>3. ASSUME NEW type \in {"list", "camera"}, NEW arg \in Arg, Ask(t, type, arg) PROVE UiStep
    BY <1>2, <1>3 DEF Ask, coreVars, Type
  <1>4. CASE List(t) \/ StartCamera(t) \/ StartPreferredCamera(t) \/ CallStarted(t)
    <2>1. None \in Arg /\ Default \in Arg /\ "call" \in Arg
      BY SocketAssumption DEF Arg
    <2> QED BY <1>3, <1>4, <2>1 DEF List, StartCamera, StartPreferredCamera, CallStarted
  <1>5. CASE ShortcutCamera(t)
    BY <1>2, <1>5, SocketAssumption DEF ShortcutCamera, Type, Arg, appVars, coreVars
  <1>6. CASE EndCall(t) \/ HangUp(t) \/ Quit(t)
    BY <1>2, <1>6 DEF EndCall, HangUp, Quit, Type, Arg, appVars, coreVars
  <1>7. ASSUME NEW value \in Setting, SaveSetting(t, value) PROVE UiStep
    <2>1. requests' \in Id /\ "set" \in Type /\ value \in Arg
      BY <1>7, RequestType DEF SaveSetting, Type, Arg
    <2>2. ControlKept
      BY <1>7 DEF SaveSetting, ControlKept, Told, NobodyOwes, coreVars
    <2> QED BY <1>1, <1>7, <2>1, <2>2 DEF SaveSetting, coreVars
  \* What is saved is news, and its thread owes it to the core.
  <1>8. ASSUME NEW value \in Setting, SaveControl(t, value) PROVE UiStep
    <2>1. owed'[t] = value /\ value # None
      BY <1>8, SocketAssumption DEF SaveControl, TypeOK
    <2>2. ~Told'
      BY <2>1 DEF Told, NobodyOwes
    <2> QED BY <1>8, <2>2 DEF SaveControl, UiStep, ControlKept, coreVars
  <1>9. CASE SendControl(t)
    <2>1. owed[t] \in Setting /\ owed[t] \in Arg /\ 0 \in Id /\ "control" \in Type
      BY <1>9, SocketAssumption DEF SendControl, TypeOK, Id, Type, Arg
    <2>2. Told' => owed[t] = control'
      BY <1>9 DEF SendControl, Told
    <2> QED BY <1>1, <1>9, <2>1, <2>2 DEF SendControl, coreVars
  <1>10. CASE GetAvailableContent(t) \/ \E value \in Setting : SetControllerCursor(t, value)
    <2>1. PICK value \in Setting, from \in {"call", "saved"} :
            TellControl(t, value, from) /\ (from = "saved" => value = control)
      BY <1>10 DEF GetAvailableContent, SetControllerCursor, TypeOK
    <2>2. value \in Arg /\ 0 \in Id /\ "control" \in Type
      BY SocketAssumption DEF Id, Type, Arg
    <2>3. Told' => value = control'
      BY <2>1 DEF TellControl, Told
    <2> QED BY <1>1, <2>1, <2>2, <2>3 DEF TellControl, coreVars
  <1> QED BY <1>4, <1>5, <1>6, <1>7, <1>8, <1>9, <1>10 DEF Commands

LEMMA AnsweredUiStep ==
  ASSUME TypeOK, NEW t \in Cmd, NEW ok, Answered(t, ok), UNCHANGED <<settings, coreVars>>
  PROVE  UiStep
  <1>0. ControlKept
    BY DEF ControlKept, Told, NobodyOwes, coreVars
  <1>1. CASE asked[t].arg = "call" /\ asked[t].type = "list" /\ CoreRuns
    <2>1. asked[t].id \in Id
      BY DEF TypeOK, Messages
    <2>2. /\ Message("call", asked[t].id, "call") \in Messages
          /\ Message("call", asked[t].id, "call").type = "call"
      BY <2>1, MessageType DEF Type, Arg
    <2>3. ui' = Append(ui, Message("call", asked[t].id, "call"))
      BY <1>1, <2>2, SentAppends DEF Answered
    <2> QED BY <1>0, <2>2, <2>3 DEF UiStep, coreVars
  <1>2. CASE ~(asked[t].arg = "call" /\ asked[t].type = "list" /\ CoreRuns)
    BY <1>0, <1>2 DEF Answered, UiStep, coreVars
  <1> QED BY <1>1, <1>2

LEMMA UiSteps ==
  ASSUME TypeOK, [Next]_vars
  PROVE  UiStep /\ OnlyOnce
  <1>0. UNCHANGED <<settings, coreSettings>> => ControlKept
    BY DEF ControlKept, Told, NobodyOwes
  <1>1. ASSUME NEW t \in Cmd, Commands(t) PROVE UiStep /\ OnlyOnce
    <2>1. UNCHANGED coreVars
      BY <1>1 DEF Commands, List, StartCamera, StartPreferredCamera, CallStarted, Ask,
                  ShortcutCamera, EndCall, HangUp, Quit, SaveSetting, SaveControl,
                  SendControl, TellControl, GetAvailableContent, SetControllerCursor
    <2> QED BY <1>1, <2>1, CommandUiStep DEF coreVars, OnlyOnce
  <1>2. ASSUME NEW t \in Cmd, Answers(t) PROVE UiStep /\ OnlyOnce
    <2>1. CASE SkipAnswer(t)
      BY <1>0, <2>1 DEF SkipAnswer, coreVars, UiStep, OnlyOnce
    <2>2. CASE TakeAnswer(t) \/ NoAnswer(t)
      <3>1. UNCHANGED <<settings, coreVars>> /\ \E ok \in BOOLEAN : Answered(t, ok)
        BY <2>2 DEF TakeAnswer, NoAnswer
      <3> QED BY <3>1, AnsweredUiStep DEF OnlyOnce, coreVars
    <2> QED BY <1>2, <2>1, <2>2 DEF Answers
  <1>3. CASE Forwarder
    BY <1>0, <1>3 DEF Forwarder, ForwardCallEnded, ForwardQuery, ForwarderEnds, appVars, coreVars,
                UiStep, OnlyOnce
  <1>4. CASE EventLoop
    BY <1>0, <1>4 DEF EventLoop, ListDevices, CameraStarts, QueryPreferredCamera, CameraChosen,
                CallStart, CallEnd, SetSetting, ControllerCursorEnabled, Handles, appVars,
                coreVars, UiStep, OnlyOnce
  <1>5. CASE WindowHangUp
    <2>1. requests' \in Id
      BY <1>5, SocketAssumption DEF WindowHangUp, TypeOK, Id
    <2>2. /\ Message("end", requests', None) \in Messages
          /\ Message("end", requests', None).type = "end"
      BY <2>1, MessageType DEF Type, Arg
    <2> QED BY <1>0, <1>5, <2>2 DEF WindowHangUp, appVars, coreVars, UiStep, OnlyOnce
  <1>6. CASE Watchdogs
    BY <1>0, <1>6 DEF Watchdogs, HangProtection, CoreTerminates, Gone, UiStep, OnlyOnce
  <1>7. ASSUME NEW how \in {"hung", "failed", "dead"}, CoreFault(how) PROVE UiStep /\ OnlyOnce
    BY <1>0, <1>7 DEF CoreFault, Gone, appVars, UiStep, OnlyOnce
  <1>8. CASE Restart \/ RestartFails
    BY <1>0, <1>8 DEF Restart, RestartFails, appVars, UiStep, OnlyOnce
  <1>9. CASE UNCHANGED vars
    BY <1>0, <1>9 DEF vars, appVars, coreVars, UiStep, OnlyOnce
  <1> QED BY <1>1, <1>2, <1>3, <1>4, <1>5, <1>6, <1>7, <1>8, <1>9 DEF Next, Environment

\* The elements of a queue after its first is taken, and after one is added.
LEMMA TailElements ==
  ASSUME NEW q \in Seq(Messages), q # <<>>
  PROVE  /\ Len(q) \in Nat \ {0} /\ DOMAIN q = 1..Len(q) /\ Head(q) = q[1]
         /\ DOMAIN Tail(q) = 1..(Len(q) - 1)
         /\ \A i \in 1..(Len(q) - 1) : Tail(q)[i] = q[i + 1] /\ i + 1 \in 2..Len(q)
  BY HeadTailProperties, LenProperties, EmptySeq

LEMMA AppendElements ==
  ASSUME NEW q \in Seq(Messages), NEW m \in Messages
  PROVE  /\ Len(q) \in Nat /\ DOMAIN q = 1..Len(q) /\ DOMAIN Append(q, m) = 1..(Len(q) + 1)
         /\ \A i \in 1..Len(q) : Append(q, m)[i] = q[i]
         /\ Append(q, m)[Len(q) + 1] = m
  BY AppendProperties, LenProperties

LEMMA NextSettingsSent ==
  ASSUME TypeOK, TypeOK', SettingsSent, [Next]_vars
  PROVE  SettingsSent'
  <1>0. ui \in Seq(Messages) /\ setting' \in Setting
    BY DEF TypeOK
  <1>1. CASE ui' = <<>>
    <2>1. DOMAIN ui' = {}
      BY <1>1
    <2> QED BY <2>1 DEF SettingsSent
  <1>2. CASE UNCHANGED ui
    BY <1>2 DEF SettingsSent
  <1>3. CASE ui # <<>> /\ ui' = Tail(ui)
    BY <1>0, <1>3, TailElements DEF SettingsSent
  <1>4. ASSUME NEW m \in Messages, ui' = Append(ui, m),
               m.type = "set" => m.arg = setting', m.type = "control" => m.arg \in Setting
        PROVE  SettingsSent'
    <2>1. \A i \in 1..(Len(ui) + 1) : i = Len(ui) + 1 \/ i \in 1..Len(ui)
      BY <1>0, AppendElements
    <2> QED BY <1>0, <1>4, <2>1, AppendElements DEF SettingsSent
  <1> QED BY <1>1, <1>2, <1>3, <1>4, UiSteps DEF UiStep

\* What the last message of a type in q says, or v if there is none.
LastSays(type, q, v, w) ==
    \/ v = w /\ \A i \in DOMAIN q : q[i].type # type
    \/ \E i \in DOMAIN q :
         /\ q[i].type = type /\ q[i].arg = w
         /\ \A j \in DOMAIN q : j > i => q[j].type # type

LEMMA AppendSays ==
  ASSUME NEW type, NEW q \in Seq(Messages), NEW m \in Messages, NEW v, NEW w,
         IF m.type = type THEN m.arg = w ELSE LastSays(type, q, v, w)
  PROVE  LastSays(type, Append(q, m), v, w)
  <1> DEFINE a == Append(q, m)
  <1>1. /\ Len(q) \in Nat /\ DOMAIN q = 1..Len(q) /\ DOMAIN a = 1..(Len(q) + 1)
        /\ \A i \in 1..Len(q) : a[i] = q[i]
        /\ a[Len(q) + 1] = m
        /\ \A i \in 1..(Len(q) + 1) : i = Len(q) + 1 \/ i \in 1..Len(q)
    BY AppendElements
  <1> HIDE DEF a
  <1>2. CASE m.type = type
    <2>1. Len(q) + 1 \in DOMAIN a /\ \A j \in DOMAIN a : ~(j > Len(q) + 1)
      BY <1>1
    <2>2. LastSays(type, a, v, w)
      BY <1>1, <1>2, <2>1 DEF LastSays
    <2> QED BY <2>2 DEF a
  <1>3. CASE m.type # type
    <2>1. CASE v = w /\ \A i \in DOMAIN q : q[i].type # type
      <3>1. LastSays(type, a, v, w)
        BY <1>1, <1>3, <2>1 DEF LastSays
      <3> QED BY <3>1 DEF a
    <2>2. ASSUME NEW i \in DOMAIN q, q[i].type = type, q[i].arg = w,
                 \A j \in DOMAIN q : j > i => q[j].type # type
          PROVE  LastSays(type, a, v, w)
      <3>1. i \in DOMAIN a /\ a[i] = q[i]
        BY <1>1
      <3>2. \A j \in DOMAIN a : j > i => a[j].type # type
        BY <1>1, <1>3, <2>2
      <3> QED BY <2>2, <3>1, <3>2 DEF LastSays
    <2> QED BY <1>3, <2>1, <2>2 DEF LastSays, a
  <1> QED BY <1>2, <1>3

LEMMA TailSays ==
  ASSUME NEW type, NEW q \in Seq(Messages), q # <<>>, NEW v, NEW w, LastSays(type, q, v, w)
  PROVE  LastSays(type, Tail(q), IF Head(q).type = type THEN Head(q).arg ELSE v, w)
  <1> DEFINE a == Tail(q)
             x == IF Head(q).type = type THEN Head(q).arg ELSE v
  <1>1. /\ Len(q) \in Nat \ {0} /\ DOMAIN q = 1..Len(q) /\ Head(q) = q[1]
        /\ DOMAIN a = 1..(Len(q) - 1)
        /\ \A i \in 1..(Len(q) - 1) : a[i] = q[i + 1] /\ i + 1 \in 2..Len(q)
    BY TailElements
  <1> HIDE DEF a
  <1>2. CASE v = w /\ \A i \in DOMAIN q : q[i].type # type
    BY <1>1, <1>2 DEF LastSays, a
  <1>3. ASSUME NEW i \in DOMAIN q, q[i].type = type, q[i].arg = w,
               \A j \in DOMAIN q : j > i => q[j].type # type
        PROVE  LastSays(type, a, x, w)
    <2>1. CASE i = 1
      <3>1. x = w
        BY <1>1, <1>3, <2>1
      <3>2. \A j \in DOMAIN a : a[j].type # type
        <4>1. \A j \in DOMAIN a : j + 1 \in DOMAIN q /\ j + 1 > 1 /\ a[j] = q[j + 1]
          BY <1>1
        <4> QED BY <1>3, <2>1, <4>1
      <3> QED BY <3>1, <3>2 DEF LastSays
    <2>2. CASE i # 1
      <3>1. i - 1 \in DOMAIN a /\ a[i - 1] = q[i]
        BY <1>1, <2>2
      <3>2. \A j \in DOMAIN a : j > i - 1 => a[j].type # type
        <4>1. \A j \in DOMAIN a : j > i - 1 =>
                j + 1 \in DOMAIN q /\ j + 1 > i /\ a[j] = q[j + 1]
          BY <1>1
        <4> QED BY <1>3, <4>1
      <3> QED BY <1>3, <3>1, <3>2 DEF LastSays
    <2> QED BY <2>1, <2>2
  <1>4. LastSays(type, a, x, w)
    BY <1>2, <1>3 DEF LastSays, a
  <1> QED BY <1>4 DEF a

\* What the first core will follow once it has handled its events is what is saved, of
\* remote_control_enabled if that is what it was told last.
Follows ==
    core = "up" /\ ~restarted =>
        /\ LastSays("set", ui, coreSetting, setting)
        /\ Told => LastSays("control", ui, coreControl, control)

LEMMA NextFollows ==
  ASSUME TypeOK, Follows, [Next]_vars
  PROVE  Follows'
  <1> SUFFICES ASSUME core' = "up", ~restarted'
               PROVE  /\ LastSays("set", ui', coreSetting', setting')
                      /\ Told' => LastSays("control", ui', coreControl', control')
    BY DEF Follows
  <1>0. /\ ui \in Seq(Messages) /\ LastSays("set", ui, coreSetting, setting)
        /\ Told => LastSays("control", ui, coreControl, control)
    BY UiSteps DEF OnlyOnce, Follows, TypeOK
  <1>1. CASE UNCHANGED ui /\ UNCHANGED <<setting, coreSetting>> /\ ControlKept
    BY <1>0, <1>1 DEF ControlKept
  <1>2. CASE /\ ui # <<>> /\ ui' = Tail(ui) /\ UNCHANGED settings
             /\ coreSetting' = IF Head(ui).type = "set" THEN Head(ui).arg ELSE coreSetting
             /\ coreControl' = IF Head(ui).type = "control" THEN Head(ui).arg ELSE coreControl
    <2>1. Told' <=> Told
      BY <1>2 DEF Told, NobodyOwes
    <2> QED BY <1>0, <1>2, <2>1, TailSays
  <1>3. ASSUME NEW m \in Messages, ui' = Append(ui, m),
               IF m.type = "set" THEN m.arg = setting' ELSE UNCHANGED setting,
               IF m.type = "control" THEN m.arg \in Setting /\ (Told' => m.arg = control')
                                     ELSE ControlKept,
               UNCHANGED coreSettings
        PROVE  /\ LastSays("set", ui', coreSetting', setting')
               /\ Told' => LastSays("control", ui', coreControl', control')
    <2>1. LastSays("set", Append(ui, m), coreSetting, setting')
      BY <1>0, <1>3, AppendSays
    <2>2. ASSUME Told' PROVE LastSays("control", Append(ui, m), coreControl, control')
      <3>1. IF m.type = "control" THEN m.arg = control'
                                  ELSE LastSays("control", ui, coreControl, control')
        BY <1>0, <1>3, <2>2 DEF ControlKept
      <3> QED BY <1>0, <3>1, AppendSays
    <2> QED BY <1>3, <2>1, <2>2
  <1> QED BY <1>1, <1>2, <1>3, UiSteps DEF UiStep

SocketInv == TypeOK /\ SettingsSent /\ Follows

LEMMA InitSocket == Init => SocketInv
  <1> SUFFICES ASSUME Init PROVE SocketInv
    OBVIOUS
  <1>1. /\ DOMAIN ui = {1} /\ ui[1].type = "set" /\ ui[1].arg = setting
        /\ setting \in Setting /\ ~Told
    BY DEF Init, Message, Told
  <1> QED BY <1>1, InitType DEF SocketInv, SettingsSent, Follows, LastSays

LEMMA NextSocket == SocketInv /\ [Next]_vars => SocketInv'
  BY NextType, NextSettingsSent, NextFollows DEF SocketInv

\* Whatever commands, events and failures cross, every variable has its type, and
\* whoever waits has the mutex of AppData, and nobody else has it.
THEOREM SocketTypeCorrect == Spec => []TypeOK
  <1>1. SocketInv => TypeOK
    BY DEF SocketInv
  <1> QED BY <1>1, InitSocket, NextSocket, PTL DEF Spec

\* What is saved last is what the first core follows once it has handled its events;
\* remote_control_enabled (main.rs, set_remote_control_enabled and get_available_content)
\* is so if the core was told last what is saved, and no thread has saved it and not sent.
THEOREM SettingArrives == Spec => []SettingReachesCore
  <1>1. SocketInv => SettingReachesCore
    <2> SUFFICES ASSUME SocketInv, core = "up", ~restarted, ui = <<>>
                 PROVE  coreSetting = setting /\ (Told => coreControl = control)
      BY DEF SettingReachesCore, Told
    <2>1. DOMAIN ui = {}
      OBVIOUS
    <2> QED BY <2>1 DEF SocketInv, Follows, LastSays
  <1> QED BY <1>1, InitSocket, NextSocket, PTL DEF Spec

--------------------------------------------------------------------------------
(* Questions and their answers. *)

\* The messages that are answered, and their answers.
Asking(m) == m.type \in {"list", "camera", "call"}

Has(q, id) == \E i \in DOMAIN q : Asking(q[i]) /\ q[i].id = id
Once(q, id) ==
    \A i, j \in DOMAIN q : Asking(q[i]) /\ Asking(q[j]) /\ q[i].id = id /\ q[j].id = id => i = j

LEMMA EmptyHas == \A id : ~Has(<<>>, id) /\ Once(<<>>, id)
  BY DEF Has, Once

LEMMA AppendHas ==
  ASSUME NEW q \in Seq(Messages), NEW m \in Messages, NEW id
  PROVE  /\ Has(Append(q, m), id) <=> Has(q, id) \/ (Asking(m) /\ m.id = id)
         /\ Once(q, id) /\ ~(Has(q, id) /\ Asking(m) /\ m.id = id) => Once(Append(q, m), id)
  <1> DEFINE a == Append(q, m)
  <1>1. /\ Len(q) \in Nat /\ DOMAIN q = 1..Len(q) /\ DOMAIN a = 1..(Len(q) + 1)
        /\ \A i \in 1..Len(q) : a[i] = q[i]
        /\ a[Len(q) + 1] = m
        /\ \A i \in 1..(Len(q) + 1) : i = Len(q) + 1 \/ i \in 1..Len(q)
        /\ \A i \in 1..Len(q) : i \in 1..(Len(q) + 1)
        /\ Len(q) + 1 \in 1..(Len(q) + 1)
    BY AppendElements
  <1> HIDE DEF a
  <1>2. Has(a, id) <=> Has(q, id) \/ (Asking(m) /\ m.id = id)
    BY <1>1 DEF Has
  <1>3. Once(q, id) /\ ~(Has(q, id) /\ Asking(m) /\ m.id = id) => Once(a, id)
    BY <1>1 DEF Once, Has
  <1> QED BY <1>2, <1>3 DEF a

LEMMA TailHas ==
  ASSUME NEW q \in Seq(Messages), q # <<>>, NEW id
  PROVE  /\ Has(Tail(q), id) => Has(q, id)
         /\ Asking(Head(q)) => Has(q, Head(q).id)
         /\ Once(q, id) => Once(Tail(q), id)
         /\ Once(q, id) /\ Asking(Head(q)) /\ Head(q).id = id => ~Has(Tail(q), id)
  <1> DEFINE a == Tail(q)
  <1>1. /\ Len(q) \in Nat \ {0} /\ DOMAIN q = 1..Len(q) /\ Head(q) = q[1]
        /\ DOMAIN a = 1..(Len(q) - 1)
        /\ \A i \in 1..(Len(q) - 1) : a[i] = q[i + 1] /\ i + 1 \in 2..Len(q)
        /\ 1 \in 1..Len(q)
    BY TailElements
  <1> HIDE DEF a
  <1>2. \A i \in DOMAIN a : i + 1 \in DOMAIN q /\ i + 1 # 1 /\ a[i] = q[i + 1]
    BY <1>1
  <1>3. Has(a, id) => Has(q, id)
    BY <1>2 DEF Has
  <1>4. Asking(Head(q)) => Has(q, Head(q).id)
    BY <1>1 DEF Has
  <1>5. Once(q, id) => Once(a, id)
    <2>1. \A i, j \in DOMAIN a : i + 1 = j + 1 => i = j
      BY <1>1
    <2> QED BY <1>2, <2>1 DEF Once
  <1>6. Once(q, id) /\ Asking(Head(q)) /\ Head(q).id = id => ~Has(a, id)
    BY <1>1, <1>2 DEF Once, Has
  <1> QED BY <1>3, <1>4, <1>5, <1>6 DEF a

Waited(id) == \E t \in Cmd : Waits(t) /\ asked[t].id = id
Flying(id) == Has(ui, id) \/ Has(responses, id) \/ (pending = id /\ id # 0)
Alone(id) ==
    /\ Once(ui, id) /\ Once(responses, id) /\ ~(Has(ui, id) /\ Has(responses, id))
    /\ pending = id /\ id # 0 => ~Has(ui, id) /\ ~Has(responses, id)

\* A question under way, or its answer, is that of a command that waits, and then the only
\* one, or nobody waits for it.
AnswersInv ==
    /\ \A t \in Cmd : Waits(t) => Asking(asked[t]) /\ asked[t].id \in 1..requests
    /\ \A id \in Id : Flying(id) => id \in 1..requests /\ (id \in abandoned \/ Waited(id))
    /\ \A id \in Id \ abandoned : Alone(id)

LEMMA InitAnswers == Init => AnswersInv
  <1> SUFFICES ASSUME Init PROVE AnswersInv
    OBVIOUS
  <1>1. \A id : ~Has(ui, id) /\ Once(ui, id)
    <2>1. DOMAIN ui = {1} /\ ~Asking(ui[1])
      BY DEF Init, Message, Asking
    <2> QED BY <2>1 DEF Has, Once
  <1> QED BY <1>1, EmptyHas DEF Init, AnswersInv, Waits, Flying, Alone

\* What is under way gets less, or moves: the same commands wait, and nothing is new.
LEMMA LessFlies ==
  ASSUME TypeOK, AnswersInv, abandoned \subseteq abandoned', UNCHANGED asked,
         requests' \in {requests, requests + 1}, requests' \in Id,
         \A id \in Id : Flying(id)' => Flying(id),
         \A id \in Id \ abandoned' : Alone(id) => Alone(id)'
  PROVE  AnswersInv'
  <1>1. requests \in Nat /\ 1..requests \subseteq 1..requests'
    BY SocketAssumption DEF TypeOK, Id
  <1>2. \A t \in Cmd : Waits(t)' => Asking(asked[t])' /\ asked'[t].id \in 1..requests'
    BY <1>1 DEF AnswersInv, Waits, Asking
  <1>3. \A id : Waited(id) => Waited(id)'
    BY DEF Waited, Waits
  <1>4. \A id \in Id : Flying(id)' => id \in 1..requests' /\ (id \in abandoned' \/ Waited(id)')
    BY <1>1, <1>3 DEF AnswersInv
  <1>5. \A id \in Id \ abandoned' : Alone(id)'
    BY DEF AnswersInv
  <1> QED BY <1>2, <1>4, <1>5 DEF AnswersInv

\* A message that asks nothing joins the event loop's queue, or none does.
LEMMA NothingAsked ==
  ASSUME TypeOK, AnswersInv, UNCHANGED <<asked, responses, pending>>,
         abandoned \subseteq abandoned',
         requests' \in {requests, requests + 1}, requests' \in Id,
         \/ UNCHANGED ui
         \/ \E m \in Messages : ~Asking(m) /\ ui' = Append(ui, m)
  PROVE  AnswersInv'
  <1>0. ui \in Seq(Messages)
    BY DEF TypeOK
  <1>1. \A id : (Has(ui, id)' <=> Has(ui, id)) /\ (Once(ui, id) => Once(ui, id)')
    <2>1. CASE UNCHANGED ui
      BY <2>1 DEF Has, Once
    <2>2. ASSUME NEW m \in Messages, ~Asking(m), ui' = Append(ui, m)
          PROVE  \A id : (Has(ui', id) <=> Has(ui, id)) /\ (Once(ui, id) => Once(ui', id))
      BY <1>0, <2>2, AppendHas
    <2>3. CASE \E m \in Messages : ~Asking(m) /\ ui' = Append(ui, m)
      BY <2>2, <2>3 DEF Has, Once
    <2> QED BY <2>1, <2>3
  <1>2. \A id : /\ Has(responses, id)' <=> Has(responses, id)
                /\ Once(responses, id)' <=> Once(responses, id)
    BY DEF Has, Once
  <1>3. \A id : (Flying(id)' => Flying(id)) /\ (Alone(id) => Alone(id)')
    BY <1>1, <1>2 DEF Flying, Alone
  <1> QED BY <1>3, LessFlies

\* A message that asks with the number of a new request.
LEMMA FreshAsked ==
  ASSUME TypeOK, AnswersInv, NEW m \in Messages, Asking(m), m.id = requests',
         ui' = Append(ui, m),
         requests' = requests + 1, requests' \in Id, UNCHANGED <<responses, pending>>,
         abandoned \subseteq abandoned',
         \/ UNCHANGED asked /\ m.id \in abandoned'
         \/ \E t \in Cmd : ~Waits(t) /\ asked' = [asked EXCEPT ![t] = m]
  PROVE  AnswersInv'
  <1>0. /\ ui \in Seq(Messages) /\ requests \in Nat /\ asked \in [Cmd -> Messages]
        /\ 1..requests' = (1..requests) \cup {requests'} /\ requests' \notin 1..requests
        /\ requests' # 0
    <2>1. requests \in Nat
      BY SocketAssumption DEF TypeOK, Id
    <2>2. ui \in Seq(Messages) /\ asked \in [Cmd -> Messages]
      BY DEF TypeOK
    <2> QED BY <2>1, <2>2
  <1>1. \A id : /\ Has(ui, id)' <=> Has(ui, id) \/ id = requests'
                /\ Once(ui, id) /\ ~(Has(ui, id) /\ id = requests') => Once(ui, id)'
    BY SMTT(30), <1>0, AppendHas DEF Has, Once
  <1>2. \A id : (Has(responses, id)' <=> Has(responses, id))
                /\ (Once(responses, id)' <=> Once(responses, id))
    BY DEF Has, Once
  <1>3. ~Flying(requests')
    BY <1>0 DEF AnswersInv
  <1>4. \A id \in Id \ abandoned' : Alone(id)'
    BY <1>1, <1>2, <1>3, <1>0 DEF AnswersInv, Alone, Flying
  <1>5. \A id : Waited(id) => Waited(id)'
    BY <1>0 DEF Waited, Waits
  <1>6. \/ requests' \in abandoned'
        \/ \E u \in Cmd : asked'[u] # NoRequest /\ asked'[u].id = requests'
    <2>1. ASSUME NEW u \in Cmd, asked' = [asked EXCEPT ![u] = m]
          PROVE  asked'[u] # NoRequest /\ asked'[u].id = requests'
      BY <1>0, <2>1 DEF Asking, NoRequest, Message
    <2> QED BY <2>1
  <1>7. \A id \in Id : Flying(id)' => id \in 1..requests' /\ (id \in abandoned' \/ Waited(id)')
    <2> SUFFICES ASSUME NEW id \in Id, Flying(id)'
                 PROVE  id \in 1..requests' /\ (id \in abandoned' \/ Waited(id)')
      OBVIOUS
    <2>1. Flying(id) \/ id = requests'
      BY <1>1, <1>2 DEF Flying
    <2>2. CASE Flying(id)
      BY <1>0, <1>5, <2>2 DEF AnswersInv
    <2>3. CASE id = requests'
      <3>1. id \in abandoned' \/ Waited(id)'
        BY <1>6, <2>3 DEF Waited, Waits
      <3> QED BY <1>0, <2>3, <3>1
    <2> QED BY <2>1, <2>2, <2>3
  <1>8. \A t \in Cmd : Waits(t)' => Asking(asked[t])' /\ asked'[t].id \in 1..requests'
    <2>1. CASE UNCHANGED asked
      BY <1>0, <2>1 DEF AnswersInv, Waits, Asking
    <2>2. ASSUME NEW t \in Cmd, asked' = [asked EXCEPT ![t] = m]
          PROVE  \A u \in Cmd : Waits(u)' => Asking(asked[u])' /\ asked'[u].id \in 1..requests'
      BY <1>0, <2>2 DEF AnswersInv, Waits, Asking
    <2> QED BY <2>1, <2>2
  <1> QED BY <1>4, <1>7, <1>8 DEF AnswersInv

LEMMA CommandAnswers ==
  ASSUME TypeOK, AnswersInv, NEW t \in Cmd, Commands(t)
  PROVE  AnswersInv'
  <1>1. ASSUME NEW type \in {"list", "camera"}, NEW arg \in Arg, Ask(t, type, arg)
        PROVE  AnswersInv'
    <2> DEFINE m == Message(type, requests', arg)
    <2>1. /\ requests' = requests + 1 /\ requests' \in Id /\ ~Waits(t) /\ Sent(<<m>>)
          /\ UNCHANGED <<responses, pending, abandoned>>
      BY <1>1, RequestType DEF Ask, Request, coreVars
    <2>2. m \in Messages /\ Asking(m) /\ m.id = requests'
      BY <2>1, MessageType DEF Asking, Type
    <2>3. ui' = IF CoreRuns THEN Append(ui, m) ELSE ui
      BY <2>1, <2>2, SentAppends
    <2>4. CASE CoreRuns
      <3>1. ui' = Append(ui, m) /\ asked' = [asked EXCEPT ![t] = m]
        BY <1>1, <2>3, <2>4 DEF Ask
      <3> HIDE DEF m
      <3> QED BY <2>1, <2>2, <3>1, FreshAsked
    <2>5. CASE ~CoreRuns
      BY <1>1, <2>1, <2>3, <2>5, NothingAsked DEF Ask
    <2> QED BY <2>4, <2>5
  <1>2. CASE List(t) \/ StartCamera(t) \/ StartPreferredCamera(t) \/ CallStarted(t)
    <2>1. None \in Arg /\ Default \in Arg /\ "call" \in Arg
      BY SocketAssumption DEF Arg
    <2> QED BY <1>1, <1>2, <2>1 DEF List, StartCamera, StartPreferredCamera, CallStarted
  <1>3. CASE ShortcutCamera(t)
    <2> DEFINE m == Message("camera", requests', Default)
    <2>1. /\ requests' = requests + 1 /\ requests' \in Id /\ Sent(<<m>>)
          /\ UNCHANGED <<asked, responses, pending>> /\ abandoned' = abandoned \cup {requests'}
      BY <1>3, RequestType DEF ShortcutCamera, appVars, coreVars
    <2>2. m \in Messages /\ Asking(m) /\ m.id = requests'
      BY <2>1, MessageType, SocketAssumption DEF Asking, Type, Arg
    <2>3. ui' = IF CoreRuns THEN Append(ui, m) ELSE ui
      BY <2>1, <2>2, SentAppends
    <2> HIDE DEF m
    <2> QED BY <2>1, <2>2, <2>3, FreshAsked, NothingAsked
  <1>4. ASSUME NEW type \in {"end", "set", "control"}, NEW id \in Id, NEW arg \in Arg,
               Request(t) \/ UNCHANGED requests, Sent(<<Message(type, id, arg)>>),
               UNCHANGED <<asked, responses, pending, abandoned>>
        PROVE  AnswersInv'
    <2> DEFINE m == Message(type, id, arg)
    <2>1. requests' \in {requests, requests + 1} /\ requests' \in Id
      BY <1>4, RequestType DEF TypeOK
    <2>2. m \in Messages /\ ~Asking(m)
      BY <2>1, MessageType DEF Asking, Type
    <2>3. ui' = IF CoreRuns THEN Append(ui, m) ELSE ui
      BY <1>4, <2>2, SentAppends
    <2> HIDE DEF m
    <2> QED BY <1>4, <2>1, <2>2, <2>3, NothingAsked
  <1>5. CASE EndCall(t) \/ HangUp(t) \/ Quit(t)
    BY <1>4, <1>5, RequestType DEF EndCall, HangUp, Quit, Arg, appVars, coreVars
  <1>6. ASSUME NEW value \in Setting, SaveSetting(t, value) PROVE AnswersInv'
    BY <1>4, <1>6, RequestType DEF SaveSetting, Arg, coreVars
  <1>7. ASSUME NEW value \in Setting, SaveControl(t, value) PROVE AnswersInv'
    <2>1. requests' \in {requests, requests + 1} /\ requests' \in Id
      BY <1>7, RequestType DEF SaveControl
    <2> QED BY <1>7, <2>1, NothingAsked DEF SaveControl, coreVars
  <1>8. CASE SendControl(t)
    <2>1. owed[t] \in Arg /\ 0 \in Id
      BY <1>8, SocketAssumption DEF SendControl, TypeOK, Id, Arg
    <2> QED BY <1>4, <1>8, <2>1 DEF SendControl, coreVars
  <1>9. ASSUME NEW value \in Setting, NEW from, TellControl(t, value, from) PROVE AnswersInv'
    <2>1. value \in Arg /\ 0 \in Id
      BY SocketAssumption DEF Id, Arg
    <2> QED BY <1>4, <1>9, <2>1 DEF TellControl, coreVars
  <1>10. control \in Setting
    BY DEF TypeOK
  <1> QED BY <1>2, <1>3, <1>5, <1>6, <1>7, <1>8, <1>9, <1>10
          DEF Commands, GetAvailableContent, SetControllerCursor

\* A command takes an answer, or waits no longer: it goes on with the call it asked for,
\* or leaves the mutex.
LEMMA AnsweredAnswers ==
  ASSUME TypeOK, AnswersInv, NEW t \in Cmd, Waits(t), NEW ok, Answered(t, ok),
         UNCHANGED <<pending, requests>>,
         \/ /\ responses # <<>> /\ responses' = Tail(responses)
            /\ Head(responses).type = asked[t].type
            /\ abandoned' = abandoned \cup ({asked[t].id} \ {Head(responses).id})
         \/ UNCHANGED responses /\ abandoned' = abandoned \cup {asked[t].id}
  PROVE  AnswersInv'
  <1> PICK a : a = asked[t].id
    OBVIOUS
  <1>0. /\ a \in Id /\ a # 0 /\ a \in 1..requests /\ Asking(asked[t])
        /\ asked \in [Cmd -> Messages] /\ ui \in Seq(Messages) /\ responses \in Seq(Messages)
    BY DEF AnswersInv, TypeOK, Messages
  <1>1. \A id : Waited(id) => id = a
    BY DEF Waited, TypeOK
  \* Its number is nobody's any more, or nothing that bears it is left.
  <1>2. \/ a \in abandoned'
        \/ Alone(a) /\ ~Has(ui, a) /\ ~(pending = a) /\ ~Has(responses, a)'
    <2>1. CASE /\ responses # <<>> /\ responses' = Tail(responses)
               /\ Head(responses).type = asked[t].type
               /\ abandoned' = abandoned \cup ({a} \ {Head(responses).id})
      <3>1. CASE Head(responses).id # a \/ a \in abandoned
        BY <2>1, <3>1
      <3>2. CASE Head(responses).id = a /\ a \notin abandoned
        <4>1. Asking(Head(responses)) /\ Alone(a)
          BY <1>0, <2>1, <3>2 DEF Asking, AnswersInv
        <4>2. Has(responses, a) /\ ~Has(Tail(responses), a)
          BY <1>0, <2>1, <3>2, <4>1, TailHas DEF Alone
        <4> QED BY <1>0, <2>1, <4>1, <4>2 DEF Alone, Has
      <3> QED BY <3>1, <3>2
    <2> QED BY <2>1
  <1>3. \A id : /\ Has(responses, id)' => Has(responses, id)
                /\ Once(responses, id) => Once(responses, id)'
    <2>1. CASE responses # <<>> /\ responses' = Tail(responses)
      BY <1>0, <2>1, TailHas DEF Has, Once
    <2>2. CASE UNCHANGED responses
      BY <2>2 DEF Has, Once
    <2> QED BY <2>1, <2>2
  <1>4. abandoned \subseteq abandoned'
    OBVIOUS
  <1>5. CASE asked[t].arg = "call" /\ asked[t].type = "list" /\ CoreRuns
    <2> DEFINE m == Message("call", a, "call")
    <2>1. m \in Messages /\ Asking(m) /\ m.id = a /\ m # NoRequest
      BY <1>0, MessageType DEF Type, Arg, Asking
    <2>2. asked' = [asked EXCEPT ![t] = m] /\ ui' = Append(ui, m)
      BY <1>5, <2>1, SentAppends DEF Answered
    <2> HIDE DEF m
    <2>3. \A id : /\ Has(ui, id)' <=> Has(ui, id) \/ id = a
                  /\ Once(ui, id) /\ ~(Has(ui, id) /\ id = a) => Once(ui, id)'
      <3>1. \A id : /\ Has(Append(ui, m), id) <=> Has(ui, id) \/ id = a
                    /\ Once(ui, id) /\ ~(Has(ui, id) /\ id = a) => Once(Append(ui, m), id)
        BY <1>0, <2>1, AppendHas
      <3> QED BY <2>2, <3>1 DEF Has, Once
    <2>4. /\ Waited(a)'
          /\ \A u \in Cmd : Waits(u)' => Asking(asked[u])' /\ asked'[u].id \in 1..requests'
      BY <1>0, <2>1, <2>2 DEF Waited, Waits, Asking, AnswersInv
    <2>5. \A id \in Id : Flying(id)' => id \in 1..requests' /\ (id \in abandoned' \/ Waited(id)')
      BY <1>0, <1>1, <1>3, <1>4, <2>3, <2>4 DEF Flying, AnswersInv
    <2>6. \A id \in Id \ abandoned' : Alone(id)'
      <3> SUFFICES ASSUME NEW id \in Id \ abandoned' PROVE Alone(id)'
        OBVIOUS
      <3>1. CASE id = a
        BY <1>0, <1>2, <1>3, <2>3, <3>1 DEF Alone
      <3>2. CASE id # a
        BY <1>3, <1>4, <2>3, <3>2 DEF Alone, AnswersInv
      <3> QED BY <3>1, <3>2
    <2> QED BY <2>4, <2>5, <2>6 DEF AnswersInv
  <1>6. CASE ~(asked[t].arg = "call" /\ asked[t].type = "list" /\ CoreRuns)
    <2>1. asked' = [asked EXCEPT ![t] = NoRequest] /\ UNCHANGED ui
      BY <1>6 DEF Answered
    <2>2. \A id : (Has(ui, id)' <=> Has(ui, id)) /\ (Once(ui, id)' <=> Once(ui, id))
      BY <2>1 DEF Has, Once
    <2>3. \A u \in Cmd : Waits(u)' => Asking(asked[u])' /\ asked'[u].id \in 1..requests'
      BY <1>0, <2>1 DEF Waits, Asking, AnswersInv
    <2>4. \A id \in Id : Flying(id)' => id \in 1..requests' /\ id \in abandoned'
      BY <1>0, <1>1, <1>2, <1>3, <1>4, <2>2 DEF Flying, AnswersInv
    <2>5. \A id \in Id \ abandoned' : Alone(id)'
      BY <1>3, <1>4, <2>2 DEF Alone, AnswersInv
    <2> QED BY <2>3, <2>4, <2>5 DEF AnswersInv
  <1> QED BY <1>5, <1>6

LEMMA AnswersAnswers ==
  ASSUME TypeOK, AnswersInv, NEW t \in Cmd, Answers(t)
  PROVE  AnswersInv'
  <1>1. CASE TakeAnswer(t)
    BY <1>1, AnsweredAnswers DEF TakeAnswer, coreVars
  <1>2. CASE NoAnswer(t)
    BY <1>2, AnsweredAnswers DEF NoAnswer, coreVars
  <1>3. CASE SkipAnswer(t)
    <2>1. /\ responses # <<>> /\ responses' = Tail(responses) /\ responses \in Seq(Messages)
          /\ UNCHANGED <<asked, ui, pending, abandoned, requests>>
      BY <1>3 DEF SkipAnswer, coreVars, TypeOK
    <2>2. \A id : /\ Has(responses, id)' => Has(responses, id)
                  /\ Once(responses, id) => Once(responses, id)'
      BY <2>1, TailHas DEF Has, Once
    <2>3. \A id : (Flying(id)' => Flying(id)) /\ (Alone(id) => Alone(id)')
      BY <2>1, <2>2 DEF Flying, Alone, Has, Once
    <2> QED BY <2>1, <2>3, LessFlies DEF TypeOK
  <1> QED BY <1>1, <1>2, <1>3 DEF Answers

\* The event loop takes a message; if it is a question, it is answered, or becomes the
\* camera start that waits.
LEMMA HandledAnswers ==
  ASSUME TypeOK, AnswersInv, ui # <<>>, ui' = Tail(ui),
         UNCHANGED <<asked, abandoned, requests>>,
         \/ UNCHANGED <<responses, pending>>
         \/ /\ Asking(Head(ui)) /\ UNCHANGED pending
            /\ \E r \in Messages : r.id = Head(ui).id /\ responses' = Append(responses, r)
         \/ Asking(Head(ui)) /\ UNCHANGED responses /\ pending = 0 /\ pending' = Head(ui).id
  PROVE  AnswersInv'
  <1> PICK h : h = Head(ui).id
    OBVIOUS
  <1>0. ui \in Seq(Messages) /\ responses \in Seq(Messages) /\ requests \in Id
    BY DEF TypeOK
  <1>1. \A id : (Has(ui, id)' => Has(ui, id)) /\ (Once(ui, id) => Once(ui, id)')
    BY <1>0, TailHas DEF Has, Once
  <1>2. Asking(Head(ui)) => Has(ui, h) /\ (Once(ui, h) => ~Has(ui, h)')
    <2>1. Asking(Head(ui)) => Has(ui, h) /\ (Once(ui, h) => ~Has(Tail(ui), h))
      BY <1>0, TailHas
    <2> QED BY <2>1 DEF Has
  <1>3. CASE UNCHANGED <<responses, pending>>
    <2>1. \A id : (Flying(id)' => Flying(id)) /\ (Alone(id) => Alone(id)')
      BY <1>1, <1>3 DEF Flying, Alone, Has, Once
    <2> QED BY <1>0, <2>1, LessFlies
  <1>4. CASE /\ Asking(Head(ui)) /\ UNCHANGED pending
             /\ \E r \in Messages : r.id = Head(ui).id /\ responses' = Append(responses, r)
    <2>1. \A id : /\ Has(responses, id)' => Has(responses, id) \/ id = h
                  /\ Once(responses, id) /\ ~(Has(responses, id) /\ id = h)
                     => Once(responses, id)'
      <3>1. PICK r \in Messages : r.id = h /\ responses' = Append(responses, r)
        BY <1>4
      <3>2. \A id : /\ Has(Append(responses, r), id) => Has(responses, id) \/ id = h
                    /\ Once(responses, id) /\ ~(Has(responses, id) /\ id = h)
                       => Once(Append(responses, r), id)
        BY <1>0, <3>1, AppendHas
      <3> QED BY <3>1, <3>2 DEF Has, Once
    <2>2. \A id : Flying(id)' => Flying(id)
      BY <1>1, <1>2, <1>4, <2>1 DEF Flying
    <2>3. \A id : Alone(id) => Alone(id)'
      BY <1>1, <1>2, <1>4, <2>1 DEF Alone
    <2> QED BY <1>0, <2>2, <2>3, LessFlies
  <1>5. CASE Asking(Head(ui)) /\ UNCHANGED responses /\ pending = 0 /\ pending' = Head(ui).id
    <2>1. \A id : /\ Has(responses, id)' <=> Has(responses, id)
                  /\ Once(responses, id)' <=> Once(responses, id)
      BY <1>5 DEF Has, Once
    <2>2. \A id : Flying(id)' => Flying(id)
      BY <1>1, <1>2, <1>5, <2>1 DEF Flying
    <2>3. \A id : Alone(id) => Alone(id)'
      BY <1>1, <1>2, <1>5, <2>1 DEF Alone
    <2> QED BY <1>0, <2>2, <2>3, LessFlies
  <1> QED BY <1>3, <1>4, <1>5

LEMMA EventLoopAnswers ==
  ASSUME TypeOK, AnswersInv, EventLoop
  PROVE  AnswersInv'
  <1>0. /\ ui \in Seq(Messages) /\ responses \in Seq(Messages)
        /\ requests \in Id /\ pending \in Id
        /\ ui # <<>> => Head(ui) \in Messages
        /\ \A type \in {"list", "camera", "call"}, id \in Id, result \in Result :
             Message(type, id, result) \in Messages /\ Message(type, id, result).id = id
    BY TailElements, MessageType DEF TypeOK, Type, Arg, Result
  <1>1. CASE ListDevices \/ CameraStarts \/ CallStart
    <2>1. /\ ui # <<>> /\ ui' = Tail(ui) /\ Asking(Head(ui))
          /\ UNCHANGED <<asked, abandoned, requests, pending>>
      BY <1>1 DEF ListDevices, CameraStarts, CallStart, Handles, Asking, coreVars
    <2>2. Head(ui).id \in Id
      BY <1>0, <2>1 DEF Messages
    <2>3. \E type \in {"list", "camera", "call"}, result \in Result :
             Respond(type, Head(ui).id, result)
      BY <1>1 DEF ListDevices, CameraStarts, CallStart, Result
    <2>4. \E r \in Messages : r.id = Head(ui).id /\ responses' = Append(responses, r)
      BY <1>0, <2>2, <2>3 DEF Respond
    <2> QED BY <2>1, <2>4, HandledAnswers
  <1>2. CASE QueryPreferredCamera
    <2>1. /\ ui # <<>> /\ ui' = Tail(ui) /\ Asking(Head(ui)) /\ pending = 0
          /\ pending' = Head(ui).id /\ UNCHANGED <<responses, asked, abandoned, requests>>
      BY <1>2 DEF QueryPreferredCamera, Handles, Loops, Asking, appVars
    <2> QED BY <2>1, HandledAnswers
  <1>3. CASE CallEnd \/ SetSetting \/ ControllerCursorEnabled
    <2>1. /\ ui # <<>> /\ ui' = Tail(ui)
          /\ UNCHANGED <<responses, pending, asked, abandoned, requests>>
      BY <1>3 DEF CallEnd, SetSetting, ControllerCursorEnabled, Handles, appVars
    <2> QED BY <2>1, HandledAnswers
  <1>4. CASE CameraChosen
    <2>1. /\ pending # 0 /\ pending' = 0 /\ UNCHANGED <<ui, asked, abandoned, requests>>
          /\ \E result \in Result : Respond("camera", pending, result)
      BY <1>4 DEF CameraChosen
    <2>2. PICK r \in Messages : r.id = pending /\ responses' = Append(responses, r)
      BY <1>0, <2>1 DEF Respond
    <2>3. \A id : /\ Has(responses, id)' => Has(responses, id) \/ id = pending
                  /\ Once(responses, id) /\ ~(Has(responses, id) /\ id = pending)
                     => Once(responses, id)'
      <3>1. \A id : /\ Has(Append(responses, r), id) => Has(responses, id) \/ id = pending
                    /\ Once(responses, id) /\ ~(Has(responses, id) /\ id = pending)
                       => Once(Append(responses, r), id)
        BY <1>0, <2>2, AppendHas
      <3> QED BY <2>2, <3>1 DEF Has, Once
    <2>4. \A id : (Has(ui, id)' <=> Has(ui, id)) /\ (Once(ui, id)' <=> Once(ui, id))
      BY <2>1 DEF Has, Once
    <2>5. \A id : (Flying(id)' => Flying(id)) /\ (Alone(id) => Alone(id)')
      BY <2>1, <2>3, <2>4 DEF Flying, Alone
    <2> QED BY <1>0, <2>1, <2>5, LessFlies
  <1> QED BY <1>1, <1>2, <1>3, <1>4 DEF EventLoop

\* A core that goes takes its queue with it, and a new one empties that of the answers.
LEMMA FailureAnswers ==
  ASSUME TypeOK, AnswersInv, Watchdogs \/ Environment
  PROVE  AnswersInv'
  <1>0. requests \in Id
    BY DEF TypeOK
  <1>1. ASSUME ui' = <<>>, pending' = 0, UNCHANGED <<responses, asked, abandoned, requests>>
        PROVE  AnswersInv'
    <2>1. \A id : (Flying(id)' => Flying(id)) /\ (Alone(id) => Alone(id)')
      BY <1>1, EmptyHas DEF Flying, Alone, Has, Once
    <2> QED BY <1>0, <1>1, <2>1, LessFlies
  <1>2. CASE Watchdogs
    BY <1>1, <1>2 DEF Watchdogs, HangProtection, CoreTerminates, Gone, appVars
  <1>3. ASSUME NEW how \in {"hung", "failed", "dead"}, CoreFault(how) PROVE AnswersInv'
    <2>1. UNCHANGED <<responses, asked, abandoned, requests>>
      BY <1>3 DEF CoreFault, appVars
    <2>2. UNCHANGED <<ui, pending>> \/ (ui' = <<>> /\ pending' = 0)
      BY <1>3 DEF CoreFault, Gone
    <2> QED BY <1>0, <1>1, <2>1, <2>2, NothingAsked
  <1>4. CASE Restart
    <2>1. responses' = <<>> /\ UNCHANGED <<ui, pending, asked, abandoned, requests>>
      BY <1>4 DEF Restart
    <2>2. \A id : (Flying(id)' => Flying(id)) /\ (Alone(id) => Alone(id)')
      BY <2>1, EmptyHas DEF Flying, Alone, Has, Once
    <2> QED BY <1>0, <2>1, <2>2, LessFlies
  <1>5. CASE RestartFails
    <2>1. UNCHANGED <<ui, responses, pending, asked, abandoned, requests>>
      BY <1>5 DEF RestartFails, appVars
    <2> QED BY <1>0, <2>1, NothingAsked
  <1>6. CASE WindowHangUp
    <2> DEFINE m == Message("end", requests', None)
    <2>1. /\ requests' = requests + 1 /\ requests' \in Id /\ ui' = Append(ui, m)
          /\ UNCHANGED <<responses, pending, asked, abandoned>>
      BY <1>0, <1>6, SocketAssumption DEF WindowHangUp, appVars, coreVars, Id
    <2>2. m \in Messages /\ ~Asking(m)
      BY <2>1, MessageType DEF Asking, Type, Arg
    <2> HIDE DEF m
    <2> QED BY <2>1, <2>2, NothingAsked
  <1> QED BY <1>2, <1>3, <1>4, <1>5, <1>6 DEF Environment

LEMMA NextAnswers == TypeOK /\ AnswersInv /\ [Next]_vars => AnswersInv'
  <1> SUFFICES ASSUME TypeOK, AnswersInv, [Next]_vars PROVE AnswersInv'
    OBVIOUS
  <1>0. requests \in Id
    BY DEF TypeOK
  <1>1. CASE Forwarder
    <2>1. UNCHANGED <<ui, responses, pending, asked, abandoned, requests>>
      BY <1>1 DEF Forwarder, ForwardCallEnded, ForwardQuery, ForwarderEnds, appVars, coreVars
    <2> QED BY <1>0, <2>1, NothingAsked
  <1>2. CASE UNCHANGED vars
    <2>1. UNCHANGED <<ui, responses, pending, asked, abandoned, requests>>
      BY <1>2 DEF vars, appVars, coreVars
    <2> QED BY <1>0, <2>1, NothingAsked
  <1> QED BY <1>1, <1>2, CommandAnswers, AnswersAnswers, EventLoopAnswers, FailureAnswers
          DEF Next

\* What a step does for a command that took an answer: it is the answer to the command's
\* own question, or to one that nobody waits for.
LEMMA TakenIsOwn ==
  ASSUME TypeOK, AnswersInv, [Next]_vars, NEW t \in Cmd,
         Waits(t), asked'[t] # asked[t], responses' # responses
  PROVE  Head(responses).id \in abandoned \cup {asked[t].id}
  <1>1. \E u \in Cmd : TakeAnswer(u)
    <2>1. UNCHANGED asked \/ UNCHANGED responses \/ \E u \in Cmd : TakeAnswer(u)
      <3>1. ASSUME NEW u \in Cmd, Commands(u) PROVE UNCHANGED responses
        BY <3>1 DEF Commands, List, StartCamera, StartPreferredCamera, CallStarted, Ask,
                    ShortcutCamera, EndCall, HangUp, Quit, SaveSetting, SaveControl,
                    SendControl, TellControl, GetAvailableContent, SetControllerCursor, appVars
      <3>2. ASSUME NEW u \in Cmd, Answers(u)
            PROVE  UNCHANGED asked \/ UNCHANGED responses \/ TakeAnswer(u)
        BY <3>2 DEF Answers, SkipAnswer, NoAnswer
      <3>3. CASE Forwarder \/ EventLoop
        BY <3>3 DEF Forwarder, ForwardCallEnded, ForwardQuery, ForwarderEnds, EventLoop,
                    ListDevices, CameraStarts, QueryPreferredCamera, CameraChosen, CallStart,
                    CallEnd, SetSetting, ControllerCursorEnabled, appVars
      <3>4. CASE Watchdogs \/ Environment
        BY <3>4 DEF Watchdogs, HangProtection, CoreTerminates, Environment, WindowHangUp,
                    CoreFault, Restart, RestartFails, appVars
      <3>5. CASE UNCHANGED vars
        BY <3>5 DEF vars, appVars
      <3> QED BY <3>1, <3>2, <3>3, <3>4, <3>5 DEF Next
    <2> QED BY <2>1
  <1>2. PICK u \in Cmd : TakeAnswer(u)
    BY <1>1
  <1>3. u = t
    BY <1>2 DEF TypeOK, TakeAnswer
  <1>4. /\ responses # <<>> /\ responses \in Seq(Messages)
        /\ Head(responses).type = asked[t].type
    BY <1>2, <1>3 DEF TakeAnswer, TypeOK
  <1>5. Has(responses, Head(responses).id) /\ Head(responses).id \in Id
    <2>1. Asking(Head(responses))
      BY <1>4 DEF AnswersInv, Asking
    <2>2. Head(responses) \in Messages
      BY <1>4, TailElements
    <2> QED BY <1>4, <2>1, <2>2, TailHas DEF Messages
  <1>6. Head(responses).id \in abandoned \/ Waited(Head(responses).id)
    BY <1>5 DEF AnswersInv, Flying
  <1> QED BY <1>6 DEF Waited, TypeOK

\* Whatever commands run at the same time, and whatever the core answers too late, none
\* takes the answer that another command waits for.
THEOREM NobodyTakesAnothersAnswer == Spec => AnswersMatch
  <1>1. Init => SocketInv /\ AnswersInv
    BY InitSocket, InitAnswers
  <1>2. SocketInv /\ AnswersInv /\ [Next]_vars => (SocketInv /\ AnswersInv)'
    BY NextSocket, NextAnswers DEF SocketInv
  <1>3. SocketInv /\ AnswersInv /\ [Next]_vars
        => [\A t \in Cmd : Waits(t) /\ asked'[t] # asked[t] /\ responses' # responses
                           => Head(responses).id \in abandoned \cup {asked[t].id}]_vars
    BY TakenIsOwn DEF SocketInv
  <1> QED BY <1>1, <1>2, <1>3, PTL DEF Spec, AnswersMatch

--------------------------------------------------------------------------------
(* Sounds. *)

\* A sequence without repetitions, when its head goes or an element comes.
LEMMA TailOfInjective ==
  ASSUME NEW S, NEW q \in Seq(S), q # <<>>, IsInjective(q)
  PROVE  /\ Tail(q) \in Seq(S) /\ IsInjective(Tail(q))
         /\ ToSet(Tail(q)) = ToSet(q) \ {Head(q)} /\ Head(q) \in ToSet(q)
  <1>1. /\ Len(q) \in Nat \ {0} /\ DOMAIN q = 1..Len(q) /\ Head(q) = q[1]
        /\ Tail(q) \in Seq(S) /\ DOMAIN Tail(q) = 1..(Len(q) - 1)
        /\ \A i \in 1..(Len(q) - 1) : Tail(q)[i] = q[i + 1]
    BY HeadTailProperties, LenProperties, EmptySeq
  <1>2. \A i \in 1..(Len(q) - 1) : i + 1 \in 2..Len(q)
    BY <1>1
  <1>3. IsInjective(Tail(q))
    <2> SUFFICES ASSUME NEW i \in 1..(Len(q) - 1), NEW j \in 1..(Len(q) - 1),
                        Tail(q)[i] = Tail(q)[j]
                 PROVE  i = j
      BY <1>1 DEF IsInjective
    <2>1. q[i + 1] = q[j + 1]
      BY <1>1
    <2>2. i + 1 = j + 1
      BY <1>1, <1>2, <2>1 DEF IsInjective
    <2> QED BY <1>1, <2>2
  <1>4. ASSUME NEW e PROVE e \in ToSet(Tail(q)) <=> e \in ToSet(q) /\ e # Head(q)
    <2>1. ASSUME NEW i \in 1..(Len(q) - 1), e = Tail(q)[i] PROVE e \in ToSet(q) /\ e # Head(q)
      <3>1. e = q[i + 1] /\ i + 1 \in 2..Len(q)
        BY <1>1, <1>2, <2>1
      <3>2. q[i + 1] # q[1]
        BY <1>1, <3>1 DEF IsInjective
      <3> QED BY <1>1, <3>1, <3>2 DEF ToSet
    <2>2. ASSUME NEW i \in 1..Len(q), e = q[i], e # Head(q) PROVE e \in ToSet(Tail(q))
      <3>1. i - 1 \in 1..(Len(q) - 1)
        BY <1>1, <2>2
      <3>2. Tail(q)[i - 1] = q[i]
        BY <1>1, <3>1
      <3> QED BY <1>1, <2>2, <3>1, <3>2 DEF ToSet
    <2> QED BY <1>1, <2>1, <2>2 DEF ToSet
  <1>5. ToSet(Tail(q)) = ToSet(q) \ {Head(q)}
    BY <1>4
  <1>6. Head(q) \in ToSet(q)
    BY <1>1 DEF ToSet
  <1> QED BY <1>1, <1>3, <1>5, <1>6

LEMMA AppendToSequence ==
  ASSUME NEW S, NEW q \in Seq(S), NEW e \in S
  PROVE  /\ Append(q, e) \in Seq(S)
         /\ ToSet(Append(q, e)) = ToSet(q) \cup {e}
         /\ IsInjective(q) /\ e \notin ToSet(q) => IsInjective(Append(q, e))
  <1>1. /\ Append(q, e) \in Seq(S)
        /\ Len(q) \in Nat /\ DOMAIN q = 1..Len(q) /\ DOMAIN Append(q, e) = 1..(Len(q) + 1)
        /\ \A i \in 1..Len(q) : Append(q, e)[i] = q[i]
        /\ Append(q, e)[Len(q) + 1] = e
    BY AppendProperties, LenProperties
  <1>2. 1..(Len(q) + 1) = (1..Len(q)) \cup {Len(q) + 1}
    BY <1>1
  <1>3. ToSet(Append(q, e)) = ToSet(q) \cup {e}
    BY <1>1, <1>2 DEF ToSet
  <1>4. IsInjective(q) /\ e \notin ToSet(q) => IsInjective(Append(q, e))
    BY <1>1, <1>2 DEF ToSet, IsInjective
  <1> QED BY <1>1, <1>3, <1>4

\* Where the next stop, or the command that is to enter it, will find a player.
Known(p) == p \in told \/ p \in ToSet(entries) \/ \E t \in SoundThread : playing[t] = p

\* A thread that is to start a player has none to enter, no player is entered twice, and
\* none that has not ended is out of reach.
SoundInv ==
    /\ SoundTypeOK
    /\ \A t \in checked : playing[t] = 0
    /\ \A t, u \in SoundThread : playing[t] = playing[u] /\ playing[t] # 0 => t = u
    /\ \A t \in SoundThread : playing[t] \notin ToSet(entries)
    /\ \A p \in Player : ~Ended(p) => Known(p)

LEMMA SoundInitInv == SoundInit => SoundInv
  <1> SUFFICES ASSUME SoundInit PROVE SoundInv
    OBVIOUS
  <1>1. \A S : <<>> \in Seq(S) /\ Len(<<>>) = 0
    BY EmptySeq
  <1>2. ToSet(<<>>) = {} /\ IsInjective(<<>>) /\ 1..0 = {}
    BY DEF ToSet, IsInjective
  <1>3. player \in Seq({"starting", "sounding", "ended"}) /\ Len(player) <= MaxPlays
        /\ Player = {} /\ entries \in Seq(Player) /\ IsInjective(entries) /\ ToSet(entries) = {}
    BY <1>1, <1>2, SoundAssumption DEF SoundInit, Player
  <1> QED BY <1>3, SoundAssumption DEF SoundInit, SoundInv, SoundTypeOK

\* Players only come, and those there are keep their numbers.
LEMMA PlayerType ==
  ASSUME SoundTypeOK
  PROVE  /\ Len(player) \in Nat /\ DOMAIN player = Player /\ 0 \notin Player
         /\ \A p \in Player : player[p] \in {"starting", "sounding", "ended"}
         /\ ToSet(entries) \subseteq Player
  <1>1. Len(player) \in Nat /\ player \in [1..Len(player) -> {"starting", "sounding", "ended"}]
    BY LenProperties DEF SoundTypeOK
  <1>2. ToSet(entries) \subseteq Player
    <2>1. entries \in [DOMAIN entries -> Player]
      BY LenProperties DEF SoundTypeOK
    <2> QED BY <2>1 DEF ToSet
  <1> QED BY <1>1, <1>2 DEF Player

LEMMA SoundNextInv == SoundInv /\ [SoundNext]_soundVars => SoundInv'
  <1> SUFFICES ASSUME SoundInv, [SoundNext]_soundVars PROVE SoundInv'
    OBVIOUS
  <1> USE DEF SoundInv, SoundTypeOK
  <1>0. /\ Len(player) \in Nat /\ DOMAIN player = Player /\ 0 \notin Player
        /\ \A p \in Player : player[p] \in {"starting", "sounding", "ended"}
        /\ ToSet(entries) \subseteq Player
    BY PlayerType
  <1>1. ASSUME NEW t \in SoundThread, CheckSound(t) PROVE SoundInv'
    <2>1. CASE entries = <<>>
      BY <1>1, <2>1 DEF CheckSound, Idle, Known, Player, Ended
    <2>2. CASE entries # <<>>
      <3>1. entries' = Tail(entries) /\ Ended(Head(entries))
            /\ UNCHANGED <<playing, player, told, stops>>
        BY <1>1, <2>2 DEF CheckSound
      <3>2. /\ entries' \in Seq(Player) /\ IsInjective(entries')
            /\ ToSet(entries') = ToSet(entries) \ {Head(entries)}
        BY <2>2, <3>1, TailOfInjective
      <3>3. \A p \in Player' : ~Ended(p)' => Known(p)'
        BY <3>1, <3>2 DEF Ended, Known, Player
      <3>4. \A u \in checked' : playing'[u] = 0
        BY <1>1, <3>1 DEF CheckSound, Idle
      <3> QED BY <1>1, <3>1, <3>2, <3>3, <3>4 DEF CheckSound, Player
    <2> QED BY <2>1, <2>2
  <1>2. ASSUME NEW t \in SoundThread, SpawnPlayer(t) PROVE SoundInv'
    <2> PICK n \in Nat : n = Len(player) + 1
      BY <1>0
    <2>1. /\ player' = Append(player, "starting") /\ t \in checked /\ checked' = checked \ {t}
          /\ playing' = [playing EXCEPT ![t] = Len(player')]
          /\ UNCHANGED <<entries, told, stops>> /\ Len(player) < MaxPlays
      BY <1>2 DEF SpawnPlayer
    <2>2. /\ player' \in Seq({"starting", "sounding", "ended"}) /\ Len(player') = n
          /\ player'[n] = "starting" /\ \A p \in Player : player'[p] = player[p]
      BY <2>1, AppendProperties DEF Player
    <2>3. Player' = Player \cup {n} /\ n \notin Player
      BY <1>0, <2>2 DEF Player
    <2>4. playing' = [playing EXCEPT ![t] = n]
      BY <2>1, <2>2
    <2>5. entries' \in Seq(Player')
      BY <2>1, <2>3, SeqMonotonic
    <2>6. Len(player') <= MaxPlays
      BY <1>0, <2>1, <2>2, SoundAssumption
    <2>7. \A p \in Player' : ~Ended(p)' => Known(p)'
      <3>1. ASSUME NEW p \in Player, ~Ended(p)' PROVE Known(p)'
        <4>1. Known(p)
          BY <2>2, <3>1 DEF Ended
        <4>2. \A u \in SoundThread : playing[u] = p => u # t
          BY <1>0, <2>1
        <4> QED BY <2>1, <2>4, <4>1, <4>2 DEF Known
      <3>2. Known(n)'
        BY <2>4 DEF Known
      <3> QED BY <2>3, <3>1, <3>2
    <2>8. playing' \in [SoundThread -> {0} \cup Player'] /\ told' \subseteq Player'
      BY <2>1, <2>3, <2>4
    <2>9. /\ \A u \in checked' : playing'[u] = 0
          /\ \A u, v \in SoundThread : playing'[u] = playing'[v] /\ playing'[u] # 0 => u = v
          /\ \A u \in SoundThread : playing'[u] \notin ToSet(entries')
      <3>1. \A u \in SoundThread : playing'[u] = IF u = t THEN n ELSE playing[u]
        BY <2>4
      <3>2. \A u \in SoundThread : playing[u] # n
        BY <1>0, <2>3
      <3>3. n # 0 /\ n \notin ToSet(entries)
        BY <1>0, <2>3
      <3>4. ToSet(entries') = ToSet(entries)
        BY <2>1
      <3> QED BY <2>1, <3>1, <3>2, <3>3, <3>4
    <2>10. IsInjective(entries') /\ checked' \subseteq SoundThread /\ stops' \in 0..MaxPlays
      BY <2>1
    <2> QED BY <2>2, <2>5, <2>6, <2>7, <2>8, <2>9, <2>10
  <1>3. ASSUME NEW t \in SoundThread, EnterPlayer(t) PROVE SoundInv'
    <2>1. /\ playing[t] \in Player /\ entries' = Append(entries, playing[t])
          /\ playing' = [playing EXCEPT ![t] = 0]
          /\ UNCHANGED <<checked, player, told, stops>>
      BY <1>3 DEF EnterPlayer
    <2>2. /\ entries' \in Seq(Player) /\ IsInjective(entries')
          /\ ToSet(entries') = ToSet(entries) \cup {playing[t]}
      BY <2>1, AppendToSequence
    <2>3. \A p \in Player : ~Ended(p)' => Known(p)'
      <3> SUFFICES ASSUME NEW p \in Player, ~Ended(p) PROVE Known(p)'
        BY <2>1 DEF Ended
      <3>1. Known(p)
        OBVIOUS
      <3> QED BY <2>1, <2>2, <3>1 DEF Known
    <2>4. \A u \in SoundThread : playing'[u] \notin ToSet(entries')
      BY <1>0, <2>1, <2>2
    <2>5. Player' = Player
      BY <2>1 DEF Player
    <2> QED BY <2>1, <2>2, <2>3, <2>4, <2>5
  <1>4. ASSUME NEW p \in Player, NEW next \in {"sounding", "ended"},
               player' = [player EXCEPT ![p] = next], ~Ended(p),
               UNCHANGED <<entries, checked, playing, told, stops>>
        PROVE  SoundInv'
    <2>1. player' \in Seq({"starting", "sounding", "ended"}) /\ Len(player') = Len(player)
          /\ \A q \in Player : player'[q] = IF q = p THEN next ELSE player[q]
      BY <1>4, ExceptSeq DEF Player
    <2>2. Player' = Player
      BY <2>1 DEF Player
    <2>3. \A q \in Player : ~Ended(q)' => Known(q)'
      <3> SUFFICES ASSUME NEW q \in Player, ~Ended(q)' PROVE Known(q)'
        OBVIOUS
      <3>1. Known(q)
        BY <1>4, <2>1 DEF Ended
      <3> QED BY <1>4, <3>1 DEF Known
    <2> QED BY <1>4, <2>1, <2>2, <2>3
  <1>5. CASE StopSound
    <2>1. /\ entries # <<>> /\ entries' = Tail(entries) /\ told' = told \cup {Head(entries)}
          /\ stops' \in 0..MaxPlays /\ UNCHANGED <<checked, playing, player>>
      BY <1>5, SoundAssumption DEF StopSound
    <2>2. /\ entries' \in Seq(Player) /\ IsInjective(entries')
          /\ Head(entries) \in ToSet(entries)
          /\ ToSet(entries') = ToSet(entries) \ {Head(entries)}
      BY <2>1, TailOfInjective
    <2>3. Player' = Player
      BY <2>1 DEF Player
    <2>4. \A p \in Player : ~Ended(p)' => Known(p)'
      <3> SUFFICES ASSUME NEW p \in Player, ~Ended(p) PROVE Known(p)'
        BY <2>1 DEF Ended
      <3>1. Known(p)
        OBVIOUS
      <3> QED BY <2>1, <2>2, <3>1 DEF Known
    <2> QED BY <1>0, <2>1, <2>2, <2>3, <2>4
  <1>6. CASE UNCHANGED soundVars
    BY <1>6 DEF soundVars, Known, Player, Ended
  <1>7. ASSUME NEW p \in Player, PlayerStarts(p) \/ PlayerEnds(p) PROVE SoundInv'
    BY <1>4, <1>7 DEF PlayerStarts, PlayerEnds, Ended
  <1> QED BY <1>1, <1>2, <1>3, <1>5, <1>6, <1>7 DEF SoundNext

\* However plays and stops of a sound cross (play_sound and stop_sound of main.rs, the
\* player threads of sounds_utils.rs): a player that sounds has been told to stop, is
\* entered where the next stop finds it, or is about to be.
THEOREM NoSoundIsLost == SoundSpec => []NoLostSound
  <1>1. SoundInv => NoLostSound
    BY DEF SoundInv, NoLostSound, Known, Ended
  <1> QED BY <1>1, SoundInitInv, SoundNextInv, PTL DEF SoundSpec

--------------------------------------------------------------------------------
(* The settings' file. *)

\* The file of an older version that holds the login is there until the first start; a
\* file that is whole holds the login, or the last write is to blame.
LoginIsKept ==
    /\ tokenFile # NoToken /\ ~leftOver => runs = "stopped" /\ login = tokenFile
    /\ /\ runs \in {"stopped", "running"}
       /\ file.kind \in {"current", "old"} /\ tokenFile = NoToken
       => file.state.token = login \/ cutOff \/ overwritten

FileInv == FileTypeOK /\ LoginIsKept

LEMMA DefaultsType ==
  /\ Defaults \in AppState /\ Defaults.token = NoToken
  /\ \A kind \in {"current", "old", "torn", "absent"}, state \in AppState :
       /\ File(kind, state) \in Contents
       /\ File(kind, state).kind = kind /\ File(kind, state).state = state
  BY DEF Defaults, AppState, File, Contents

LEMMA ReadType ==
  ASSUME NEW kind, NEW state \in AppState
  PROVE  Read(kind, state) \in AppState /\ Read(kind, state).token = state.token
  BY DEF Read, AppState

LEMMA FileInitInv == FileInit => FileInv
  <1> SUFFICES ASSUME FileInit PROVE FileInv
    OBVIOUS
  <1>1. \/ file = File("absent", Defaults)
        \/ \E kind \in {"current", "old"}, state \in AppState : file = File(kind, state)
    BY DEF FileInit
  <1>2. /\ file \in Contents /\ file.state \in AppState /\ file.kind # "torn"
    BY <1>1, DefaultsType
  <1>3. /\ memory = Defaults /\ tokenFile \in Token \cup {NoToken}
        /\ login = IF tokenFile # NoToken THEN tokenFile ELSE file.state.token
        /\ runs = "stopped" /\ cutOff = FALSE /\ overwritten = FALSE
        /\ unreadable = FALSE /\ leftOver = FALSE /\ changes = 0
    BY DEF FileInit
  <1>4. /\ memory \in AppState /\ changes \in 0..MaxSaves
        /\ file.state.token \in Token \cup {NoToken}
    BY <1>2, <1>3, FileAssumption, DefaultsType DEF AppState
  <1> QED BY <1>2, <1>3, <1>4 DEF FileInv, FileTypeOK, LoginIsKept

\* What a start reads has its type, and what it leaves behind is remembered.
LEMMA StartKeeps ==
  ASSUME FileInv, Starts, changes' \in 0..MaxSaves, memory' \in AppState,
         runs' \in {"running", "saving"}, unreadable' \in BOOLEAN,
         NEW token \in Token \cup {NoToken}, LeavesBehind(token),
         runs' = "running" => token = tokenFile
  PROVE  FileInv'
  <1>1. tokenFile' = token /\ leftOver' = (token # NoToken)
    BY DEF LeavesBehind
  <1>2. LoginIsKept'
    BY <1>1 DEF FileInv, LoginIsKept, Starts
  <1>3. FileTypeOK'
    BY <1>1 DEF FileInv, FileTypeOK, Starts
  <1> QED BY <1>2, <1>3 DEF FileInv

LEMMA StartsInv ==
  ASSUME FileInv,
         StartFresh \/ StartUnreadable \/ StartMigrates \/ StartReads \/ StartReadsOld
            \/ StartGivesUp
  PROVE  FileInv'
  <1>0. /\ file.state \in AppState /\ tokenFile \in Token \cup {NoToken}
        /\ NoToken \in Token \cup {NoToken}
    BY DEF FileInv, FileTypeOK, Contents
  <1>1. Starts /\ changes' \in 0..MaxSaves
    BY FileAssumption DEF StartFresh, StartUnreadable, StartMigrates, StartReads,
         StartReadsOld, StartGivesUp, Starts, Counts, FileInv, FileTypeOK
  <1>2. CASE StartFresh \/ StartUnreadable \/ StartGivesUp
    BY <1>0, <1>1, <1>2, DefaultsType, StartKeeps DEF StartFresh, StartUnreadable, StartGivesUp
  <1>3. CASE StartMigrates
    <2>1. memory' \in AppState
      BY <1>0, <1>3, ReadType DEF StartMigrates, AppState
    <2> QED BY <1>0, <1>1, <1>3, <2>1, StartKeeps DEF StartMigrates
  <1>4. CASE StartReads \/ StartReadsOld
    BY <1>0, <1>1, <1>4, ReadType, StartKeeps DEF StartReads, StartReadsOld
  <1> QED BY <1>2, <1>3, <1>4

LEMMA FileNextInv == FileInv /\ [FileNext]_fileVars => FileInv'
  <1> SUFFICES ASSUME FileInv, [FileNext]_fileVars PROVE FileInv'
    OBVIOUS
  <1> USE DEF FileInv, FileTypeOK, LoginIsKept
  <1>0. memory.token \in Token \cup {NoToken}
    BY DEF AppState
  <1>1. CASE Change
    <2>1. changes' \in 0..MaxSaves /\ memory' \in AppState
      BY <1>1, FileAssumption DEF Change, Counts
    <2>2. login' \in Token \cup {NoToken}
      BY <1>1, <2>1 DEF Change, AppState
    <2> QED BY <1>1, <2>1, <2>2 DEF Change
  <1>2. CASE Crash
    <2>1. changes' \in 0..MaxSaves
      BY <1>2, FileAssumption DEF Crash, Counts
    <2>2. cutOff' \in BOOLEAN /\ (cutOff => cutOff') /\ (runs # "running" => cutOff')
      BY <1>2 DEF Crash
    <2> QED BY <1>2, <2>1, <2>2 DEF Crash
  <1>3. CASE Empty
    BY <1>3, DefaultsType DEF Empty, ghosts
  <1>4. CASE Fill
    <2>1. overwritten' \in BOOLEAN /\ (memory.token # login => overwritten')
      BY <1>4 DEF Fill
    <2> QED BY <1>0, <1>4, <2>1, DefaultsType DEF Fill
  <1>5. CASE SaveFails
    BY <1>5 DEF SaveFails
  <1>6. CASE UNCHANGED fileVars
    BY <1>6 DEF fileVars, ghosts
  <1> QED BY <1>1, <1>2, <1>3, <1>4, <1>5, <1>6, StartsInv DEF FileNext

\* A start finds the login, or one of the losses that are named has come before it.
LEMMA StartFindsLogin ==
  ASSUME FileInv, [FileNext]_fileVars, Starting
  PROVE  memory'.token = login \/ LoginLost
  <1> USE DEF FileInv, FileTypeOK, LoginIsKept, LoginLost
  <1>0. file.state \in AppState
    BY DEF Contents
  <1>1. runs = "stopped" /\ FileNext
    BY DEF Starting, fileVars
  <1>2. CASE StartFresh \/ StartUnreadable
    BY <1>2 DEF StartFresh, StartUnreadable
  <1>3. CASE StartMigrates
    <2>1. memory'.token = tokenFile
      BY <1>0, <1>3, ReadType DEF StartMigrates, AppState
    <2> QED BY <1>3, <2>1 DEF StartMigrates
  <1>4. CASE StartReads \/ StartReadsOld
    <2>1. memory'.token = file.state.token
      BY <1>0, <1>4, ReadType DEF StartReads, StartReadsOld
    <2> QED BY <1>1, <1>4, <2>1 DEF StartReads, StartReadsOld
  <1>5. CASE StartGivesUp
    BY <1>1, <1>5 DEF StartGivesUp
  <1> QED BY <1>1, <1>2, <1>3, <1>4, <1>5
          DEF FileNext, Change, Empty, Fill, SaveFails, Crash, Starting

\* Whatever is saved, by any of the versions, and wherever the program is stopped
\* (app_state.rs): a start finds the token that the user set last, or no file at all, or
\* the last write was cut off, or a file could not be read, by this start or by one that
\* has saved since, or an old user_token.txt is read once more.
THEOREM TokenSurvives == FileSpec => StaysLoggedIn
  <1>1. FileInv /\ [FileNext]_fileVars
        => [Starting => memory'.token = login \/ LoginLost]_fileVars
    BY StartFindsLogin
  <1> QED BY <1>1, FileInitInv, FileNextInv, PTL DEF FileSpec, StaysLoggedIn

--------------------------------------------------------------------------------
(* The back end's shortcuts. *)

\* No flag has more timers than there were uses, and at most one resets the reopening.
TimersCounted ==
    /\ \A f \in Flag : timers[f] \in 0..uses
    /\ timers["reopen"] \in {0, 1}

BackInv == BackTypeOK /\ TimersCounted /\ ShortcutsOnlyInCall

LEMMA BackInitInv == BackInit => BackInv
  <1> SUFFICES ASSUME BackInit PROVE BackInv
    OBVIOUS
  <1>1. /\ regular \in BOOLEAN /\ notice \in BOOLEAN /\ dialog \in {"none", "hidden", "shown"}
        /\ active = FALSE /\ shortcuts = FALSE /\ ending = FALSE /\ sleepless = FALSE
        /\ located = FALSE /\ main = "hidden" /\ writing = FALSE
    BY DEF BackInit
  <1>2. /\ flag \in [Flag -> BOOLEAN] /\ timers \in [Flag -> 0..MaxUses] /\ uses \in 0..MaxUses
        /\ flag["reopen"] <=> timers["reopen"] = 1
        /\ TimersCounted
    BY BackendAssumption DEF BackInit, TimersCounted, Flag
  <1> QED BY <1>1, <1>2 DEF BackInv, BackTypeOK, ShortcutsOnlyInCall

\* What a raised flag does to the timers, when it counts as a use.
LEMMA RaiseCounted ==
  ASSUME BackTypeOK, TimersCounted, Uses, NEW f \in Flag, Raise(f),
         f = "reopen" => ~flag["reopen"]
  PROVE  /\ flag' \in [Flag -> BOOLEAN] /\ timers' \in [Flag -> 0..MaxUses]
         /\ uses' \in 0..MaxUses /\ TimersCounted'
         /\ flag'["reopen"] <=> timers'["reopen"] = 1
  <1>1. uses \in Nat /\ uses' = uses + 1 /\ uses' \in 0..MaxUses
    BY BackendAssumption DEF Uses, BackTypeOK
  <1>2. /\ timers' = [timers EXCEPT ![f] = timers[f] + 1]
        /\ flag' = [flag EXCEPT ![f] = TRUE]
    BY DEF Raise
  <1>3. \A g \in Flag : timers[g] \in 0..uses
    BY DEF TimersCounted
  <1>4. \A g \in Flag : timers'[g] \in 0..uses'
    BY <1>1, <1>2, <1>3 DEF BackTypeOK
  <1>5. flag' \in [Flag -> BOOLEAN] /\ timers' \in [Flag -> 0..MaxUses]
    BY <1>1, <1>2, <1>4, BackendAssumption DEF BackTypeOK
  <1>6. /\ timers'["reopen"] \in {0, 1}
        /\ flag'["reopen"] <=> timers'["reopen"] = 1
    BY <1>2 DEF BackTypeOK, TimersCounted, Flag
  <1> QED BY <1>1, <1>4, <1>5, <1>6 DEF TimersCounted

LEMMA UsesCounted ==
  ASSUME BackTypeOK, TimersCounted, Uses, UNCHANGED flagVars
  PROVE  uses' \in 0..MaxUses /\ TimersCounted'
  BY BackendAssumption DEF BackTypeOK, TimersCounted, Uses, flagVars

LEMMA BackCommandsInv ==
  ASSUME BackInv, BackCommands
  PROVE  BackInv'
  <1> USE DEF BackInv
  <1> USE DEF ShortcutsOnlyInCall
  <1>1. CASE EnterCall
    <2>1. uses' \in 0..MaxUses /\ TimersCounted'
      BY <1>1, UsesCounted DEF EnterCall
    <2>2. regular' \in BOOLEAN /\ active' \in BOOLEAN /\ shortcuts' \in BOOLEAN
      BY <1>1, Zenon DEF EnterCall, BackTypeOK
    <2>3. shortcuts' => active' \/ ending'
      BY <1>1, Zenon DEF EnterCall
    <2> QED BY <1>1, <2>1, <2>2, <2>3 DEF EnterCall, BackTypeOK, flagVars, windowVars
  <1>2. CASE LeaveCall
    <2>1. /\ flag' \in [Flag -> BOOLEAN] /\ timers' \in [Flag -> 0..MaxUses]
          /\ uses' \in 0..MaxUses /\ TimersCounted'
          /\ flag'["reopen"] <=> timers'["reopen"] = 1
      BY <1>2, RaiseCounted DEF LeaveCall, CallIsOver, Flag
    <2> QED BY <1>2, <2>1 DEF LeaveCall, CallIsOver, BackTypeOK, windowVars
  <1>3. CASE CallEnded
    <2>1. /\ flag' \in [Flag -> BOOLEAN] /\ timers' \in [Flag -> 0..MaxUses]
          /\ uses' \in 0..MaxUses /\ TimersCounted'
          /\ flag'["reopen"] <=> timers'["reopen"] = 1
      BY <1>3, RaiseCounted DEF CallEnded, CallIsOver, Flag
    <2> QED BY <1>3, <2>1 DEF CallEnded, CallIsOver, BackTypeOK, windowVars
  <1>4. CASE SetShortcut
    BY <1>4, UsesCounted DEF SetShortcut, BackTypeOK, flagVars, windowVars
  <1>5. CASE ToggleSleepPrevention
    BY <1>5, UsesCounted DEF ToggleSleepPrevention, BackTypeOK, flagVars, windowVars
  <1>6. CASE SetDeactivateHiding
    BY <1>6, UsesCounted DEF SetDeactivateHiding, BackTypeOK, flagVars, callVars
  <1>7. CASE MainGoesAway
    BY <1>7, UsesCounted DEF MainGoesAway, BackTypeOK, flagVars, callVars
  <1> QED BY <1>1, <1>2, <1>3, <1>4, <1>5, <1>6, <1>7 DEF BackCommands

LEMMA BackMainInv ==
  ASSUME BackInv, BackMain
  PROVE  BackInv'
  <1> USE DEF BackInv, ShortcutsOnlyInCall
  <1>1. CASE TrayClick
    <2>1. /\ flag' \in [Flag -> BOOLEAN] /\ timers' \in [Flag -> 0..MaxUses]
          /\ uses' \in 0..MaxUses /\ TimersCounted'
          /\ flag'["reopen"] <=> timers'["reopen"] = 1
      BY <1>1, RaiseCounted DEF TrayClick, Flag
    <2> QED BY <1>1, <2>1 DEF TrayClick, BackTypeOK, callVars
  <1>2. CASE TrayPlaces
    BY <1>2 DEF TrayPlaces, BackTypeOK, TimersCounted, callVars, flagVars
  <1>3. CASE ActivateRegular
    BY <1>3, UsesCounted DEF ActivateRegular, Activates, BackTypeOK, callVars, flagVars
  <1>4. CASE Reopen
    <2>1. /\ flag' \in [Flag -> BOOLEAN] /\ timers' \in [Flag -> 0..MaxUses]
          /\ uses' \in 0..MaxUses /\ TimersCounted'
          /\ flag'["reopen"] <=> timers'["reopen"] = 1
      BY <1>4, RaiseCounted DEF Reopen, Activates, Flag
    <2> QED BY <1>4, <2>1 DEF Reopen, BackTypeOK, callVars
  <1>5. CASE SecondInstance
    BY <1>5, UsesCounted DEF SecondInstance, BackTypeOK, callVars, flagVars
  <1>6. CASE FocusLost
    BY <1>6, UsesCounted DEF FocusLost, BackTypeOK, callVars, flagVars
  <1>7. CASE FocusGained
    BY <1>7, UsesCounted DEF FocusGained, BackTypeOK, callVars, flagVars
  <1>8. CASE NoticeClosed
    BY ZenonT(60), <1>8 DEF NoticeClosed, BackTypeOK, TimersCounted, callVars, flagVars
  <1>9. CASE DialogClosed
    BY <1>9 DEF DialogClosed, BackTypeOK, TimersCounted, callVars, flagVars
  <1> QED BY <1>1, <1>2, <1>3, <1>4, <1>5, <1>6, <1>7, <1>8, <1>9 DEF BackMain

LEMMA BackNextInv == BackInv /\ [BackNext]_backVars => BackInv'
  <1> SUFFICES ASSUME BackInv, [BackNext]_backVars PROVE BackInv'
    OBVIOUS
  <1>1. CASE UnregisterLate
    BY <1>1 DEF UnregisterLate, BackInv, BackTypeOK, TimersCounted, ShortcutsOnlyInCall,
                flagVars, windowVars
  <1>2. ASSUME NEW f \in Flag, TimerFires(f) PROVE BackInv'
    <2>1. timers[f] \in 1..uses /\ uses \in 0..MaxUses /\ MaxUses \in Nat
      BY <1>2, BackendAssumption DEF TimerFires, BackInv, BackTypeOK, TimersCounted
    <2>2. timers' \in [Flag -> 0..MaxUses] /\ \A g \in Flag : timers'[g] \in 0..uses'
      BY <1>2, <2>1 DEF TimerFires, BackInv, BackTypeOK, TimersCounted
    <2>3. /\ flag' \in [Flag -> BOOLEAN]
          /\ timers'["reopen"] \in {0, 1}
          /\ flag'["reopen"] <=> timers'["reopen"] = 1
      BY <1>2, <2>1 DEF TimerFires, BackInv, BackTypeOK, TimersCounted, Flag
    <2> QED BY <1>2, <2>2, <2>3
            DEF TimerFires, BackInv, BackTypeOK, TimersCounted, ShortcutsOnlyInCall,
                callVars, windowVars
  <1>3. CASE UNCHANGED backVars
    BY <1>3 DEF backVars, callVars, flagVars, windowVars, BackInv, BackTypeOK, TimersCounted,
                ShortcutsOnlyInCall
  <1> QED BY <1>1, <1>2, <1>3, BackCommandsInv, BackMainInv DEF BackNext

\* Whichever of the application and the core ends a call, and however that crosses with a
\* change of a shortcut or a new call (main.rs): none stays registered when no call is
\* active or ending.
THEOREM ShortcutsOutsideCalls == BackSpec => []ShortcutsOnlyInCall
  BY BackInitInv, BackNextInv, PTL DEF BackSpec, BackInv

--------------------------------------------------------------------------------
(* The names of the microphones. *)

\* What is taken is the value that h has at some place of the list.
TakenAt(names, taken, h) == \A x \in taken : \E k \in 1..Len(names) : h[k] = x

LEMMA FreeNumber ==
  ASSUME NEW names \in Seq(Seq(Nat)), NEW i \in 1..Len(names), NEW taken,
         NEW h, TakenAt(names, taken, h)
  PROVE  \E n \in Nat : /\ Numbered(names, i, taken) = Append(names[i], n)
                        /\ Append(names[i], n) \notin taken
  <1> DEFINE N == Len(names)
             D == Duplicates(names, i)
             first == Cardinality(D) + 1
             cand == first..(first + N)
             free == {n \in cand : Append(names[i], n) \notin taken}
  <1>1. N \in Nat /\ i \in 1..N /\ names[i] \in Seq(Nat)
    BY LenProperties, ElementOfSeq
  <1>2. D \subseteq 1..(i - 1) /\ D \in SUBSET (1..(i - 1))
    BY DEF Duplicates
  <1>3. IsFiniteSet(1..(i - 1))
    BY FS_Interval, <1>1
  <1>4. first \in Nat
    BY <1>2, <1>3, FS_Subset, FS_CardinalityType
  <1>6. free # {}
    <2> SUFFICES ASSUME free = {} PROVE FALSE
      OBVIOUS
    <2> DEFINE at == [n \in cand |-> CHOOSE k \in 1..N : h[k] = Append(names[i], n)]
    <2>1. \A n \in cand : \E k \in 1..N : h[k] = Append(names[i], n)
      <3> TAKE n \in cand
      <3>1. Append(names[i], n) \in taken
        OBVIOUS
      <3> QED BY <3>1 DEF TakenAt
    <2>2. \A n \in cand : at[n] \in 1..N /\ h[at[n]] = Append(names[i], n)
      BY <2>1
    <2>4. at \in [cand -> 1..N]
      BY <2>2
    <2>5. \E x, y \in cand : x # y /\ at[x] = at[y]
      <3> HIDE DEF at, first, N
      <3> QED BY <1>1, <1>4, <2>4, TwoTakeTheSame
    <2>6. PICK x \in cand, y \in cand : x # y /\ at[x] = at[y]
      BY <2>5
    <2>7. Append(names[i], x) = Append(names[i], y)
      BY <2>2, <2>6
    <2>8. x \in Nat /\ y \in Nat
      BY <1>1, <1>4
    <2>9. Append(names[i], x)[Len(names[i]) + 1] = x /\ Append(names[i], y)[Len(names[i]) + 1] = y
      BY <1>1, <2>8, AppendProperties
    <2> QED BY <2>6, <2>7, <2>9
  <1>7. free \subseteq Nat
    BY <1>1, <1>4
  <1>8. \E x \in free : \A y \in free : x <= y
    <2> HIDE DEF free
    <2> QED BY <1>6, <1>7, LeastNumber
  <1> DEFINE n == CHOOSE x \in free : \A y \in free : x <= y
  <1>9. n \in free
    <2> HIDE DEF free
    <2> QED BY <1>8
  <1>10. Numbered(names, i, taken) = Append(names[i], n)
    BY DEF Numbered
  <1>11. n \in Nat /\ Append(names[i], n) \notin taken
    BY <1>7, <1>9
  <1> HIDE DEF n
  <1> QED BY <1>10, <1>11

\* The names given as far as the k-th: what the recursion of AssignUiNames comes to.
GivenTo(names, k, g) ==
  g = [i \in 0..k |-> IF i = 0 THEN <<>> ELSE Append(g[i - 1], NameGiven(names, i, g[i - 1]))]

LEMMA OneMoreGiven ==
  ASSUME NEW names, NEW k \in Nat, NEW g, GivenTo(names, k, g)
  PROVE  \E h : GivenTo(names, k + 1, h)
  <1> DEFINE next(f, i) == IF i = 0 THEN <<>> ELSE Append(f[i - 1], NameGiven(names, i, f[i - 1]))
             h == [i \in 0..(k + 1) |-> IF i = k + 1 THEN next(g, i) ELSE g[i]]
  <1>1. \A i \in 0..k : g[i] = next(g, i)
    BY DEF GivenTo
  <1>2. \A i \in 0..k : h[i] = g[i]
    OBVIOUS
  <1>3. \A i \in 0..(k + 1) : i # 0 => i - 1 \in 0..k
    OBVIOUS
  <1>4. \A i \in 0..(k + 1) : next(h, i) = next(g, i)
    <2> HIDE DEF h
    <2> QED BY <1>2, <1>3
  <1>5. \A i \in 0..(k + 1) : h[i] = next(h, i)
    <2>1. \A i \in 0..(k + 1) : h[i] = next(g, i)
      <3> HIDE DEF next
      <3>1. \A i \in 0..(k + 1) : i # k + 1 => i \in 0..k
        OBVIOUS
      <3> QED BY <1>1, <3>1
    <2> HIDE DEF h, next
    <2> QED BY <2>1, <1>4
  <1>6. h = [i \in 0..(k + 1) |-> next(h, i)]
    <2>1. h = [i \in 0..(k + 1) |-> h[i]]
      OBVIOUS
    <2> HIDE DEF h, next
    <2> QED BY <2>1, <1>5
  <1>7. GivenTo(names, k + 1, h)
    <2> HIDE DEF h
    <2> QED BY <1>6 DEF GivenTo
  <1> QED BY <1>7

LEMMA GivenExists ==
  ASSUME NEW names, NEW n \in Nat
  PROVE  \E g : GivenTo(names, n, g)
  <1> DEFINE T == {k \in Nat : ~\E g : GivenTo(names, k, g)}
  <1> SUFFICES ASSUME T # {} PROVE FALSE
    OBVIOUS
  <1>1. PICK k \in T : \A j \in T : k <= j
    <2>1. T \subseteq Nat
      OBVIOUS
    <2> HIDE DEF T
    <2> QED BY <2>1, LeastNumber
  <1>2. k # 0
    <2> DEFINE e == [i \in 0..0 |-> <<>>]
    <2>1. e = [i \in 0..0 |-> IF i = 0 THEN <<>> ELSE Append(e[i - 1], NameGiven(names, i, e[i - 1]))]
      OBVIOUS
    <2>2. GivenTo(names, 0, e)
      <3> HIDE DEF e
      <3> QED BY <2>1 DEF GivenTo
    <2> HIDE DEF e
    <2> QED BY <2>2
  <1>3. k - 1 \in Nat /\ ~(k <= k - 1) /\ k - 1 + 1 = k
    BY <1>2
  <1>4. k - 1 \notin T
    BY <1>1, <1>3
  <1>5. PICK g : GivenTo(names, k - 1, g)
    BY <1>3, <1>4
  <1>6. \E h : GivenTo(names, (k - 1) + 1, h)
    BY <1>3, <1>5, OneMoreGiven
  <1> QED BY <1>3, <1>6

LEMMA GivenIs ==
  ASSUME NEW names \in Seq(Seq(Nat))
  PROVE  \E g : GivenTo(names, Len(names), g) /\ AssignUiNames(names) = g[Len(names)]
  <1> DEFINE given[i \in 0..Len(names)] ==
               IF i = 0 THEN <<>> ELSE Append(given[i - 1], NameGiven(names, i, given[i - 1]))
  <1>1. AssignUiNames(names) = given[Len(names)]
    BY DEF AssignUiNames
  <1>2. given = CHOOSE g : GivenTo(names, Len(names), g)
    BY DEF GivenTo
  <1>3. Len(names) \in Nat
    BY LenProperties
  <1> HIDE DEF given
  <1>4. GivenTo(names, Len(names), given)
    BY <1>2, <1>3, GivenExists
  <1> QED BY <1>1, <1>4

\* Of the names given to the first k: a name that none before has is kept, another one is
\* no name of the list, and no two are the same.
GoodNames(names, k, out) ==
  /\ out \in Seq(Seq(Nat)) /\ Len(out) = k
  /\ \A j \in 1..k : IF Duplicates(names, j) = {} THEN out[j] = names[j]
                     ELSE out[j] \notin ToSet(names)
  /\ \A j, l \in 1..k : out[j] = out[l] => j = l

\* Each name has a first place.
LEMMA FirstPlace ==
  ASSUME NEW names \in Seq(Seq(Nat)), NEW x \in ToSet(names)
  PROVE  \E j \in 1..Len(names) : names[j] = x /\ Duplicates(names, j) = {}
  <1> DEFINE T == {j \in 1..Len(names) : names[j] = x}
  <1>1. Len(names) \in Nat /\ DOMAIN names = 1..Len(names)
    BY LenProperties
  <1>2. T # {} /\ T \subseteq Nat
    BY <1>1 DEF ToSet
  <1>3. PICK j \in T : \A l \in T : j <= l
    <2> HIDE DEF T
    <2> QED BY <1>2, LeastNumber
  <1>4. \A l \in 1..(j - 1) : names[l] # x
    <2> TAKE l \in 1..(j - 1)
    <2>1. l \in 1..Len(names) /\ ~(j <= l)
      BY <1>1, <1>3
    <2>2. l \notin T
      BY <1>3, <2>1
    <2> QED BY <2>1, <2>2
  <1>5. Duplicates(names, j) = {}
    BY <1>4 DEF Duplicates
  <1> QED BY <1>3, <1>5

LEMMA NewNameIsFree ==
  ASSUME NEW names \in Seq(Seq(Nat)), NEW i \in 1..Len(names), NEW out,
         GoodNames(names, i - 1, out), Duplicates(names, i) # {}
  PROVE  /\ NameGiven(names, i, out) \in Seq(Nat)
         /\ NameGiven(names, i, out) \notin ToSet(names) \cup ToSet(out)
  <1> DEFINE taken == ToSet(names) \cup ToSet(out)
             h == [j \in 1..Len(names) |-> IF Duplicates(names, j) = {} THEN names[j] ELSE out[j]]
  <1>1. Len(names) \in Nat /\ DOMAIN out = 1..(i - 1) /\ i - 1 \in Nat /\ names[i] \in Seq(Nat)
    <2>1. Len(names) \in Nat /\ names[i] \in Seq(Nat) /\ i - 1 \in Nat
      BY LenProperties, ElementOfSeq
    <2>2. DOMAIN out = 1..Len(out)
      BY LenProperties DEF GoodNames
    <2> QED BY <2>1, <2>2 DEF GoodNames
  <1>2. \A x \in ToSet(names) : \E j \in 1..Len(names) : h[j] = x
    <2> TAKE x \in ToSet(names)
    <2>1. PICK j \in 1..Len(names) : names[j] = x /\ Duplicates(names, j) = {}
      BY FirstPlace
    <2>2. h[j] = x
      BY <2>1
    <2> HIDE DEF h
    <2> QED BY <2>2
  <1>3. \A x \in ToSet(out) : \E j \in 1..Len(names) : h[j] = x
    <2> TAKE x \in ToSet(out)
    <2>1. PICK j \in 1..(i - 1) : out[j] = x
      BY <1>1 DEF ToSet
    <2>2. j \in 1..Len(names)
      BY <1>1
    <2>3. h[j] = x
      BY <2>1, <2>2 DEF GoodNames
    <2> HIDE DEF h
    <2> QED BY <2>2, <2>3
  <1>4. TakenAt(names, taken, h)
    <2> HIDE DEF h
    <2> QED BY <1>2, <1>3 DEF TakenAt
  <1>5. NameGiven(names, i, out) = Numbered(names, i, taken)
    BY DEF NameGiven
  <1>6. PICK n \in Nat : Numbered(names, i, taken) = Append(names[i], n)
                         /\ Append(names[i], n) \notin taken
    <2> HIDE DEF h, taken
    <2> QED BY <1>4, FreeNumber
  <1>7. Append(names[i], n) \in Seq(Nat)
    BY <1>1, AppendProperties
  <1> QED BY <1>5, <1>6, <1>7

LEMMA OneMoreGoodName ==
  ASSUME NEW names \in Seq(Seq(Nat)), NEW i \in 1..Len(names), NEW out,
         GoodNames(names, i - 1, out)
  PROVE  GoodNames(names, i, Append(out, NameGiven(names, i, out)))
  <1> DEFINE w == NameGiven(names, i, out)
             all == Append(out, w)
  <1>1. /\ Len(names) \in Nat /\ DOMAIN names = 1..Len(names) /\ i - 1 \in Nat
        /\ names[i] \in Seq(Nat)
    BY LenProperties, ElementOfSeq
  <1>2. out \in Seq(Seq(Nat)) /\ Len(out) = i - 1 /\ DOMAIN out = 1..(i - 1)
    BY LenProperties DEF GoodNames
  <1>3. /\ w \in Seq(Nat)
        /\ IF Duplicates(names, i) = {} THEN w = names[i] ELSE w \notin ToSet(names)
    <2>1. CASE Duplicates(names, i) = {}
      BY <2>1, <1>1 DEF NameGiven
    <2>2. CASE Duplicates(names, i) # {}
      BY <2>2, NewNameIsFree
    <2> QED BY <2>1, <2>2
  <1>4. \A j \in 1..(i - 1) : out[j] # w
    <2> TAKE j \in 1..(i - 1)
    <2>0. j \in 1..Len(names)
      BY <1>1
    <2>1. CASE Duplicates(names, i) # {}
      <3>1. out[j] \in ToSet(out)
        BY <1>2 DEF ToSet
      <3> QED BY <2>1, <3>1, NewNameIsFree
    <2>2. CASE Duplicates(names, i) = {}
      <3>1. w = names[i]
        BY <2>2 DEF NameGiven
      <3>2. names[j] # names[i] /\ names[i] \in ToSet(names)
        BY <1>1, <2>2 DEF Duplicates, ToSet
      <3>3. out[j] = names[j] \/ out[j] \notin ToSet(names)
        BY DEF GoodNames
      <3> QED BY <3>1, <3>2, <3>3
    <2> QED BY <2>1, <2>2
  <1> HIDE DEF w
  <1>5. /\ all \in Seq(Seq(Nat)) /\ Len(all) = i /\ all[i] = w
        /\ \A j \in 1..(i - 1) : all[j] = out[j]
    <2>1. /\ all \in Seq(Seq(Nat)) /\ Len(all) = Len(out) + 1 /\ all[Len(out) + 1] = w
          /\ \A j \in 1..Len(out) : all[j] = out[j]
      BY <1>2, <1>3, AppendProperties
    <2> QED BY <1>1, <1>2, <2>1
  <1> HIDE DEF all
  <1>6. \A j \in 1..i : j = i \/ j \in 1..(i - 1)
    BY <1>1
  <1>7. \A j \in 1..i : IF Duplicates(names, j) = {} THEN all[j] = names[j]
                        ELSE all[j] \notin ToSet(names)
    BY <1>3, <1>5, <1>6 DEF GoodNames
  <1>8. \A j, l \in 1..i : all[j] = all[l] => j = l
    <2> TAKE j \in 1..i, l \in 1..i
    <2>1. \A a, b \in 1..(i - 1) : out[a] = out[b] => a = b
      BY DEF GoodNames
    <2>2. CASE j = i /\ l # i
      <3>1. l \in 1..(i - 1)
        BY <1>6, <2>2
      <3> QED BY <1>4, <1>5, <2>2, <3>1
    <2>3. CASE l = i /\ j # i
      <3>1. j \in 1..(i - 1)
        BY <1>6, <2>3
      <3> QED BY <1>4, <1>5, <2>3, <3>1
    <2>4. CASE j # i /\ l # i
      <3>1. j \in 1..(i - 1) /\ l \in 1..(i - 1)
        BY <1>6, <2>4
      <3> QED BY <1>5, <2>1, <3>1
    <2>5. CASE j = i /\ l = i
      BY <2>5
    <2> QED BY <2>2, <2>3, <2>4, <2>5
  <1>9. GoodNames(names, i, all)
    BY <1>5, <1>7, <1>8 DEF GoodNames
  <1> QED BY <1>9 DEF all, w

\* Every name given to a microphone of a list is given to no other one of it, and where no
\* two have a name they keep theirs.
LEMMA NamesGiven ==
  ASSUME NEW names \in Seq(Seq(Nat))
  PROVE  GoodNames(names, Len(names), AssignUiNames(names))
  <1>1. PICK g : GivenTo(names, Len(names), g) /\ AssignUiNames(names) = g[Len(names)]
    BY GivenIs
  <1> DEFINE N == Len(names)
             T == {k \in 0..N : ~GoodNames(names, k, g[k])}
  <1>2. N \in Nat
    BY LenProperties
  <1>3. \A i \in 0..N : g[i] = IF i = 0 THEN <<>>
                              ELSE Append(g[i - 1], NameGiven(names, i, g[i - 1]))
    BY <1>1 DEF GivenTo
  <1> HIDE DEF N
  <1>4. SUFFICES ASSUME T # {} PROVE FALSE
    <2>1. N \in 0..N
      BY <1>2
    <2> QED BY <1>1, <1>4, <2>1 DEF N
  <1>5. PICK k \in T : \A j \in T : k <= j
    <2>1. T \subseteq Nat
      BY <1>2
    <2> HIDE DEF T
    <2> QED BY <1>4, <2>1, LeastNumber
  <1>6. k # 0
    <2>1. g[0] = <<>>
      BY <1>2, <1>3
    <2>2. <<>> \in Seq(Seq(Nat)) /\ Len(<<>>) = 0
      BY EmptySeq
    <2>3. GoodNames(names, 0, <<>>)
      BY <2>2 DEF GoodNames
    <2> QED BY <2>1, <2>3
  <1>7. k \in 1..N /\ k - 1 \in 0..N /\ ~(k <= k - 1)
    BY <1>2, <1>6
  <1>8. GoodNames(names, k - 1, g[k - 1])
    <2>1. k - 1 \notin T
      BY <1>5, <1>7
    <2> QED BY <1>7, <2>1
  <1>9. GoodNames(names, k, Append(g[k - 1], NameGiven(names, k, g[k - 1])))
    BY <1>7, <1>8, OneMoreGoodName DEF N
  <1>10. g[k] = Append(g[k - 1], NameGiven(names, k, g[k - 1]))
    BY <1>3, <1>6
  <1> QED BY <1>9, <1>10

LEMMA NamesOfMicrophones ==
  ASSUME AudioTypeOK, NEW list \in Seq(Mic)
  PROVE  /\ RawNames(list) \in Seq(Seq(Nat)) /\ Len(RawNames(list)) = Len(list)
         /\ \A i \in 1..Len(list) : RawNames(list)[i] = raw[list[i]]
         /\ IsInjective(UiNames(list))
  <1>1. Len(list) \in Nat /\ DOMAIN list = 1..Len(list) /\ \A i \in 1..Len(list) : list[i] \in Mic
    BY LenProperties, ElementOfSeq
  <1>2. raw \in [Mic -> Seq(Nat)]
    BY AudioAssumption DEF AudioTypeOK
  <1>3. RawNames(list) \in [1..Len(list) -> Seq(Nat)]
    BY <1>1, <1>2 DEF RawNames
  <1>4. RawNames(list) \in Seq(Seq(Nat)) /\ Len(RawNames(list)) = Len(list)
    BY <1>1, <1>3, IsASeq, LenProperties
  <1>5. \A i \in 1..Len(list) : RawNames(list)[i] = raw[list[i]]
    BY <1>1 DEF RawNames
  <1>6. GoodNames(RawNames(list), Len(list), UiNames(list))
    BY <1>4, NamesGiven DEF UiNames
  <1>7. DOMAIN UiNames(list) = 1..Len(list)
    BY <1>6, LenProperties DEF GoodNames
  <1>8. IsInjective(UiNames(list))
    BY <1>6, <1>7 DEF GoodNames, IsInjective
  <1> QED BY <1>4, <1>5, <1>8

\* The names of a list are sequences, one for each place, and the first place of a raw name
\* keeps it.
LEMMA UiNamesAre ==
  ASSUME AudioTypeOK, NEW list \in Seq(Mic)
  PROVE  /\ \A i \in 1..Len(list) : UiNames(list)[i] \in Seq(Nat)
         /\ DOMAIN UiNames(list) = 1..Len(list) /\ DOMAIN RawNames(list) = 1..Len(list)
         /\ \A i \in 1..Len(list) :
              Duplicates(RawNames(list), i) = {} => UiNames(list)[i] = RawNames(list)[i]
  <1> DEFINE names == RawNames(list)
             seenAt == UiNames(list)
  <1>1. names \in Seq(Seq(Nat)) /\ Len(names) = Len(list) /\ DOMAIN names = 1..Len(list)
    BY NamesOfMicrophones, LenProperties
  <1>2. GoodNames(names, Len(list), seenAt)
    BY <1>1, NamesGiven DEF UiNames
  <1>3. seenAt \in Seq(Seq(Nat)) /\ DOMAIN seenAt = 1..Len(list)
    BY <1>2, LenProperties DEF GoodNames
  <1>4. \A i \in 1..Len(list) : seenAt[i] \in Seq(Nat)
    BY <1>3, LenProperties, ElementOfSeq
  <1> QED BY <1>1, <1>2, <1>3, <1>4 DEF GoodNames

\* Where a name is, if it is in the list at all.
LEMMA PositionIs ==
  ASSUME NEW names, NEW n \in Nat, DOMAIN names = 1..n, NEW name
  PROVE  LET p == Position(names, name)
         IN \/ p = 0 /\ \A i \in 1..n : names[i] # name
            \/ /\ p \in 1..n /\ names[p] = name
               /\ \A j \in 1..n : names[j] = name => p <= j
  <1> DEFINE at == {i \in DOMAIN names : names[i] = name}
             p == Position(names, name)
  <1>1. CASE at = {}
    <2>1. p = 0
      BY <1>1 DEF Position
    <2> QED BY <1>1, <2>1
  <1>2. CASE at # {}
    <2>1. at \subseteq Nat
      OBVIOUS
    <2>2. \E i \in at : \A j \in at : i <= j
      <3> HIDE DEF at
      <3> QED BY <1>2, <2>1, LeastNumber
    <2>3. p = CHOOSE i \in at : \A j \in at : i <= j
      BY <1>2 DEF Position
    <2>4. p \in at /\ \A j \in at : p <= j
      <3> HIDE DEF at, p
      <3> QED BY <2>2, <2>3
    <2> HIDE DEF p
    <2> QED BY <2>4 DEF p
  <1> QED BY <1>1, <1>2

\* Of the default microphone users see the name that the system gives.
LEMMA SeenByItsName ==
  ASSUME AudioTypeOK, NEW list \in Seq(Mic), NEW m \in Mic
  PROVE  UiNameOf(list, m) = raw[m]
  <1> DEFINE names == RawNames(list)
             p == Position(names, raw[m])
  <1>1. Len(list) \in Nat /\ DOMAIN names = 1..Len(list)
    BY LenProperties, UiNamesAre
  <1>2. \/ p = 0
        \/ p \in 1..Len(list) /\ names[p] = raw[m] /\ \A j \in 1..Len(list) : names[j] = raw[m] => p <= j
    <2> HIDE DEF names
    <2> QED BY <1>1, PositionIs
  <1>3. UiNameOf(list, m) = IF p = 0 THEN raw[m] ELSE UiNames(list)[p]
    BY DEF UiNameOf
  <1> HIDE DEF p, names
  <1>4. CASE p \in 1..Len(list) /\ names[p] = raw[m] /\ \A j \in 1..Len(list) : names[j] = raw[m] => p <= j
    <2>1. Duplicates(names, p) = {}
      <3>1. \A j \in 1..(p - 1) : j \in 1..Len(list) /\ ~(p <= j)
        BY <1>1, <1>4
      <3> QED BY <1>4, <3>1 DEF Duplicates
    <2>2. UiNames(list)[p] = names[p]
      BY <1>4, <2>1, UiNamesAre DEF names
    <2>3. p # 0
      BY <1>1, <1>4
    <2> QED BY <1>3, <1>4, <2>2, <2>3
  <1> QED BY <1>2, <1>3, <1>4

\* The name the capturer keeps is that of the microphone it has opened.
LEMMA ActiveNameIsKnown ==
  ASSUME AudioTypeOK, NEW list \in Seq(Mic), IsInjective(list), NEW name,
         OpenedMic(list, name) # NoMic
  PROVE  ActiveName(list, name) = KnownAs(list, name) /\ KnownAs(list, name) \in Seq(Nat)
  <1>0. /\ Len(list) \in Nat /\ DOMAIN list = 1..Len(list)
        /\ \A i \in 1..Len(list) : list[i] \in Mic
        /\ ToSet(mics) \subseteq Mic /\ raw \in [Mic -> Seq(Nat)] /\ standard \in Mic \cup {NoMic}
    <2>1. mics \in Seq(Mic) /\ raw \in Namings /\ standard \in ToSet(mics) \cup {NoMic}
      BY DEF AudioTypeOK
    <2>2. ToSet(mics) \subseteq Mic
      BY <2>1, ElementOfSeq, LenProperties DEF ToSet
    <2> QED BY <2>1, <2>2, AudioAssumption, LenProperties, ElementOfSeq
  <1>1. CASE FellBack(list, name)
    <2>1. standard \in Mic
      BY <1>0, <1>1 DEF OpenedMic
    <2>2. UiNameOf(list, standard) = raw[standard] /\ raw[standard] \in Seq(Nat)
      BY <1>0, <2>1, SeenByItsName
    <2> QED BY <1>1, <2>2 DEF ActiveName, KnownAs
  <1>2. CASE ~FellBack(list, name)
    <2> DEFINE q == Place(list, name)
               seenAt == Position(UiNames(list), name)
               rawAt == Position(RawNames(list), name)
    <2>1. DOMAIN UiNames(list) = 1..Len(list) /\ DOMAIN RawNames(list) = 1..Len(list)
      BY UiNamesAre
    <2>2. seenAt \in 0..Len(list) /\ rawAt \in 0..Len(list)
      BY <1>0, <2>1, PositionIs
    <2>3. q \in 0..Len(list)
      <3> HIDE DEF seenAt, rawAt
      <3>1. q = IF seenAt # 0 THEN seenAt ELSE rawAt
        BY DEF Place, seenAt, rawAt
      <3> QED BY <2>2, <3>1
    <2> HIDE DEF q
    <2>4. Chosen(list, name) = IF q = 0 THEN NoMic ELSE list[q]
      BY DEF Chosen, q
    <2>5. Chosen(list, name) # NoMic
      BY <1>0, <1>2, AudioAssumption DEF FellBack
    <2>6. q \in 1..Len(list) /\ Chosen(list, name) = list[q]
      BY <1>0, <2>3, <2>4, <2>5
    <2>7. Position(list, list[q]) = q
      <3> DEFINE p == Position(list, list[q])
      <3>1. p \in 1..Len(list) /\ list[p] = list[q]
        BY <1>0, <2>6, PositionIs
      <3> HIDE DEF p
      <3>2. p = q
        BY <1>0, <2>6, <3>1 DEF IsInjective
      <3> QED BY <3>2 DEF p
    <2>8. KnownAs(list, name) = UiNames(list)[q] /\ ActiveName(list, name) = UiNames(list)[q]
      BY <1>2, <2>6, <2>7 DEF KnownAs, ActiveName, ListedAs, q
    <2> QED BY <2>6, <2>8, UiNamesAre
  <1> QED BY <1>1, <1>2

--------------------------------------------------------------------------------
(* The microphone of a call. *)

\* The threads can be counted, and each has a flag of its own; those that nobody has told
\* to stop have the flag the capturer has.
OneFlagEach ==
  /\ IsFiniteSet(capturing)
  /\ \A t, u \in capturing : t.flag = u.flag => t = u
  /\ \A t \in capturing : Obeys(t) => t.flag = stopFlag

\* A capture that goes on is that of the call, and its thread goes on or has said that it
\* does not; there is none outside a call or when the microphone was stopped.
CaptureGoesOn ==
  /\ tx = 0 => stopFlag \notin Held
  /\ tx # 0 => /\ tx = call /\ tx \in listening /\ silent = "no" /\ stopFlag \notin raised
               /\ \/ \E t \in capturing : t.flag = stopFlag /\ t.call = tx
                  \/ errors > 0
  /\ call # 0 /\ silent = "no" => tx # 0
  /\ call = 0 => silent = "no"

\* An open window that has been told shows the name the capturer keeps, and that is the
\* one of the microphone its thread reads.
NameGoesWithIt ==
  /\ tx # 0 /\ open /\ ~untold => window = activeName
  /\ tx # 0 => \A t \in capturing : t.flag = stopFlag => activeName = t.name

AudioInv == AudioTypeOK /\ OneFlagEach /\ CaptureGoesOn /\ NameGoesWithIt

CapturerTypeOK ==
  /\ available \in Seq(Mic) /\ IsInjective(available)
  /\ stopFlag \in Nat /\ raised \subseteq Held /\ capturing \subseteq Thread

\* What is so when a capture of a call has begun, and when it has been stopped.
Recording(c) ==
  /\ tx = c /\ stopFlag \notin raised
  /\ \E t \in capturing : t.flag = stopFlag /\ t.call = c
  /\ \A t \in capturing : t.flag = stopFlag => activeName = t.name

Stopped == tx = 0 /\ stopFlag \notin Held

LEMMA FreshFlagIsFree ==
  ASSUME AudioTypeOK, OneFlagEach
  PROVE  FreshFlag \in Nat /\ FreshFlag \notin Held
  <1> DEFINE n == Cardinality(capturing)
  <1>1. IsFiniteSet(Held) /\ Cardinality(Held) <= n /\ n \in Nat
    <2> DEFINE f == [t \in capturing |-> t.flag]
    <2>1. IsFiniteSet(capturing)
      BY DEF OneFlagEach
    <2>2. f \in Surjection(capturing, Held)
      BY DEF Held, Surjection
    <2> HIDE DEF f
    <2> QED BY <2>1, <2>2, FS_Surjection, FS_CardinalityType
  <1>2. \E f \in 1..(n + 1) : f \notin Held
    <2> SUFFICES ASSUME 1..(n + 1) \subseteq Held PROVE FALSE
      OBVIOUS
    <2> HIDE DEF n
    <2>1. Cardinality(1..(n + 1)) <= Cardinality(Held)
      BY <1>1, FS_Subset
    <2>2. Cardinality(1..(n + 1)) = n + 1
      <3>1. n + 1 \in Nat
        BY <1>1
      <3> QED BY <3>1, NumbersBetween
    <2>3. Cardinality(Held) \in Nat
      BY <1>1, FS_CardinalityType
    <2> QED BY <1>1, <2>1, <2>2, <2>3
  <1>3. FreshFlag \in 1..(n + 1) /\ FreshFlag \notin Held
    <2> DEFINE f == CHOOSE f \in 1..(n + 1) : f \notin Held
    <2>1. f \in 1..(n + 1) /\ f \notin Held
      <3> HIDE DEF n
      <3> QED BY <1>2
    <2>2. FreshFlag = f
      BY DEF FreshFlag
    <2> HIDE DEF f, n
    <2> QED BY <2>1, <2>2
  <1> HIDE DEF n
  <1> QED BY <1>1, <1>3

LEMMA InvParts ==
  ASSUME AudioInv
  PROVE  /\ CapturerTypeOK /\ OneFlagEach /\ AudioTypeOK
         /\ tx \in Nat /\ call \in Nat /\ captures \in Nat /\ (tx = 0 => Stopped)
         /\ standard \in Mic \cup {NoMic} /\ ToSet(mics) \subseteq Mic
  <1>1. mics \in Seq(Mic) /\ standard \in ToSet(mics) \cup {NoMic} /\ captures \in 0..MaxCaptures
    BY DEF AudioInv, AudioTypeOK
  <1>2. ToSet(mics) \subseteq Mic
    BY <1>1, ElementOfSeq, LenProperties DEF ToSet
  <1>3. captures \in Nat
    BY <1>1, AudioAssumption
  <1>4. tx \in Nat /\ call \in Nat
    BY <1>3 DEF AudioInv, AudioTypeOK
  <1> QED BY <1>1, <1>2, <1>3, <1>4
       DEF AudioInv, AudioTypeOK, CapturerTypeOK, OneFlagEach, CaptureGoesOn, Stopped, Held

\* When the thread is told to stop, none goes on.
LEMMA StopThreadStops ==
  ASSUME AudioInv, StopThread, UNCHANGED capturing, available' \in {available, mics}
  PROVE  CapturerTypeOK' /\ OneFlagEach' /\ Stopped'
  <1>1. FreshFlag \in Nat /\ FreshFlag \notin Held
    BY InvParts, FreshFlagIsFree
  <1>2. Held' = Held
    BY DEF Held
  <1>3. CapturerTypeOK'
    BY <1>1, <1>2, InvParts DEF StopThread, CapturerTypeOK, AudioTypeOK
  <1>4. Stopped'
    BY <1>1, <1>2 DEF StopThread, Stopped
  <1>5. \A t \in capturing : t.flag \in raised'
    <2> TAKE t \in capturing
    <2>1. t.flag \in Held
      BY DEF Held
    <2>2. t.flag \in raised \/ t.flag = stopFlag
      BY InvParts DEF OneFlagEach, Obeys
    <2> QED BY <2>1, <2>2 DEF StopThread
  <1>6. OneFlagEach'
    BY <1>5, InvParts DEF OneFlagEach, Obeys
  <1> QED BY <1>3, <1>4, <1>6

LEMMA StartRecords ==
  ASSUME AudioInv, NEW name, NEW list, list \in {mics, available}, NEW c \in 1..MaxCaptures,
         StartCapture(list, name, c), available' \in {available, mics}
  PROVE  CapturerTypeOK' /\ OneFlagEach' /\ Recording(c)'
  <1> DEFINE m == OpenedMic(list, name)
             f == IF tx # 0 THEN FreshFlag ELSE stopFlag
             new == [mic |-> m, flag |-> f, call |-> c, dead |-> FALSE,
                     name |-> KnownAs(list, name)]
  <1>1. f \in Nat /\ f \notin Held
    BY InvParts, FreshFlagIsFree DEF Stopped, CapturerTypeOK
  <1>2. m \in Mic
    <2>1. m # NoMic
      BY DEF StartCapture
    <2>2. m = standard \/ m \in ToSet(mics)
      BY DEF OpenedMic, FellBack
    <2> HIDE DEF m
    <2> QED BY <2>1, <2>2, InvParts
  <1>7. mics \in Seq(Mic) /\ IsInjective(mics) /\ available \in Seq(Mic) /\ IsInjective(available)
    BY DEF AudioInv, AudioTypeOK
  <1>a. ActiveName(list, name) = KnownAs(list, name) /\ KnownAs(list, name) \in Seq(Nat)
    <2>1. m # NoMic
      BY DEF StartCapture
    <2> QED BY <1>7, <2>1, InvParts, ActiveNameIsKnown
  <1>3. new \in Thread /\ new.flag = f /\ new.call = c /\ new.name = KnownAs(list, name)
    <2> HIDE DEF m, f
    <2> QED BY <1>1, <1>2, <1>a DEF Thread
  <1>4. /\ stopFlag' = f /\ tx' = c /\ capturing' = capturing \cup {new}
        /\ raised' = (IF tx # 0 THEN raised \cup ({stopFlag} \cap Held) ELSE raised) \ {f}
        /\ activeName' = ActiveName(list, name)
    BY DEF StartCapture
  <1> HIDE DEF new, m, f
  <1>5. Held' = Held \cup {f}
    BY <1>3, <1>4 DEF Held
  <1>6. /\ raised \subseteq Held /\ capturing \subseteq Thread /\ IsFiniteSet(capturing)
        /\ \A t, u \in capturing : t.flag = u.flag => t = u
        /\ \A t \in capturing : t.flag \in Held /\ (t.flag \in raised \/ t.flag = stopFlag)
        /\ (tx = 0 => stopFlag \notin Held)
    BY InvParts DEF CapturerTypeOK, OneFlagEach, Obeys, Stopped, Held
  <1>8. CapturerTypeOK'
    <2>1. raised' \subseteq Held'
      BY <1>4, <1>5, <1>6
    <2>2. capturing' \subseteq Thread
      BY <1>3, <1>4, <1>6
    <2> QED BY <1>1, <1>4, <1>7, <2>1, <2>2 DEF CapturerTypeOK
  <1>9. OneFlagEach'
    <2>1. IsFiniteSet(capturing')
      BY <1>4, <1>6, FS_AddElement
    <2>2. ASSUME NEW t \in capturing', NEW u \in capturing', t.flag = u.flag
          PROVE  t = u
      BY <1>1, <1>3, <1>4, <1>6, <2>2
    <2>3. ASSUME NEW t \in capturing', t.flag \notin raised'
          PROVE  t.flag = stopFlag'
      <3>1. CASE t = new
        BY <1>3, <1>4, <3>1
      <3>2. CASE t \in capturing
        <4>1. t.flag # f
          BY <1>1, <1>6, <3>2
        <4> QED BY <1>4, <1>6, <2>3, <3>2, <4>1
      <3> QED BY <1>4, <3>1, <3>2
    <2> QED BY <2>1, <2>2, <2>3 DEF OneFlagEach, Obeys
  <1>10. Recording(c)'
    <2>1. stopFlag' \notin raised'
      BY <1>4
    <2>2. \E t \in capturing' : t.flag = stopFlag' /\ t.call = c
      BY <1>3, <1>4
    <2>3. ASSUME NEW t \in capturing', t.flag = stopFlag'
          PROVE  activeName' = t.name
      <3>1. t = new
        BY <1>1, <1>4, <1>6, <2>3
      <3> QED BY <1>3, <1>4, <1>a, <3>1
    <2> QED BY <1>4, <2>1, <2>2, <2>3 DEF Recording
  <1> QED BY <1>8, <1>9, <1>10

LEMMA FailureStops ==
  ASSUME AudioInv, NEW name, NEW list, StartCaptureFails(list, name),
         available' \in {available, mics}
  PROVE  /\ CapturerTypeOK' /\ OneFlagEach' /\ Stopped'
         /\ silent' = IF call # 0 THEN "failed" ELSE silent
  <1>1. CASE tx # 0
    <2>1. StopThread /\ UNCHANGED capturing /\ silent' = IF call # 0 THEN "failed" ELSE silent
      BY <1>1 DEF StartCaptureFails
    <2> QED BY <2>1, StopThreadStops
  <1>2. CASE tx = 0
    <2>1. /\ UNCHANGED <<capturing, stopFlag, raised, tx>>
          /\ silent' = IF call # 0 THEN "failed" ELSE silent
      BY <1>2 DEF StartCaptureFails
    <2> QED BY <1>2, <2>1, InvParts DEF CapturerTypeOK, OneFlagEach, Stopped, Held, Obeys, AudioTypeOK
  <1> QED BY <1>1, <1>2

\* The types of what is not the capturer's.
SystemTypeOK ==
  /\ mics \in Seq(Mic) /\ IsInjective(mics) /\ standard \in ToSet(mics) \cup {NoMic}
  /\ raw \in Namings /\ plugs \in 0..MaxPlugs

CallTypeOK ==
  /\ call \in 0..captures /\ listening \subseteq 1..captures /\ captures \in 0..MaxCaptures
  /\ errors \in Nat /\ defaultNews \in BOOLEAN /\ silent \in {"no", "stopped", "failed"}
  /\ open \in BOOLEAN /\ untold \in BOOLEAN

LEMMA TypesTogether ==
  /\ AudioTypeOK <=> SystemTypeOK /\ CapturerTypeOK /\ CallTypeOK /\ tx \in 0..captures
  /\ AudioTypeOK' <=> SystemTypeOK' /\ CapturerTypeOK' /\ CallTypeOK' /\ tx' \in 0..captures'
  BY DEF AudioTypeOK, SystemTypeOK, CapturerTypeOK, CallTypeOK, Held

LEMMA PlugsCount ==
  ASSUME SystemTypeOK, PlugsOne
  PROVE  plugs' \in 0..MaxPlugs
  BY AudioAssumption DEF SystemTypeOK, PlugsOne

\* Another microphone in a call that goes on, or none.
LEMMA AfterSwitch ==
  ASSUME AudioInv, NEW name, tx # 0, SwitchDevice(name),
         UNCHANGED <<mics, standard, raw, call, listening>>,
         errors' \in Nat, defaultNews' \in BOOLEAN, captures' \in captures..MaxCaptures,
         open' \in BOOLEAN, untold' \in BOOLEAN,
         tx' # 0 /\ open' /\ ~untold' => window' = activeName'
  PROVE  AudioInv'
  <1>1. /\ tx = call /\ tx \in listening /\ silent = "no" /\ tx \in 0..captures /\ captures \in Nat
        /\ captures <= MaxCaptures /\ MaxCaptures \in Nat
        /\ SystemTypeOK /\ CallTypeOK /\ call # 0
    BY AudioAssumption, TypesTogether DEF AudioInv, CaptureGoesOn, CallTypeOK
  <1>2. PICK c \in 1..MaxCaptures : c = tx
    BY <1>1
  <1>3. available' = mics /\ (StartCapture(mics, name, c) \/ StartCaptureFails(mics, name))
    BY <1>2 DEF SwitchDevice
  <1>4. SystemTypeOK'
    <2>1. plugs' \in 0..MaxPlugs
      BY <1>1, <1>3, PlugsCount DEF StartCapture, StartCaptureFails, SystemTypeOK
    <2> QED BY <1>1, <2>1 DEF SystemTypeOK
  <1>5. CASE StartCapture(mics, name, c)
    <2>1. CapturerTypeOK' /\ OneFlagEach' /\ Recording(c)' /\ silent' = "no"
      BY <1>3, <1>5, StartRecords DEF StartCapture
    <2>2. tx' = c
      BY <2>1 DEF Recording
    <2>3. CallTypeOK'
      BY <1>1, <2>1 DEF CallTypeOK
    <2>4. AudioTypeOK'
      BY <1>1, <1>2, <1>4, <2>1, <2>2, <2>3, TypesTogether
    <2>5. CaptureGoesOn'
      BY <1>1, <1>2, <2>1, <2>2 DEF CaptureGoesOn, Recording
    <2>6. NameGoesWithIt'
      BY <2>1 DEF NameGoesWithIt, Recording
    <2> QED BY <2>1, <2>4, <2>5, <2>6 DEF AudioInv
  <1>6. CASE StartCaptureFails(mics, name)
    <2>1. CapturerTypeOK' /\ OneFlagEach' /\ Stopped' /\ silent' = "failed"
      BY <1>1, <1>3, <1>6, FailureStops
    <2>2. tx' = 0
      BY <2>1 DEF Stopped
    <2>3. CallTypeOK'
      BY <1>1, <2>1 DEF CallTypeOK
    <2>4. AudioTypeOK'
      BY <1>1, <1>4, <2>1, <2>2, <2>3, TypesTogether
    <2>5. CaptureGoesOn'
      BY <1>1, <2>1, <2>2 DEF CaptureGoesOn, Stopped
    <2>6. NameGoesWithIt'
      BY <2>2 DEF NameGoesWithIt
    <2> QED BY <2>1, <2>4, <2>5, <2>6 DEF AudioInv
  <1> QED BY <1>3, <1>5, <1>6

\* What the capturer does of itself, when the window is told.
LEMMA AfterHandling ==
  ASSUME AudioInv, NEW force \in BOOLEAN, HandleDefaultDeviceChanged(force), Tells,
         UNCHANGED <<mics, standard, raw, call, listening, captures>>,
         errors' \in Nat, defaultNews' \in BOOLEAN, tx # 0 /\ ~force => errors' >= errors
  PROVE  AudioInv'
  <1>1. /\ captures \in 0..MaxCaptures /\ captures \in Nat /\ errors \in Nat /\ OneFlagEach
        /\ SystemTypeOK /\ CapturerTypeOK /\ CallTypeOK /\ tx \in 0..captures
    BY AudioAssumption, TypesTogether DEF AudioInv, CallTypeOK
  <1>2. open' \in BOOLEAN /\ untold' \in BOOLEAN /\ (open' => window' = activeName')
    BY <1>1 DEF Tells, CallTypeOK
  <1>3. CASE tx = 0 \/ (~force /\ activeName \in ToSet(UiNames(mics)))
    <2>1. /\ UNCHANGED <<stopFlag, raised, tx, activeName, capturing, plugs, silent>>
          /\ available' \in {available, mics}
      BY <1>3 DEF HandleDefaultDeviceChanged, capturerVars
    <2>2. SystemTypeOK' /\ CallTypeOK' /\ tx' \in 0..captures'
      BY <1>1, <1>2, <2>1 DEF SystemTypeOK, CallTypeOK
    <2>3. CapturerTypeOK'
      BY <1>1, <2>1 DEF SystemTypeOK, CapturerTypeOK, Held
    <2>4. AudioTypeOK'
      BY <2>2, <2>3, TypesTogether
    <2>5. OneFlagEach'
      BY <1>1, <2>1 DEF OneFlagEach, Obeys
    <2>6. CaptureGoesOn'
      <3>1. tx # 0 => errors' >= errors
        BY <1>3
      <3>2. CaptureGoesOn
        BY DEF AudioInv
      <3>3. tx # 0 /\ errors > 0 => errors' > 0
        BY <1>1, <3>1
      <3> QED BY <1>2, <2>1, <3>2, <3>3 DEF CaptureGoesOn, Held
    <2>7. NameGoesWithIt'
      BY <1>2, <2>1 DEF NameGoesWithIt, AudioInv
    <2> QED BY <2>4, <2>5, <2>6, <2>7 DEF AudioInv
  <1>4. CASE tx # 0 /\ ~(~force /\ activeName \in ToSet(UiNames(mics)))
    <2>1. SwitchDevice(NoName)
      BY <1>4 DEF HandleDefaultDeviceChanged
    <2> QED BY <1>1, <1>2, <1>4, <2>1, AfterSwitch
  <1> QED BY <1>3, <1>4

LEMMA AudioInitInv == AudioInit => AudioInv
  <1> SUFFICES ASSUME AudioInit PROVE AudioInv
    OBVIOUS
  <1>0. PICK there \in SUBSET Mic :
              /\ mics = SetToSeq(there)
              /\ standard \in (IF there = {} THEN {NoMic} ELSE there)
    BY DEF AudioInit
  <1> DEFINE n == Cardinality(there)
  <1>1. n \in Nat /\ ExistsBijection(1..n, there) /\ IsFiniteSet(there)
    BY AudioAssumption, FS_Subset, FS_CardinalityType
  <1>2. \E f \in [1..n -> there] : IsInjective(f)
    <2> HIDE DEF n
    <2> QED BY <1>1 DEF ExistsBijection, Bijection, Injection
  <1>3. mics \in [1..n -> there] /\ IsInjective(mics)
    <2>1. mics = CHOOSE f \in [1..n -> there] : IsInjective(f)
      BY <1>0 DEF SetToSeq
    <2> HIDE DEF n
    <2> QED BY <1>2, <2>1
  <1> HIDE DEF n
  <1>4. mics \in Seq(Mic) /\ DOMAIN mics = 1..n
    <2>1. mics \in [1..n -> Mic]
      BY <1>3
    <2> QED BY <1>1, <2>1, IsASeq, LenProperties
  <1>5. AudioTypeOK
    <2>1. standard \in ToSet(mics) \cup {NoMic}
      <3>1. PICK f \in Bijection(1..n, there) : TRUE
        BY <1>1 DEF ExistsBijection
      <3>2. mics \in Injection(1..n, there)
        BY <1>3 DEF Injection
      <3>3. IsFiniteSet(there) /\ Cardinality(1..n) = Cardinality(there)
        BY <1>1, NumbersBetween DEF n
      <3>4. mics \in Surjection(1..n, there)
        BY <3>2, <3>3, FS_Injection
      <3>5. ToSet(mics) = there
        BY <1>4, <3>4 DEF Surjection, ToSet
      <3> QED BY <1>0, <3>5
    <2>2. /\ available = <<>> /\ raw \in Namings /\ stopFlag = 1 /\ raised = {} /\ tx = 0
          /\ capturing = {} /\ call = 0 /\ listening = {} /\ errors = 0 /\ defaultNews = FALSE
          /\ silent = "no" /\ captures = 0 /\ plugs = 0
          /\ open = FALSE /\ untold = FALSE
      BY DEF AudioInit
    <2>3. 0 \in 0..MaxCaptures /\ 0 \in 0..MaxPlugs
      BY AudioAssumption
    <2>4. SystemTypeOK
      BY <1>3, <1>4, <2>1, <2>2, <2>3 DEF SystemTypeOK
    <2>5. CapturerTypeOK
      <3>1. <<>> \in Seq(Mic) /\ IsInjective(<<>>)
        BY EmptySeq DEF IsInjective
      <3> QED BY <2>2, <3>1 DEF CapturerTypeOK
    <2>6. CallTypeOK /\ tx \in 0..captures
      <3>1. 0 \in 0..0 /\ {} \subseteq 1..0
        OBVIOUS
      <3> QED BY <2>2, <2>3, <3>1 DEF CallTypeOK
    <2> QED BY <2>4, <2>5, <2>6, TypesTogether
  <1>6. OneFlagEach
    <2>1. capturing = {}
      BY DEF AudioInit
    <2>2. IsFiniteSet(capturing)
      BY <2>1, FS_EmptySet
    <2> QED BY <2>1, <2>2 DEF OneFlagEach
  <1>7. CaptureGoesOn /\ NameGoesWithIt
    BY DEF AudioInit, CaptureGoesOn, NameGoesWithIt, Held
  <1> QED BY <1>5, <1>6, <1>7 DEF AudioInv

\* Only the system does something: of the threads no more than that their microphones are gone.
LEMMA AfterPlugging ==
  ASSUME AudioInv, SystemTypeOK', defaultNews' \in BOOLEAN,
         UNCHANGED <<raw, available, stopFlag, raised, tx, activeName, call, listening, errors,
                     open, window, untold, silent, captures>>,
         \/ UNCHANGED capturing
         \/ \E m \in Mic : capturing' = {[t EXCEPT !.dead = @ \/ t.mic = m] : t \in capturing}
  PROVE  AudioInv'
  <1>1. SystemTypeOK /\ CapturerTypeOK /\ CallTypeOK /\ tx \in 0..captures
    BY TypesTogether DEF AudioInv
  <1>2. /\ capturing' \subseteq Thread /\ IsFiniteSet(capturing')
        /\ \A t \in capturing : \E u \in capturing' : u.flag = t.flag /\ u.call = t.call
        /\ \A u \in capturing' : \E t \in capturing : /\ u.flag = t.flag /\ u.call = t.call
                                                    /\ u.name = t.name
        /\ \A u, w \in capturing' : u.flag = w.flag => u = w
    <2>1. CASE UNCHANGED capturing
      BY <1>1, <2>1 DEF CapturerTypeOK, OneFlagEach, AudioInv
    <2>2. ASSUME NEW m \in Mic,
                 capturing' = {[t EXCEPT !.dead = @ \/ t.mic = m] : t \in capturing}
          PROVE  <1>2
      <3> DEFINE f == [t \in capturing |-> [t EXCEPT !.dead = @ \/ t.mic = m]]
      <3>1. \A t \in capturing : /\ f[t] \in Thread /\ f[t].flag = t.flag /\ f[t].call = t.call
                                /\ f[t].name = t.name
        BY <1>1 DEF CapturerTypeOK, Thread
      <3>2. f \in Surjection(capturing, capturing')
        <4>1. f \in [capturing -> capturing']
          BY <2>2
        <4>2. \A u \in capturing' : \E t \in capturing : f[t] = u
          BY <2>2
        <4> QED BY <4>1, <4>2 DEF Surjection
      <3> HIDE DEF f
      <3>3. f \in [capturing -> capturing'] /\ \A u \in capturing' : \E t \in capturing : f[t] = u
        BY <3>2 DEF Surjection
      <3>4. IsFiniteSet(capturing')
        BY <3>2, FS_Surjection DEF OneFlagEach, AudioInv
      <3>5. \A u, w \in capturing' : u.flag = w.flag => u = w
        <4> TAKE u \in capturing', w \in capturing'
        <4>1. PICK a \in capturing, b \in capturing : f[a] = u /\ f[b] = w
          BY <3>3
        <4>2. a.flag = b.flag => a = b
          BY DEF OneFlagEach, AudioInv
        <4> QED BY <3>1, <4>1, <4>2
      <3> QED BY <3>1, <3>3, <3>4, <3>5
    <2> QED BY <2>1, <2>2
  <1>3. Held' = Held
    BY <1>2 DEF Held
  <1>4. AudioTypeOK'
    <2>1. CapturerTypeOK' /\ CallTypeOK' /\ tx' \in 0..captures'
      BY <1>1, <1>2, <1>3 DEF CapturerTypeOK, CallTypeOK
    <2> QED BY <2>1, TypesTogether
  <1>5. OneFlagEach'
    <2>1. \A u \in capturing' : u.flag \notin raised => u.flag = stopFlag
      BY <1>2 DEF OneFlagEach, Obeys, AudioInv
    <2> QED BY <1>2, <2>1 DEF OneFlagEach, Obeys
  <1>6. CaptureGoesOn'
    <2>1. CaptureGoesOn
      BY DEF AudioInv
    <2>2. (\E t \in capturing : t.flag = stopFlag /\ t.call = tx)
            => \E t \in capturing' : t.flag = stopFlag /\ t.call = tx
      BY <1>2
    <2> QED BY <1>3, <2>1, <2>2 DEF CaptureGoesOn
  <1>7. NameGoesWithIt'
    <2>1. NameGoesWithIt
      BY DEF AudioInv
    <2> QED BY <1>2, <2>1 DEF NameGoesWithIt
  <1> QED BY <1>4, <1>5, <1>6, <1>7 DEF AudioInv

LEMMA PlugInKeeps ==
  ASSUME AudioInv, NEW m \in Mic, PlugIn(m)
  PROVE  AudioInv'
  <1>1. SystemTypeOK /\ CallTypeOK
    BY TypesTogether DEF AudioInv
  <1>2. /\ mics' = Append(mics, m) /\ mics \in Seq(Mic) /\ m \notin ToSet(mics) /\ raw' = raw
        /\ standard' \in {m, standard, NoMic}
    BY <1>1 DEF PlugIn, SystemTypeOK, NewDefault
  <1>3. Len(mics) \in Nat /\ DOMAIN mics = 1..Len(mics)
    BY <1>2, LenProperties
  <1>4. /\ mics' \in Seq(Mic) /\ Len(mics') = Len(mics) + 1 /\ mics'[Len(mics) + 1] = m
        /\ \A i \in 1..Len(mics) : mics'[i] = mics[i]
    BY <1>2, AppendProperties
  <1>5. DOMAIN mics' = 1..(Len(mics) + 1)
    BY <1>4, LenProperties
  <1>6. IsInjective(mics')
    <2>1. \A i \in 1..Len(mics) : mics[i] # m
      BY <1>2, <1>3 DEF ToSet
    <2>2. \A i, j \in 1..Len(mics) : mics[i] = mics[j] => i = j
      BY <1>1, <1>3 DEF SystemTypeOK, IsInjective
    <2>3. \A i \in 1..(Len(mics) + 1) : i = Len(mics) + 1 \/ i \in 1..Len(mics)
      BY <1>3
    <2>4. \A i, j \in 1..(Len(mics) + 1) : mics'[i] = mics'[j] => i = j
      BY <1>4, <2>1, <2>2, <2>3
    <2> QED BY <1>5, <2>4 DEF IsInjective
  <1>7. ToSet(mics) \cup {m} \subseteq ToSet(mics')
    <2>1. \A i \in 1..Len(mics) : i \in 1..(Len(mics) + 1)
      BY <1>3
    <2>2. Len(mics) + 1 \in 1..(Len(mics) + 1)
      BY <1>3
    <2> QED BY <1>3, <1>4, <1>5, <2>1, <2>2 DEF ToSet
  <1>8. SystemTypeOK'
    <2>1. standard' \in ToSet(mics') \cup {NoMic}
      BY <1>1, <1>2, <1>7 DEF SystemTypeOK
    <2>2. plugs' \in 0..MaxPlugs
      BY <1>1, PlugsCount DEF PlugIn
    <2> QED BY <1>1, <1>2, <1>4, <1>6, <2>1, <2>2 DEF SystemTypeOK
  <1>9. defaultNews' \in BOOLEAN
    BY <1>1 DEF PlugIn, NewDefault, CallTypeOK
  <1> QED BY <1>8, <1>9, AfterPlugging DEF shownVars, PlugIn, capturerVars

LEMMA PullOutKeeps ==
  ASSUME AudioInv, NEW m \in Mic, PullOut(m)
  PROVE  AudioInv'
  <1>1. SystemTypeOK /\ CallTypeOK
    BY TypesTogether DEF AudioInv
  <1>2. PICK i \in DOMAIN mics : mics[i] = m /\ mics' = RemoveAt(mics, i)
    BY DEF PullOut
  <1>3. mics \in Seq(Mic) /\ Len(mics) \in Nat /\ DOMAIN mics = 1..Len(mics) /\ i \in 1..Len(mics)
    BY <1>1, <1>2, LenProperties DEF SystemTypeOK
  <1>4. /\ mics' \in Seq(Mic) /\ DOMAIN mics' = 1..(Len(mics) - 1)
        /\ \A j \in 1..(Len(mics) - 1) : mics'[j] = IF j < i THEN mics[j] ELSE mics[j + 1]
    <2> DEFINE a == SubSeq(mics, 1, i - 1)
               b == SubSeq(mics, i + 1, Len(mics))
    <2>1. /\ a \in Seq(Mic) /\ Len(a) = i - 1 /\ \A j \in 1..(i - 1) : a[j] = mics[j]
      BY <1>3, SubSeqProperties
    <2>2. /\ b \in Seq(Mic) /\ Len(b) = Len(mics) - i
          /\ \A j \in 1..(Len(mics) - i) : b[j] = mics[i + j]
      BY <1>3, SubSeqProperties
    <2>3. mics' = a \o b
      BY <1>2 DEF RemoveAt
    <2> HIDE DEF a, b
    <2>4. /\ mics' \in Seq(Mic) /\ Len(mics') = Len(mics) - 1
          /\ \A j \in 1..(Len(mics) - 1) : mics'[j] = IF j <= i - 1 THEN a[j] ELSE b[j - (i - 1)]
      <3>1. /\ a \o b \in Seq(Mic) /\ Len(a \o b) = Len(a) + Len(b)
            /\ \A j \in 1..(Len(a) + Len(b)) :
                 (a \o b)[j] = IF j <= Len(a) THEN a[j] ELSE b[j - Len(a)]
        BY <2>1, <2>2, ConcatProperties
      <3>2. Len(a) + Len(b) = Len(mics) - 1
        BY <1>3, <2>1, <2>2
      <3> QED BY <2>1, <2>3, <3>1, <3>2
    <2>5. DOMAIN mics' = 1..(Len(mics) - 1)
      BY <2>4, LenProperties
    <2>6. ASSUME NEW j \in 1..(Len(mics) - 1)
          PROVE  mics'[j] = IF j < i THEN mics[j] ELSE mics[j + 1]
      <3>1. CASE j < i
        <4>1. j \in 1..(i - 1) /\ j <= i - 1
          BY <1>3, <3>1
        <4> QED BY <2>1, <2>4, <3>1, <4>1
      <3>2. CASE ~(j < i)
        <4>1. j - (i - 1) \in 1..(Len(mics) - i) /\ ~(j <= i - 1) /\ i + (j - (i - 1)) = j + 1
          BY <1>3, <3>2
        <4> QED BY <2>2, <2>4, <3>2, <4>1
      <3> QED BY <3>1, <3>2
    <2> QED BY <2>4, <2>5, <2>6
  <1>5. \A j, k \in 1..Len(mics) : mics[j] = mics[k] => j = k
    BY <1>1, <1>3 DEF SystemTypeOK, IsInjective
  <1>6. IsInjective(mics')
    <2> SUFFICES ASSUME NEW j \in 1..(Len(mics) - 1), NEW k \in 1..(Len(mics) - 1),
                        mics'[j] = mics'[k]
                 PROVE  j = k
      BY <1>4 DEF IsInjective
    <2> DEFINE at(l) == IF l < i THEN l ELSE l + 1
    <2>1. /\ at(j) \in 1..Len(mics) /\ at(k) \in 1..Len(mics)
          /\ mics'[j] = mics[at(j)] /\ mics'[k] = mics[at(k)]
      BY <1>3, <1>4
    <2>2. at(j) = at(k)
      <3> HIDE DEF at
      <3> QED BY <1>5, <2>1
    <2> QED BY <1>3, <2>2
  <1>7. ToSet(mics) \ {m} \subseteq ToSet(mics')
    <2> SUFFICES ASSUME NEW x \in ToSet(mics), x # m PROVE x \in ToSet(mics')
      OBVIOUS
    <2>1. PICK j \in 1..Len(mics) : mics[j] = x
      BY <1>3 DEF ToSet
    <2>2. j # i
      BY <1>2, <2>1
    <2> DEFINE l == IF j < i THEN j ELSE j - 1
    <2>3. l \in 1..(Len(mics) - 1) /\ mics'[l] = mics[j]
      BY <1>3, <1>4, <2>2
    <2> HIDE DEF l
    <2> QED BY <1>4, <2>1, <2>3 DEF ToSet
  <1>8. SystemTypeOK'
    <2>1. standard' \in ToSet(mics') \cup {NoMic}
      <3>1. standard' \in (IF m = standard THEN ToSet(mics) \ {m} ELSE {standard}) \cup {NoMic}
        BY DEF PullOut, NewDefault
      <3> QED BY <1>1, <1>7, <3>1 DEF SystemTypeOK
    <2>2. plugs' \in 0..MaxPlugs
      BY <1>1, PlugsCount DEF PullOut
    <2> QED BY <1>1, <1>4, <1>6, <2>1, <2>2 DEF SystemTypeOK, PullOut
  <1>9. defaultNews' \in BOOLEAN
    BY <1>1 DEF PullOut, NewDefault, CallTypeOK
  <1> QED BY <1>8, <1>9, AfterPlugging DEF PullOut, shownVars

LEMMA SetDefaultKeeps ==
  ASSUME AudioInv, NEW m \in Mic, SetDefault(m)
  PROVE  AudioInv'
  <1>1. SystemTypeOK /\ CallTypeOK
    BY TypesTogether DEF AudioInv
  <1>2. SystemTypeOK'
    <2>1. plugs' \in 0..MaxPlugs
      BY <1>1, PlugsCount DEF SetDefault
    <2> QED BY <1>1, <2>1 DEF SetDefault, NewDefault, SystemTypeOK
  <1>3. defaultNews' \in BOOLEAN
    BY <1>1 DEF SetDefault, NewDefault, CallTypeOK
  <1> QED BY <1>2, <1>3, AfterPlugging DEF SetDefault, capturerVars, shownVars

LEMMA CaptureThreadKeeps ==
  ASSUME AudioInv, NEW t \in capturing, CaptureThread(t)
  PROVE  AudioInv'
  <1>1. /\ SystemTypeOK /\ CapturerTypeOK /\ CallTypeOK /\ tx \in 0..captures /\ errors \in Nat
        /\ OneFlagEach /\ CaptureGoesOn /\ NameGoesWithIt
    BY TypesTogether DEF AudioInv, CallTypeOK
  <1>2. /\ capturing' = capturing \ {t} /\ raised' = raised \cap Held'
        /\ UNCHANGED <<mics, standard, raw, plugs, available, stopFlag, tx, activeName, call,
                       listening, defaultNews, open, window, untold, silent, captures>>
        /\ \/ UNCHANGED errors /\ (t.flag \in raised \/ t.call \notin listening)
           \/ errors' = errors + 1
    BY DEF CaptureThread, ThreadEnds, ThreadReadsShort, systemVars, shownVars, Held
  <1>3. Held' \subseteq Held /\ \A u \in capturing' : u \in capturing /\ u.flag \in Held'
    BY <1>2 DEF Held
  <1>4. AudioTypeOK'
    <2>1. SystemTypeOK' /\ CallTypeOK' /\ tx' \in 0..captures'
      BY <1>1, <1>2 DEF SystemTypeOK, CallTypeOK
    <2>2. CapturerTypeOK'
      BY <1>1, <1>2, <1>3 DEF CapturerTypeOK
    <2> QED BY <2>1, <2>2, TypesTogether
  <1>5. OneFlagEach'
    <2>1. IsFiniteSet(capturing')
      BY <1>1, <1>2, FS_RemoveElement DEF OneFlagEach
    <2> QED BY <1>1, <1>2, <1>3, <2>1 DEF OneFlagEach, Obeys
  <1>6. CaptureGoesOn'
    <2>1. ASSUME tx # 0
          PROVE  \/ \E u \in capturing' : u.flag = stopFlag /\ u.call = tx
                 \/ errors' > 0
      <3>1. CASE errors' = errors + 1
        BY <1>1, <3>1
      <3>2. CASE UNCHANGED errors /\ (t.flag \in raised \/ t.call \notin listening)
        <4>1. ~(t.flag = stopFlag /\ t.call = tx)
          BY <1>1, <2>1, <3>2 DEF CaptureGoesOn
        <4> QED BY <1>1, <1>2, <2>1, <3>2, <4>1 DEF CaptureGoesOn
      <3> QED BY <1>2, <3>1, <3>2
    <2> QED BY <1>1, <1>2, <1>3, <2>1 DEF CaptureGoesOn
  <1>7. NameGoesWithIt'
    BY <1>1, <1>2, <1>3 DEF NameGoesWithIt
  <1> QED BY <1>4, <1>5, <1>6, <1>7 DEF AudioInv

LEMMA CallCapturesKeeps ==
  ASSUME AudioInv, NEW name, CallCaptures(name)
  PROVE  AudioInv'
  <1>1. /\ SystemTypeOK /\ CapturerTypeOK /\ CallTypeOK /\ tx \in 0..captures
        /\ CaptureGoesOn /\ captures \in Nat /\ MaxCaptures \in Nat
    BY AudioAssumption, TypesTogether DEF AudioInv, CallTypeOK
  <1>2. /\ captures' = captures + 1 /\ captures' \in 1..MaxCaptures
        /\ UNCHANGED <<mics, standard, raw, errors, defaultNews, open, window, available>>
    BY <1>1 DEF CallCaptures, Captures
  <1>4. PICK c \in 1..MaxCaptures : c = captures'
    BY <1>2
  <1>5. \/ /\ StartCapture(available, name, c) /\ call' = c /\ listening' = listening \cup {c}
           /\ untold' = open
        \/ StartCaptureFails(available, name) /\ UNCHANGED <<call, listening, untold>>
    BY <1>4 DEF CallCaptures
  <1>6. SystemTypeOK'
    <2>1. plugs' \in 0..MaxPlugs
      BY <1>1, <1>5, PlugsCount DEF StartCapture, StartCaptureFails, SystemTypeOK
    <2> QED BY <1>1, <1>2, <2>1 DEF SystemTypeOK
  <1>7. CASE /\ StartCapture(available, name, c) /\ call' = c /\ listening' = listening \cup {c}
             /\ untold' = open
    <2>1. CapturerTypeOK' /\ OneFlagEach' /\ Recording(c)' /\ silent' = "no"
      BY <1>2, <1>7, StartRecords DEF StartCapture
    <2>2. tx' = c /\ c = captures + 1
      BY <1>2, <1>4, <2>1 DEF Recording
    <2>3. CallTypeOK' /\ tx' \in 0..captures'
      BY <1>1, <1>2, <1>7, <2>1, <2>2 DEF CallTypeOK
    <2>4. AudioTypeOK'
      BY <1>6, <2>1, <2>3, TypesTogether
    <2>5. CaptureGoesOn'
      BY <1>7, <2>1, <2>2 DEF CaptureGoesOn, Recording
    <2>6. NameGoesWithIt'
      BY <1>2, <1>7, <2>1 DEF NameGoesWithIt, Recording
    <2> QED BY <2>1, <2>4, <2>5, <2>6 DEF AudioInv
  <1>8. CASE StartCaptureFails(available, name) /\ UNCHANGED <<call, listening, untold>>
    <2>1. /\ CapturerTypeOK' /\ OneFlagEach' /\ Stopped'
          /\ silent' = IF call # 0 THEN "failed" ELSE silent
      BY <1>2, <1>8, FailureStops
    <2>2. tx' = 0
      BY <2>1 DEF Stopped
    <2>3. CallTypeOK' /\ tx' \in 0..captures'
      <3>1. 0 \in 0..(captures + 1) /\ 1..captures \subseteq 1..(captures + 1)
        BY <1>1
      <3>2. call' \in 0..captures' /\ listening' \subseteq 1..captures' /\ captures' \in 0..MaxCaptures
        BY <1>1, <1>2, <1>8, <3>1 DEF CallTypeOK
      <3> QED BY <1>1, <1>2, <1>8, <2>1, <2>2, <3>1, <3>2 DEF CallTypeOK
    <2>4. AudioTypeOK'
      BY <1>6, <2>1, <2>3, TypesTogether
    <2>5. CaptureGoesOn'
      BY <1>1, <1>8, <2>1, <2>2 DEF CaptureGoesOn, Stopped
    <2>6. NameGoesWithIt'
      BY <2>2 DEF NameGoesWithIt
    <2> QED BY <2>1, <2>4, <2>5, <2>6 DEF AudioInv
  <1> QED BY <1>5, <1>7, <1>8

\* The call is left, or the microphone stopped in it.
LEMMA StopMicKeeps ==
  ASSUME AudioInv, StopMic,
         open' \in BOOLEAN, untold' \in BOOLEAN,
         \/ call' = 0 /\ silent' = "no"
         \/ UNCHANGED call /\ silent' = IF call # 0 THEN "stopped" ELSE silent
  PROVE  AudioInv'
  <1>1. /\ SystemTypeOK /\ CallTypeOK /\ tx \in 0..captures /\ CaptureGoesOn /\ captures \in Nat
    BY AudioAssumption, TypesTogether DEF AudioInv, CallTypeOK
  <1>2. /\ StopThread /\ UNCHANGED <<mics, standard, raw, plugs, available, capturing, listening,
                                     errors, defaultNews, captures>>
    BY DEF StopMic, StopCapture, systemVars
  <1>3. CapturerTypeOK' /\ OneFlagEach' /\ Stopped' /\ tx' = 0
    BY <1>2, StopThreadStops DEF Stopped
  <1>4. AudioTypeOK'
    <2>1. SystemTypeOK'
      BY <1>1, <1>2 DEF SystemTypeOK
    <2>0. 0 \in 0..captures /\ call \in 0..captures
      BY <1>1 DEF CallTypeOK
    <2>2. call' \in 0..captures /\ silent' \in {"no", "stopped", "failed"}
      BY <1>1, <2>0 DEF CallTypeOK
    <2>3. CallTypeOK' /\ tx' \in 0..captures'
      BY <1>1, <1>2, <1>3, <2>2 DEF CallTypeOK
    <2> QED BY <1>3, <2>1, <2>3, TypesTogether
  <1>5. CaptureGoesOn'
    BY <1>1, <1>3 DEF CaptureGoesOn, Stopped
  <1>6. NameGoesWithIt'
    BY <1>3 DEF NameGoesWithIt
  <1> QED BY <1>3, <1>4, <1>5, <1>6 DEF AudioInv

\* The capturer and its threads are as they were, but for what it has listed.
LEMMA CapturerRests ==
  ASSUME AudioInv, SystemTypeOK', CallTypeOK', tx' \in 0..captures', available' \in {available, mics},
         UNCHANGED <<mics, raw, stopFlag, raised, tx, activeName, capturing, call, silent, errors>>,
         open' /\ ~untold' => (open /\ ~untold /\ UNCHANGED window) \/ window' = activeName,
         tx # 0 => tx \in listening'
  PROVE  AudioInv'
  <1>1. SystemTypeOK /\ CapturerTypeOK /\ OneFlagEach /\ CaptureGoesOn /\ NameGoesWithIt
    BY TypesTogether DEF AudioInv
  <1>2. CapturerTypeOK'
    BY <1>1 DEF SystemTypeOK, CapturerTypeOK, Held
  <1>3. OneFlagEach'
    BY <1>1 DEF OneFlagEach, Obeys
  <1>4. CaptureGoesOn'
    BY <1>1 DEF CaptureGoesOn, Held
  <1>5. NameGoesWithIt'
    BY <1>1 DEF NameGoesWithIt
  <1> QED BY <1>2, <1>3, <1>4, <1>5, TypesTogether DEF AudioInv

LEMMA AudioStep ==
  ASSUME AudioInv, [AudioNext]_audioVars
  PROVE  AudioInv'
  <1>0. /\ SystemTypeOK /\ CapturerTypeOK /\ CallTypeOK /\ tx \in 0..captures
        /\ CaptureGoesOn /\ captures \in Nat /\ MaxCaptures \in Nat /\ errors \in Nat
        /\ captures <= MaxCaptures /\ NameGoesWithIt
    BY AudioAssumption, TypesTogether DEF AudioInv, CallTypeOK
  <1>1. CASE UNCHANGED audioVars
    <2>1. SystemTypeOK' /\ CallTypeOK' /\ tx' \in 0..captures'
      BY <1>0, <1>1 DEF audioVars, systemVars, capturerVars, shownVars, SystemTypeOK, CallTypeOK
    <2> QED BY <1>0, <1>1, <2>1, CapturerRests DEF audioVars, systemVars, capturerVars, shownVars, CaptureGoesOn
  <1>2. ASSUME NEW m \in Mic, PlugIn(m) \/ PullOut(m) \/ SetDefault(m)
        PROVE  AudioInv'
    BY <1>2, PlugInKeeps, PullOutKeeps, SetDefaultKeeps
  <1>3. ASSUME NEW t \in capturing, CaptureThread(t)
        PROVE  AudioInv'
    BY <1>3, CaptureThreadKeeps
  <1>4. ASSUME NEW name, CallCaptures(name)
        PROVE  AudioInv'
    BY <1>4, CallCapturesKeeps
  <1>5. ASSUME NEW name, NEW fromWindow, StartAudioCapture(name, fromWindow)
        PROVE  AudioInv'
    <2>1. /\ IF tx # 0 THEN SwitchDevice(name) ELSE UNCHANGED <<capturerVars, plugs, silent>>
          /\ UNCHANGED <<mics, standard, raw, call, listening, errors, defaultNews, open>>
          /\ captures < MaxCaptures /\ captures' = captures + 1
          /\ (tx' # 0 /\ open => window' = activeName') /\ untold' \in BOOLEAN
      BY <1>5 DEF StartAudioCapture, Captures
    <2>2. /\ captures' \in captures..MaxCaptures /\ errors' \in Nat /\ defaultNews' \in BOOLEAN
          /\ open' \in BOOLEAN
      BY <1>0, <2>1 DEF CallTypeOK
    <2>3. CASE tx # 0
      BY <2>1, <2>2, <2>3, AfterSwitch
    <2>4. CASE tx = 0
      <3>1. UNCHANGED <<capturerVars, plugs, silent>>
        BY <2>1, <2>4
      <3>2. 0 \in 0..captures' /\ 0..captures \subseteq 0..captures' /\ 1..captures \subseteq 1..captures'
        BY <1>0, <2>1
      <3>3. captures' \in 0..MaxCaptures
        BY <1>0, <2>2
      <3>4. SystemTypeOK' /\ CallTypeOK' /\ CapturerTypeOK' /\ tx' \in 0..captures'
        BY <1>0, <2>1, <2>2, <2>4, <3>1, <3>2, <3>3
        DEF SystemTypeOK, CallTypeOK, CapturerTypeOK, capturerVars, Held
      <3>5. OneFlagEach'
        BY <3>1 DEF AudioInv, OneFlagEach, Obeys, capturerVars
      <3>6. CaptureGoesOn' /\ NameGoesWithIt'
        BY <1>0, <2>1, <2>4, <3>1 DEF CaptureGoesOn, NameGoesWithIt, Held, capturerVars
      <3> QED BY <3>4, <3>5, <3>6, TypesTogether DEF AudioInv
    <2> QED BY <2>3, <2>4
  <1>6. CASE ListAudioDevices
    <2>1. SystemTypeOK' /\ CallTypeOK' /\ tx' \in 0..captures'
      BY <1>0, <1>6 DEF ListAudioDevices, systemVars, shownVars, SystemTypeOK, CallTypeOK
    <2> QED BY <1>0, <1>6, <2>1, CapturerRests
         DEF ListAudioDevices, systemVars, shownVars, CaptureGoesOn
  <1>7. CASE CallReleases
    BY <1>0, <1>7, StopMicKeeps DEF CallReleases, Hides, shownVars, CallTypeOK
  <1>8. CASE StopAudioCapture
    BY <1>0, <1>8, StopMicKeeps DEF StopAudioCapture, shownVars, CallTypeOK
  <1>9. CASE OpenCameraWindow
    <2>1. /\ window' = activeName /\ open' \in BOOLEAN /\ untold' \in BOOLEAN
          /\ UNCHANGED <<mics, standard, raw, plugs, available, stopFlag, raised, tx, activeName,
                         capturing, call, listening, errors, defaultNews, silent, captures>>
      BY <1>9 DEF OpenCameraWindow, systemVars, capturerVars
    <2>2. SystemTypeOK' /\ CallTypeOK' /\ tx' \in 0..captures'
      BY <1>0, <2>1 DEF SystemTypeOK, CallTypeOK
    <2> QED BY <1>0, <2>1, <2>2, CapturerRests DEF CaptureGoesOn
  <1>13. CASE CloseCameraWindow
    <2>1. /\ open' = FALSE /\ untold' = FALSE
          /\ UNCHANGED <<mics, standard, raw, plugs, available, stopFlag, raised, tx, activeName,
                         capturing, call, listening, errors, defaultNews, silent, captures>>
      BY <1>13 DEF CloseCameraWindow, Hides, systemVars, capturerVars
    <2>2. SystemTypeOK' /\ CallTypeOK' /\ tx' \in 0..captures'
      BY <1>0, <2>1 DEF SystemTypeOK, CallTypeOK
    <2> QED BY <1>0, <2>1, <2>2, CapturerRests DEF CaptureGoesOn
  <1>10. ASSUME NEW c \in listening, TrackIsUnpublished(c)
         PROVE  AudioInv'
    <2>1. /\ tx # c /\ listening' = listening \ {c}
          /\ UNCHANGED <<mics, standard, raw, plugs, available, stopFlag, raised, tx, activeName,
                         capturing, call, open, window, untold, errors, defaultNews, silent, captures>>
      BY <1>10 DEF TrackIsUnpublished, systemVars, capturerVars, shownVars
    <2>2. SystemTypeOK' /\ CallTypeOK' /\ tx' \in 0..captures'
      BY <1>0, <2>1 DEF SystemTypeOK, CallTypeOK
    <2> QED BY <1>0, <2>1, <2>2, CapturerRests DEF CaptureGoesOn
  <1>11. CASE DefaultInputDeviceChanged
    <2>1. /\ HandleDefaultDeviceChanged(FALSE) /\ Tells /\ defaultNews' = FALSE
          /\ UNCHANGED <<mics, standard, raw, call, listening, errors, captures>>
      BY <1>11 DEF DefaultInputDeviceChanged
    <2>2. errors' \in Nat /\ errors' >= errors
      BY <1>0, <2>1
    <2> QED BY <2>1, <2>2, AfterHandling
  <1>12. CASE AudioCaptureError
    <2>1. /\ HandleDefaultDeviceChanged(TRUE) /\ Tells /\ errors > 0 /\ errors' = errors - 1
          /\ UNCHANGED <<mics, standard, raw, call, listening, defaultNews, captures>>
      BY <1>12 DEF AudioCaptureError
    <2>2. errors' \in Nat /\ defaultNews' \in BOOLEAN
      BY <1>0, <2>1 DEF CallTypeOK
    <2> QED BY <2>1, <2>2, AfterHandling
  <1> QED BY <1>1, <1>2, <1>3, <1>4, <1>5, <1>6, <1>7, <1>8, <1>9, <1>10, <1>11, <1>12, <1>13
       DEF AudioNext

LEMMA AudioInvariant == AudioSpec => []AudioInv
  <1>1. AudioInit => AudioInv
    BY AudioInitInv
  <1>2. AudioInv /\ [AudioNext]_audioVars => AudioInv'
    BY AudioStep
  <1> QED BY <1>1, <1>2, PTL DEF AudioSpec

LEMMA VoiceFollows == AudioInv => VoiceIsCaptured
  <1> SUFFICES ASSUME AudioInv PROVE VoiceIsCaptured
    OBVIOUS
  <1>1. OneFlagEach /\ CaptureGoesOn /\ NameGoesWithIt /\ AudioTypeOK
    BY DEF AudioInv
  <1>2. \A t, u \in capturing : Obeys(t) /\ Obeys(u) => t = u
    BY <1>1 DEF OneFlagEach
  <1>3. ASSUME AudioAtRest, call = 0 \/ silent # "no"
        PROVE  capturing = {}
    <2>1. tx = 0
      BY <1>1, <1>3 DEF CaptureGoesOn, AudioTypeOK
    <2>2. stopFlag \notin Held
      BY <1>1, <2>1 DEF CaptureGoesOn
    <2>3. \A t \in capturing : t.flag = stopFlag /\ t.flag \in Held
      BY <1>1, <1>3 DEF AudioAtRest, OneFlagEach, Held
    <2> QED BY <2>2, <2>3
  <1>4. ASSUME AudioAtRest, call # 0 /\ silent = "no"
        PROVE  \E t \in capturing :
                 t.call = call /\ (open /\ ~untold => window = t.name)
    <2>1. tx # 0 /\ tx = call /\ errors = 0
      BY <1>1, <1>4 DEF CaptureGoesOn, AudioAtRest
    <2>2. PICK t \in capturing : t.flag = stopFlag /\ t.call = tx
      BY <1>1, <2>1 DEF CaptureGoesOn
    <2> QED BY <1>1, <2>1, <2>2 DEF NameGoesWithIt
  <1>5. \A list \in {mics, available} : IsInjective(UiNames(list))
    BY <1>1, NamesOfMicrophones DEF AudioTypeOK
  <1> QED BY <1>2, <1>3, <1>4, <1>5 DEF VoiceIsCaptured

\* VoiceIsCaptured, the property: in every reachable state of the microphone's part no two
\* capture threads go on untold, none is left outside a call once nothing is under way, and
\* in a call there is one of the call's, by the name the camera window shows.
THEOREM VoiceIsAlwaysCaptured == AudioSpec => []VoiceIsCaptured
  BY AudioInvariant, VoiceFollows, PTL

--------------------------------------------------------------------------------
(* The parts together, of which one runs. *)

ApplicationInv == SocketInv /\ SoundInv /\ FileInv /\ BackInv /\ AudioInv

LEMMA ApplicationStep == ApplicationInv /\ [ApplicationNext]_allVars => ApplicationInv'
  <1> SUFFICES ASSUME ApplicationInv, [ApplicationNext]_allVars PROVE ApplicationInv'
    OBVIOUS
  <1>1. /\ [Next]_vars /\ [SoundNext]_soundVars /\ [FileNext]_fileVars /\ [BackNext]_backVars
        /\ [AudioNext]_audioVars
    BY DEF ApplicationNext, allVars
  <1>2. SocketInv' /\ SoundInv' /\ FileInv' /\ BackInv'
    BY <1>1, NextSocket, SoundNextInv, FileNextInv, BackNextInv DEF ApplicationInv
  <1>3. AudioInv'
    BY <1>1, AudioStep DEF ApplicationInv
  <1> QED BY <1>2, <1>3 DEF ApplicationInv

\* ApplicationTypeOK, the property: the variables of each of the application's parts keep
\* their types, the lists of microphones among them, in which none is twice.
THEOREM ApplicationTypesCorrect == ApplicationSpec => []ApplicationTypeOK
  <1>1. ApplicationInit => ApplicationInv
    BY InitSocket, SoundInitInv, FileInitInv, BackInitInv, AudioInitInv
    DEF ApplicationInit, ApplicationInv
  <1>2. ApplicationInv => ApplicationTypeOK
    BY DEF ApplicationInv, ApplicationTypeOK, SocketInv, SoundInv, FileInv, BackInv, AudioInv
  <1> QED BY <1>1, <1>2, ApplicationStep, PTL DEF ApplicationSpec
==================================================================================
