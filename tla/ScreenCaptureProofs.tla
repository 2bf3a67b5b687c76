------------------------- MODULE ScreenCaptureProofs -------------------------
(* No capture runs unknown to the capturer, the track follows what is       *)
(* captured, and every step of the capturer is one of the session or none:  *)
(* for any contents, and however often streams fail.                        *)
EXTENDS ScreenCapture, SequenceTheorems, TLAPS

Message == {"failed", "userStopped", "frameChanged", "stop"}
UserEvents == [type : {"share", "stop", "callEnd", "frameChanged", "terminate"},
               content : Content \cup {None}]
StreamRecord == [share : Share, content : Content \cup {None}, failed : BOOLEAN,
                 thread : {"none", "running", "told", "ended"}]

--------------------------------------------------------------------------------
(* Queues. *)

LEMMA AppendToQueue ==
  ASSUME NEW S, NEW q \in Seq(S), NEW e \in S
  PROVE  Append(q, e) \in Seq(S)
  BY AppendProperties

LEMMA TakeFromQueue ==
  ASSUME NEW S, NEW q \in Seq(S), q # <<>>
  PROVE  Head(q) \in S /\ Tail(q) \in Seq(S)
  BY HeadTailProperties

StopWaits(q) == \E i \in DOMAIN q : q[i].type = "stop"

\* What is queued behind a stop leaves it where it is, and a stop that is queued waits.
LEMMA StopStaysQueued ==
  ASSUME NEW q \in Seq(UserEvents), NEW e \in UserEvents
  PROVE  /\ StopWaits(q) => StopWaits(Append(q, e))
         /\ e.type = "stop" => StopWaits(Append(q, e))
  <1>1. /\ Len(q) \in Nat /\ DOMAIN q = 1..Len(q)
        /\ DOMAIN Append(q, e) = 1..(Len(q) + 1)
        /\ \A i \in 1..Len(q) : Append(q, e)[i] = q[i]
        /\ Append(q, e)[Len(q) + 1] = e
    BY AppendProperties, LenProperties
  <1>2. ASSUME StopWaits(q) PROVE StopWaits(Append(q, e))
    BY <1>1, <1>2 DEF StopWaits
  <1>3. ASSUME e.type = "stop" PROVE StopWaits(Append(q, e))
    BY <1>1, <1>3 DEF StopWaits
  <1> QED BY <1>2, <1>3

\* Handling another event leaves a stop in the queue.
LEMMA StopOutlivesOthers ==
  ASSUME NEW q \in Seq(UserEvents), q # <<>>, Head(q).type # "stop", StopWaits(q)
  PROVE  StopWaits(Tail(q))
  <1>1. /\ Len(q) \in Nat \ {0} /\ DOMAIN q = 1..Len(q) /\ Head(q) = q[1]
        /\ DOMAIN Tail(q) = 1..(Len(q) - 1)
        /\ \A i \in 1..(Len(q) - 1) : Tail(q)[i] = q[i + 1]
    BY HeadTailProperties, LenProperties, EmptySeq
  <1>2. PICK i \in 1..Len(q) : q[i].type = "stop"
    BY <1>1 DEF StopWaits
  <1>3. i - 1 \in 1..(Len(q) - 1) /\ Tail(q)[i - 1].type = "stop"
    BY <1>1, <1>2
  <1> QED BY <1>1, <1>3 DEF StopWaits

--------------------------------------------------------------------------------
(* Types. *)

LEMMA InitType == Init => TypeOK
  <1> SUFFICES ASSUME Init PROVE TypeOK
    OBVIOUS
  <1>1. [share |-> 1, content |-> None, failed |-> FALSE, thread |-> "none"] \in StreamRecord
    BY BoundsAssumption DEF StreamRecord, Share
  <1>2. stream \in [Stream -> StreamRecord]
    BY <1>1 DEF Init
  <1>3. failures \in [Share -> 0..MaxNews] /\ sized \in [Share -> BOOLEAN]
    BY BoundsAssumption DEF Init
  <1>4. <<>> \in Seq(Message) /\ <<>> \in Seq(UserEvents)
    BY EmptySeq
  <1>5. channel \in Seq(Message) /\ ui \in Seq(UserEvents)
    BY <1>4 DEF Init
  <1>6. /\ backend \in {"webrtc", "sck"} /\ available = Content
        /\ streams = 0 /\ shares = 0 /\ active = 0 /\ taken = 0
        /\ mutex = "free" /\ poll = "wait" /\ loop = "idle" /\ tries = 0 /\ wanted = None
        /\ inCall = TRUE /\ track = FALSE /\ over = FALSE /\ requests = 0 /\ news = 0
    BY DEF Init, NoStream
  <1>7. (mutex = "loop") = (loop = "extent")
    BY <1>6
  <1>8. (mutex = "poll") = (poll \in {"restart", "attempt"})
    BY <1>6
  <1>9. /\ streams \in 0..(MaxRequests + MaxNews) /\ shares \in 0..MaxRequests
        /\ active \in 0..streams /\ taken \in 0..streams /\ taken = NoStream
        /\ requests \in 0..MaxRequests /\ news \in 0..MaxNews /\ tries \in 0..MaxRetries
    BY <1>6, BoundsAssumption DEF NoStream
  <1> QED BY <1>2, <1>3, <1>5, <1>6, <1>7, <1>8, <1>9
          DEF TypeOK, StreamRecord, Message, UserEvents

\* A stream that a share or a copy starts is recorded as one.
LEMMA StartsType ==
  ASSUME TypeOK, NEW h \in Share, NEW c, Starts(h, c)
  PROVE  /\ stream' \in [Stream -> StreamRecord]
         /\ streams' \in 0..(MaxRequests + MaxNews) /\ streams' = streams + 1
         /\ active' = streams' /\ c \in Content
  <1>1. c \in Content
    BY DEF Starts, Found, TypeOK
  <1>2. [share |-> h, content |-> c, failed |-> FALSE, thread |-> "running"] \in StreamRecord
    BY <1>1 DEF StreamRecord
  <1>3. stream \in [Stream -> StreamRecord]
    BY DEF TypeOK, StreamRecord
  <1>4. stream' \in [Stream -> StreamRecord]
    BY <1>2, <1>3 DEF Starts
  <1> QED BY <1>1, <1>4, BoundsAssumption DEF Starts, Stream, TypeOK

LEMMA ToldType ==
  ASSUME stream \in [Stream -> StreamRecord], NEW s
  PROVE  Told(s) \in [Stream -> StreamRecord]
  BY DEF Told, StreamRecord

LEMMA StopCaptureType ==
  ASSUME stream \in [Stream -> StreamRecord], StopCapture
  PROVE  stream' \in [Stream -> StreamRecord] /\ active' = NoStream
  BY ToldType DEF StopCapture

LEMMA UsersType ==
  ASSUME TypeOK, Users
  PROVE  TypeOK'
  <1>1. ASSUME NEW type \in {"share", "stop", "callEnd", "terminate"},
               NEW c \in Content \cup {None}, Ask(type, c)
        PROVE  TypeOK'
    <2>1. UserEvent(type, c) \in UserEvents
      BY <1>1 DEF UserEvent, UserEvents
    <2>2. ui' \in Seq(UserEvents)
      BY <1>1, <2>1, AppendToQueue DEF Ask, TypeOK, UserEvents
    <2>3. requests' \in 0..MaxRequests
      BY <1>1, BoundsAssumption DEF Ask, TypeOK
    <2> QED BY <1>1, <2>2, <2>3
             DEF Ask, TypeOK, UserEvents, capture, room
  <1>2. CASE AskShare \/ AskStop \/ AskEnd \/ AskExit
    BY <1>1, <1>2 DEF AskShare, AskStop, AskEnd, AskExit
  <1>3. CASE CallStart
    BY <1>3 DEF CallStart, TypeOK, capture, world
  <1>4. ASSUME NEW c \in Content, ContentGoes(c) PROVE TypeOK'
    BY <1>4 DEF ContentGoes, TypeOK, capture, room
  <1> QED BY <1>2, <1>3, <1>4 DEF Users

LEMMA EventLoopType ==
  ASSUME TypeOK, ~over, EventLoop
  PROVE  TypeOK'
  <1>0. /\ stream \in [Stream -> StreamRecord] /\ ui \in Seq(UserEvents)
        /\ NoStream \in 0..streams
    BY BoundsAssumption DEF TypeOK, StreamRecord, UserEvents, NoStream
  <1>1. ui # <<>> => Head(ui) \in UserEvents /\ Tail(ui) \in Seq(UserEvents)
    BY <1>0, TakeFromQueue
  <1>2. ASSUME NEW next, StopScreenshare(next)
        PROVE  /\ stream' \in [Stream -> StreamRecord]
               /\ active' \in 0..streams /\ track' \in BOOLEAN
               /\ UNCHANGED <<streams, shares, failures, sized, taken>>
    BY <1>0, <1>2, StopCaptureType DEF StopScreenshare, StopCapture, TypeOK, capture
  <1>3. CASE StopShare
    BY <1>0, <1>1, <1>2, <1>3
       DEF StopShare, Handles, StopScreenshare, TypeOK, StreamRecord, UserEvents, world
  <1>4. CASE ShareStops
    <2>1. Head(ui).content \in Content \cup {None}
      BY <1>1, <1>4 DEF ShareStops, Handles, UserEvents
    <2> QED BY <1>0, <1>1, <1>2, <1>4, <2>1
            DEF ShareStops, Handles, StopScreenshare, TypeOK, StreamRecord, UserEvents, world
  <1>5. CASE ShareStarts
    <2>1. CASE shares + 1 \in Share /\ Starts(shares + 1, wanted) /\ shares' = shares + 1
               /\ mutex' = "loop" /\ loop' = "extent"
      <3>1. /\ stream' \in [Stream -> StreamRecord]
            /\ streams' \in 0..(MaxRequests + MaxNews)
            /\ streams' = streams + 1 /\ active' = streams'
        BY <2>1, StartsType
      <3>2. active' \in 0..streams' /\ taken' \in 0..streams'
        BY <1>5, <3>1 DEF ShareStarts, TypeOK
      <3>3. shares' \in 0..MaxRequests
        BY <2>1 DEF Share
      <3> QED BY <1>5, <2>1, <3>1, <3>2, <3>3
              DEF ShareStarts, TypeOK, StreamRecord, world, room
    <2>2. CASE loop' = "idle" /\ UNCHANGED <<stream, streams, shares, active, mutex>>
      BY <1>5, <2>2 DEF ShareStarts, TypeOK, world, room
    <2> QED BY <1>5, <2>1, <2>2 DEF ShareStarts
  <1>6. CASE SharePanics \/ ShareGetsExtent \/ ShareHasNoExtent \/ OverlayOpens
    BY <1>6 DEF SharePanics, ShareGetsExtent, ShareHasNoExtent, OverlayOpens, TypeOK,
                capture, world, room
  <1>7. CASE UndoShare
    BY <1>0, <1>2, <1>7 DEF UndoShare, StopScreenshare, TypeOK, StreamRecord, world
  <1>8. CASE CallEnd \/ CaptureFrameChanged
    BY ZenonT(60), <1>0, <1>1, <1>8
       DEF CallEnd, CaptureFrameChanged, Handles, TypeOK, UserEvents, capture, world, room
  <1>9. CASE LeaveCall
    <2>1. stream' \in [Stream -> StreamRecord] /\ active' \in 0..streams
          /\ UNCHANGED <<streams, shares, failures, sized, taken>>
      BY <1>0, <1>9, StopCaptureType DEF LeaveCall, StopCapture, TypeOK, capture
    <2> QED BY <1>9, <2>1 DEF LeaveCall, TypeOK, StreamRecord, world
  <1>10. CASE CallEndRecovers
    <2>1. channel' \in Seq(Message)
      BY <1>10, EmptySeq DEF CallEndRecovers, NewCapturer
    <2>2. ui' \in Seq(UserEvents)
      BY <1>1, <1>10 DEF CallEndRecovers, Handles
    <2>3. /\ taken = NoStream /\ loop # "extent"
          /\ mutex' = "free" /\ poll' = "wait" /\ inCall' = FALSE /\ track' = FALSE
          /\ UNCHANGED <<capture, world, tries, loop, wanted, over>>
      BY <1>10 DEF CallEndRecovers, NewCapturer, TypeOK
    <2>4. (mutex' = "loop") = (loop' = "extent")
      BY <2>3
    <2>5. (mutex' = "poll") = (poll' \in {"restart", "attempt"})
      BY <2>3
    <2> QED BY <2>1, <2>2, <2>3, <2>4, <2>5
            DEF TypeOK, Message, UserEvents, capture, world
  <1>11. CASE Terminate
    <2>1. channel' \in Seq(Message)
      <3>1. channel \in Seq(Message) /\ "stop" \in Message
        BY DEF TypeOK, Message
      <3>2. Append(channel, "stop") \in Seq(Message)
        BY <3>1, AppendToQueue
      <3> QED BY <1>11, <3>1, <3>2 DEF Terminate
    <2>2. stream' \in [Stream -> StreamRecord] /\ active' \in 0..streams
          /\ UNCHANGED <<streams, shares, failures, sized, taken>>
      BY <1>0, <1>11, StopCaptureType DEF Terminate, StopCapture, TypeOK, capture
    <2> QED BY <1>11, <2>1, <2>2 DEF Terminate, TypeOK, StreamRecord, Message, world, room
  <1> QED BY <1>3, <1>4, <1>5, <1>6, <1>7, <1>8, <1>9, <1>10, <1>11 DEF EventLoop
\* Who is inside the mutex holds it.
LEMMA Holders ==
  ASSUME TypeOK
  PROVE  /\ loop = "extent" <=> mutex = "loop"
         /\ poll \in {"restart", "attempt"} <=> mutex = "poll"
  BY DEF TypeOK

\* What poll_stream has taken out of the capturer it gives back or loses in its next step
\* but one; nobody else gives the capturer a stream meanwhile, nor a poisoned one.
Hands ==
    ~over =>
      /\ poll = "attempt" => active = NoStream /\ taken # NoStream
      /\ mutex = "poisoned" => active = NoStream /\ poll = "dead"
      /\ loop = "starting" => active = NoStream /\ poll # "attempt"

LEMMA PollStreamType ==
  ASSUME TypeOK, Hands, ~over, PollStream \/ RestartPanics
  PROVE  TypeOK'
  <1>0. /\ stream \in [Stream -> StreamRecord] /\ ui \in Seq(UserEvents)
        /\ channel \in Seq(Message) /\ NoStream \in 0..streams
    BY BoundsAssumption DEF TypeOK, StreamRecord, UserEvents, Message, NoStream
  <1>1. channel # <<>> => Head(channel) \in Message /\ Tail(channel) \in Seq(Message)
    BY <1>0, TakeFromQueue
  <1>2. ASSUME NEW type \in {"share", "stop", "callEnd", "frameChanged", "terminate"}
        PROVE  Append(ui, UserEvent(type, None)) \in Seq(UserEvents)
    <2>1. UserEvent(type, None) \in UserEvents
      BY DEF UserEvent, UserEvents
    <2> QED BY <1>0, <2>1, AppendToQueue
  <1>3. CASE PollTakes
    BY <1>1, <1>3 DEF PollTakes, TypeOK, Message, capture, world, room
  <1>4. ASSUME NEW message \in {"userStopped", "frameChanged"},
               NEW type \in {"stop", "frameChanged"}, Forwards(message, type)
        PROVE  TypeOK'
    <2>1. ui' \in Seq(UserEvents)
      BY <1>2, <1>4 DEF Forwards
    <2> QED BY <1>4, <2>1 DEF Forwards, TypeOK, UserEvents, capture, world, room
  <1>5. CASE ForwardStop \/ ForwardFrameChanged
    BY <1>4, <1>5 DEF ForwardStop, ForwardFrameChanged
  <1>6. CASE RestartLocks \/ NothingToRestart
    BY <1>6 DEF RestartLocks, NothingToRestart, TypeOK, capture, world, room
  <1>7. CASE RestartTakes
    <2>1. stream' \in [Stream -> StreamRecord] /\ active' \in 0..streams
      BY <1>0, <1>7, ToldType DEF RestartTakes
    <2>2. taken' \in 0..streams /\ (taken' # NoStream => poll' = "attempt" \/ over')
      BY <1>7 DEF RestartTakes, TypeOK
    <2>3. poll' \in {"restart", "attempt"} /\ mutex' = "poll" /\ loop # "extent" /\ loop' = loop
      <3>1. mutex = "poll" /\ loop # "extent"
        BY <1>7, Holders DEF RestartTakes
      <3> QED BY <1>7, <3>1 DEF RestartTakes
    <2>7. tries' \in 0..MaxRetries /\ over' \in BOOLEAN
      <3>1. tries \in 0..MaxRetries /\ 0 \in 0..MaxRetries /\ over \in BOOLEAN
        BY BoundsAssumption DEF TypeOK
      <3>2. tries' \in {tries, 0}
        BY <1>7 DEF RestartTakes
      <3>3. over' = TRUE \/ over' = over
        BY <1>7 DEF RestartTakes
      <3> QED BY <3>1, <3>2, <3>3
    <2>4. (mutex' = "loop") = (loop' = "extent")
      BY <2>3
    <2>5. (mutex' = "poll") = (poll' \in {"restart", "attempt"})
      BY <2>3
    <2>6. UNCHANGED <<streams, shares, failures, sized, world, room, channel, loop, wanted, ui>>
      BY <1>7 DEF RestartTakes
    <2> QED BY <2>1, <2>2, <2>3, <2>4, <2>5, <2>6, <2>7 DEF TypeOK, StreamRecord, world, room
  <1>8. CASE RestartSucceeds
    <2>1. taken \in Stream
      BY <1>8, BoundsAssumption DEF RestartSucceeds, Hands, TypeOK, NoStream, Stream
    <2>2. ShareOf(taken) \in Share
      BY <1>0, <2>1 DEF ShareOf, StreamRecord
    <2>3. /\ stream' \in [Stream -> StreamRecord]
          /\ streams' \in 0..(MaxRequests + MaxNews)
          /\ streams' = streams + 1 /\ active' = streams'
      BY <1>8, <2>2, StartsType DEF RestartSucceeds
    <2>4. active' \in 0..streams' /\ taken' \in 0..streams'
      BY <1>8, <2>3 DEF RestartSucceeds, NoStream
    <2> QED BY <1>8, <2>3, <2>4 DEF RestartSucceeds, TypeOK, StreamRecord, world, room
  <1>9. CASE RestartFindsNoSource
    <2>1. ui' \in Seq(UserEvents)
      BY <1>2, <1>9 DEF RestartFindsNoSource
    <2> QED BY <1>0, <1>9, <2>1 DEF RestartFindsNoSource, TypeOK, UserEvents, world, room
  <1>10. CASE RestartFails
    <2>1. tries' \in 0..MaxRetries /\ over' \in BOOLEAN
      <3>1. tries \in 0..MaxRetries /\ tries \in Nat /\ MaxRetries \in Nat /\ over \in BOOLEAN
        BY BoundsAssumption DEF TypeOK
      <3>2. \/ tries' = tries + 1 /\ tries < MaxRetries
            \/ tries' = tries
        BY <1>10 DEF RestartFails
      <3>3. over' = TRUE \/ over' = over
        BY <1>10 DEF RestartFails
      <3>4. tries' \in 0..MaxRetries
        BY <3>1, <3>2
      <3> QED BY <3>1, <3>3, <3>4
    <2>2. UNCHANGED <<capture, world, room, mutex, channel, poll, loop, wanted, ui>>
      BY <1>10 DEF RestartFails
    <2>3. taken # NoStream => poll = "attempt"
      BY DEF TypeOK
    <2> QED BY <2>1, <2>2, <2>3 DEF TypeOK, capture, world, room
  <1>11. CASE RestartPanics
    BY <1>0, <1>11 DEF RestartPanics, TypeOK, world, room
  <1> QED BY <1>3, <1>5, <1>6, <1>7, <1>8, <1>9, <1>10, <1>11 DEF PollStream
LEMMA ThreadsType ==
  ASSUME TypeOK, ~over, Threads, \A h \in Share : failures[h] <= news
  PROVE  TypeOK' /\ \A h \in Share : failures'[h] <= news'
  <1>0. /\ stream \in [Stream -> StreamRecord] /\ channel \in Seq(Message)
        /\ news \in Nat /\ news <= MaxNews /\ MaxNews \in Nat
        /\ failures \in [Share -> 0..MaxNews]
    BY BoundsAssumption DEF TypeOK, StreamRecord, Message
  <1> PICK s \in Stream :
        Frame(s) \/ PermanentError(s) \/ UserStops(s) \/ SckFrame(s) \/ SckError(s) \/ SckStops(s)
    BY DEF Threads
  <1>1. ShareOf(s) \in Share
    BY <1>0 DEF ShareOf, StreamRecord
  <1>2. ASSUME NEW message \in Message, News(s, message)
        PROVE  /\ news' = news + 1 /\ news < MaxNews /\ channel' \in Seq(Message)
               /\ UNCHANGED <<streams, shares, sized, active, taken, backend, available, requests,
                              room, mutex, poll, tries, loop, wanted, ui, over>>
    BY <1>0, <1>2, AppendToQueue DEF News
  <1>3. ASSUME stream' \in [Stream -> StreamRecord], NEW message \in Message, News(s, message),
               \/ failures' = failures
               \/ failures' = [failures EXCEPT ![ShareOf(s)] = 0]
               \/ failures' = [failures EXCEPT ![ShareOf(s)] = @ + 1]
        PROVE  TypeOK' /\ \A h \in Share : failures'[h] <= news'
    <2>0. /\ news' = news + 1 /\ news < MaxNews /\ channel' \in Seq(Message)
          /\ UNCHANGED <<streams, shares, sized, active, taken, backend, available, requests,
                         room, mutex, poll, tries, loop, wanted, ui, over>>
      BY <1>2, <1>3
    <2>1. failures' \in [Share -> 0..MaxNews] /\ \A h \in Share : failures'[h] <= news'
      <3>1. CASE failures' = failures
        BY <1>0, <2>0, <3>1
      <3>2. CASE failures' = [failures EXCEPT ![ShareOf(s)] = 0]
        BY <1>0, <1>1, <2>0, <3>2
      <3>3. CASE failures' = [failures EXCEPT ![ShareOf(s)] = @ + 1]
        BY <1>0, <1>1, <2>0, <3>3
      <3> QED BY <1>3, <3>1, <3>2, <3>3
    <2>2. news' \in 0..MaxNews
      BY <1>0, <2>0
    <2> QED BY <1>3, <2>0, <2>1, <2>2 DEF TypeOK, StreamRecord, Message, room
  <1>4. Last(stream[s].thread) \in {"none", "running", "told", "ended"}
    BY <1>0 DEF Last, StreamRecord
  <1>5. CASE Frame(s)
    <2>1. stream' \in [Stream -> StreamRecord]
      BY <1>0, <1>4, <1>5 DEF Frame, StreamRecord
    <2>2. /\ failures' \in [Share -> 0..MaxNews] /\ sized' \in [Share -> BOOLEAN]
          /\ \A h \in Share : failures'[h] <= news'
      BY <1>0, <1>1, <1>5 DEF Frame, TypeOK, world
    <2> QED BY <1>5, <2>1, <2>2 DEF Frame, TypeOK, StreamRecord, world, room
  <1>6. CASE PermanentError(s) \/ SckError(s)
    <2>1. stream' \in [Stream -> StreamRecord]
      <3>1. stream' = [stream EXCEPT ![s].failed = TRUE, ![s].thread = Last(@)]
        BY <1>6 DEF PermanentError, SckError
      <3> QED BY <1>0, <1>4, <3>1 DEF StreamRecord
    <2> QED BY <1>3, <1>6, <2>1 DEF PermanentError, SckError, Message
  <1>7. CASE UserStops(s) \/ SckFrame(s)
    <2>1. stream' \in [Stream -> StreamRecord]
      <3>1. stream' = [stream EXCEPT ![s].thread = Last(@)]
        BY <1>7 DEF UserStops, SckFrame
      <3> QED BY <1>0, <1>4, <3>1 DEF StreamRecord
    <2> QED BY <1>3, <1>7, <2>1 DEF UserStops, SckFrame, Message
  <1>8. CASE SckStops(s)
    <2>1. stream' \in [Stream -> StreamRecord]
      BY <1>0, <1>8 DEF SckStops, StreamRecord
    <2> QED BY <1>3, <1>8, <2>1 DEF SckStops, Message
  <1> QED BY <1>5, <1>6, <1>7, <1>8
--------------------------------------------------------------------------------
(* The streams and the mutex. *)

\* Every stream that has been started has a content.
Captured == \A s \in 1..streams : stream[s].content \in Content

StreamsInv == TypeOK /\ (\A h \in Share : failures[h] <= news) /\ Hands /\ Captured /\ NoOrphan

LEMMA InitStreams == Init => StreamsInv
  <1> SUFFICES ASSUME Init PROVE StreamsInv
    OBVIOUS
  <1>1. \A h \in Share : failures[h] <= news
    BY DEF Init
  <1>2. Hands /\ Captured
    BY DEF Init, Hands, Captured
  <1>3. NoOrphan
    BY DEF Init, NoOrphan, Running
  <1> QED BY <1>1, <1>2, <1>3, InitType DEF StreamsInv

\* Telling the active stream and forgetting it leaves none that runs.
LEMMA ToldIsQuiet ==
  ASSUME TypeOK, NoOrphan, NEW s, s = active
  PROVE  /\ \A t \in Stream : Told(s)[t].thread # "running"
         /\ \A t \in Stream : Told(s)[t].content = stream[t].content
                              /\ Told(s)[t].failed = stream[t].failed
                              /\ Told(s)[t].share = stream[t].share
  <1>1. stream \in [Stream -> StreamRecord]
    BY DEF TypeOK, StreamRecord
  <1>2. ASSUME NEW t \in Stream
        PROVE  /\ Told(s)[t].thread # "running"
               /\ Told(s)[t].content = stream[t].content
               /\ Told(s)[t].failed = stream[t].failed
               /\ Told(s)[t].share = stream[t].share
    <2>1. CASE t = s
      BY <1>1, <2>1 DEF Told, StreamRecord
    <2>2. CASE t # s
      BY <1>1, <2>2 DEF Told, NoOrphan, Running
    <2> QED BY <2>1, <2>2
  <1> QED BY <1>2

LEMMA StopIsQuiet ==
  ASSUME TypeOK, NoOrphan, StopCapture
  PROVE  /\ active' = NoStream /\ streams' = streams /\ taken' = taken
         /\ \A t \in Stream : /\ stream'[t].thread # "running"
                              /\ stream'[t].content = stream[t].content
                              /\ stream'[t].failed = stream[t].failed
  <1>1. NoStream \notin Stream
    BY DEF NoStream, Stream
  <1>2. CASE active = NoStream
    BY <1>1, <1>2 DEF StopCapture, NoOrphan, Running
  <1>3. CASE active # NoStream
    BY <1>3, ToldIsQuiet DEF StopCapture
  <1> QED BY <1>2, <1>3 DEF StopCapture

LEMMA StartsCaptured ==
  ASSUME TypeOK, Captured, NoOrphan, active = NoStream, NEW h \in Share, NEW c, Starts(h, c)
  PROVE  /\ Captured' /\ NoOrphan' /\ active' # NoStream
         /\ stream'[active'].content = c /\ stream'[active'].failed = FALSE
  <1>0. c \in Content
    BY StartsType
  <1>1. stream \in [Stream -> StreamRecord] /\ streams \in Nat /\ streams + 1 \in Stream
        /\ NoStream \notin Stream
    BY BoundsAssumption DEF TypeOK, StreamRecord, Starts, NoStream, Stream
  <1>2. /\ stream'[streams + 1] = [share |-> h, content |-> c, failed |-> FALSE, thread |-> "running"]
        /\ \A s \in Stream \ {streams + 1} : stream'[s] = stream[s]
        /\ active' = streams + 1 /\ streams' = streams + 1
    BY <1>1 DEF Starts
  <1>3. Captured'
    <2> SUFFICES ASSUME NEW s \in 1..(streams + 1) PROVE stream'[s].content \in Content
      BY <1>2 DEF Captured
    <2>1. CASE s = streams + 1
      BY <1>0, <1>1, <1>2, <2>1
    <2>2. CASE s # streams + 1
      <3>1. s \in 1..streams /\ s \in Stream
        BY <1>1, <2>2, BoundsAssumption DEF Stream
      <3> QED BY <1>2, <2>2, <3>1 DEF Captured
    <2> QED BY <2>1, <2>2
  <1>4. NoOrphan'
    BY <1>1, <1>2 DEF NoOrphan, Running
  <1> QED BY <1>1, <1>2, <1>3, <1>4

LEMMA UsersStreams ==
  ASSUME StreamsInv, Users
  PROVE  StreamsInv'
  <1>1. TypeOK'
    BY UsersType DEF StreamsInv
  <1>2. /\ UNCHANGED <<stream, streams, failures, active, taken, mutex, poll, loop, news>>
        /\ over' = over
    BY DEF Users, AskShare, AskStop, AskEnd, AskExit, Ask, CallStart, ContentGoes,
           capture, world, room
  <1> QED BY <1>1, <1>2 DEF StreamsInv, Hands, Captured, NoOrphan, Running

LEMMA StopKeepsStreams ==
  ASSUME StreamsInv, StopCapture
  PROVE  Captured' /\ NoOrphan' /\ active' = NoStream /\ UNCHANGED <<taken, failures>>
  <1>1. /\ active' = NoStream /\ streams' = streams /\ taken' = taken /\ failures' = failures
        /\ \A t \in Stream : stream'[t].thread # "running" /\ stream'[t].content = stream[t].content
    BY StopIsQuiet DEF StreamsInv, StopCapture
  <1>2. 1..streams \subseteq Stream
    BY BoundsAssumption DEF StreamsInv, TypeOK, Stream
  <1> QED BY <1>1, <1>2 DEF StreamsInv, Captured, NoOrphan, Running

LEMMA StopScreenshareStreams ==
  ASSUME StreamsInv, ~over, NEW next \in {"idle", "starting"}, StopScreenshare(next),
         loop \in {"idle", "undo"}
  PROVE  /\ Hands' /\ Captured' /\ NoOrphan' /\ (\A h \in Share : failures'[h] <= news')
         /\ over' = over /\ taken' = taken
         /\ \/ active' = NoStream /\ track' = FALSE /\ mutex' = "free" /\ mutex = "free"
            \/ UNCHANGED <<capture, track>> /\ mutex' = "poisoned" /\ active' = NoStream
  <1>1. /\ loop' = next /\ over' = over /\ mutex' = mutex /\ poll' = poll /\ news' = news
    BY DEF StopScreenshare, world
  <1>2. CASE mutex = "free" /\ StopCapture /\ track' = FALSE
    BY <1>1, <1>2, StopKeepsStreams, Holders DEF StreamsInv, Hands
  <1>3. CASE mutex = "poisoned" /\ UNCHANGED <<capture, track>>
    BY <1>1, <1>3 DEF StreamsInv, Hands, Captured, NoOrphan, Running, capture
  <1> QED BY <1>2, <1>3 DEF StopScreenshare

LEMMA EventLoopStreams ==
  ASSUME StreamsInv, ~over, EventLoop
  PROVE  StreamsInv'
  <1>1. TypeOK'
    BY EventLoopType DEF StreamsInv
  <1> SUFFICES Hands' /\ Captured' /\ NoOrphan' /\ \A h \in Share : failures'[h] <= news'
    BY <1>1 DEF StreamsInv
  <1>2. CASE StopShare \/ ShareStops \/ UndoShare
    BY <1>2, StopScreenshareStreams DEF StopShare, ShareStops, UndoShare, Handles
  <1>3. CASE ShareStarts
    <2>1. CASE shares + 1 \in Share /\ Starts(shares + 1, wanted) /\ mutex' = "loop" /\ loop' = "extent"
      <3>1. active = NoStream /\ poll # "attempt"
        BY <1>3, Holders DEF ShareStarts, StreamsInv, Hands
      <3>2. Captured' /\ NoOrphan'
        BY <2>1, <3>1, StartsCaptured DEF StreamsInv
      <3> QED BY <1>3, <2>1, <3>1, <3>2 DEF ShareStarts, StreamsInv, Hands, world
    <2>2. CASE loop' = "idle" /\ UNCHANGED <<stream, streams, shares, active, mutex>>
      BY <1>3, <2>2 DEF ShareStarts, StreamsInv, Hands, Captured, NoOrphan, Running, world
    <2> QED BY <1>3, <2>1, <2>2 DEF ShareStarts
  <1>4. CASE SharePanics \/ ShareGetsExtent \/ ShareHasNoExtent \/ OverlayOpens \/ CallEnd
             \/ CaptureFrameChanged
    <2>1. UNCHANGED <<stream, streams, failures, active, taken, poll, news>>
      BY <1>4 DEF SharePanics, ShareGetsExtent, ShareHasNoExtent, OverlayOpens, CallEnd,
                  CaptureFrameChanged, capture, world
    <2>2. /\ over' \/ loop' # "starting" \/ loop' = loop
          /\ mutex' # "poisoned" \/ mutex' = mutex
          /\ over => over'
      BY <1>4 DEF SharePanics, ShareGetsExtent, ShareHasNoExtent, OverlayOpens, CallEnd,
                  CaptureFrameChanged
    <2> QED BY <2>1, <2>2 DEF StreamsInv, Hands, Captured, NoOrphan, Running
  <1>5. CASE LeaveCall
    <2>1. /\ loop' = "idle" /\ over' = over /\ mutex' = mutex /\ poll' = poll /\ news' = news
      BY <1>5 DEF LeaveCall, world
    <2>2. CASE mutex = "free"
      BY <1>5, <2>1, <2>2, StopKeepsStreams, Holders DEF LeaveCall, StreamsInv, Hands
    <2>3. CASE mutex # "free"
      BY <1>5, <2>1, <2>3 DEF LeaveCall, StreamsInv, Hands, Captured, NoOrphan, Running, capture
    <2> QED BY <2>2, <2>3
  <1>6. CASE CallEndRecovers
    BY <1>6 DEF CallEndRecovers, NewCapturer, StreamsInv, Hands, Captured, NoOrphan, Running,
                capture, world
  <1>7. CASE Terminate
    <2>1. /\ loop' = "ended" /\ over' = over /\ mutex' = mutex /\ poll' = poll /\ news' = news
      BY <1>7 DEF Terminate, world
    <2>2. CASE mutex = "free" /\ StopCapture
      BY <2>1, <2>2, StopKeepsStreams, Holders DEF StreamsInv, Hands
    <2>3. CASE UNCHANGED capture
      BY <2>1, <2>3 DEF StreamsInv, Hands, Captured, NoOrphan, Running, capture
    <2> QED BY <1>7, <2>2, <2>3 DEF Terminate
  <1> QED BY <1>2, <1>3, <1>4, <1>5, <1>6, <1>7 DEF EventLoop

LEMMA PollStreamStreams ==
  ASSUME StreamsInv, ~over, PollStream \/ RestartPanics
  PROVE  StreamsInv'
  <1>1. TypeOK'
    BY PollStreamType DEF StreamsInv
  <1> SUFFICES Hands' /\ Captured' /\ NoOrphan' /\ \A h \in Share : failures'[h] <= news'
    BY <1>1 DEF StreamsInv
  <1>2. CASE PollTakes \/ ForwardStop \/ ForwardFrameChanged \/ RestartLocks \/ NothingToRestart
    <2>1. UNCHANGED <<stream, streams, failures, active, taken, loop, news, over>>
      BY <1>2 DEF PollTakes, ForwardStop, ForwardFrameChanged, Forwards, RestartLocks,
                  NothingToRestart, capture, world
    <2>2. poll # "dead" /\ mutex # "poisoned" => mutex' # "poisoned"
      BY <1>2 DEF PollTakes, ForwardStop, ForwardFrameChanged, Forwards, RestartLocks,
                  NothingToRestart
    <2>3. poll # "dead" /\ (poll' = "attempt" => poll = "attempt")
      <3>1. CASE PollTakes
        <4>1. Head(channel) \in Message
          BY <3>1, TakeFromQueue DEF PollTakes, StreamsInv, TypeOK, Message
        <4> QED BY <3>1, <4>1 DEF PollTakes, Message
      <3>2. CASE ~PollTakes
        BY <1>2, <3>2 DEF ForwardStop, ForwardFrameChanged, Forwards, RestartLocks,
                          NothingToRestart
      <3> QED BY <3>1, <3>2
    <2> QED BY <2>1, <2>2, <2>3 DEF StreamsInv, Hands, Captured, NoOrphan, Running
  <1>3. CASE RestartTakes
    <2>1. /\ stream' = Told(active) /\ active' = NoStream /\ taken' = active /\ active # NoStream
          /\ streams' = streams /\ failures' = failures /\ news' = news /\ loop' = loop
          /\ mutex' = mutex /\ (over' \/ poll' = "attempt") /\ poll = "restart"
      BY <1>3 DEF RestartTakes, world
    <2>2. mutex # "poisoned"
      BY <2>1, Holders DEF StreamsInv
    <2>3. /\ \A t \in Stream : /\ stream'[t].thread # "running"
                               /\ stream'[t].content = stream[t].content
      BY <2>1, ToldIsQuiet DEF StreamsInv
    <2>4. 1..streams \subseteq Stream
      BY BoundsAssumption DEF StreamsInv, TypeOK, Stream
    <2> QED BY <2>1, <2>2, <2>3, <2>4 DEF StreamsInv, Hands, Captured, NoOrphan, Running
  <1>4. CASE RestartSucceeds
    <2>1. /\ active = NoStream /\ taken # NoStream /\ mutex = "poll" /\ loop # "starting"
      BY <1>4, Holders DEF RestartSucceeds, StreamsInv, Hands
    <2>2. taken \in Stream
      BY <2>1, BoundsAssumption DEF StreamsInv, TypeOK, NoStream, Stream
    <2>3. ShareOf(taken) \in Share
      BY <2>2 DEF StreamsInv, TypeOK, ShareOf
    <2>4. Captured' /\ NoOrphan'
      BY <1>4, <2>1, <2>3, StartsCaptured DEF RestartSucceeds, StreamsInv
    <2> QED BY <1>4, <2>1, <2>4 DEF RestartSucceeds, StreamsInv, Hands, world
  <1>5. CASE RestartFindsNoSource \/ RestartPanics
    <2>1. active = NoStream /\ loop # "starting"
      BY <1>5 DEF RestartFindsNoSource, RestartPanics, StreamsInv, Hands
    <2>2. UNCHANGED <<stream, streams, failures, active, loop, news>>
      BY <1>5 DEF RestartFindsNoSource, RestartPanics, world
    <2>3. \/ mutex' = "free" /\ poll' = "wait"
          \/ mutex' = "poisoned" /\ poll' = "dead"
      BY <1>5 DEF RestartFindsNoSource, RestartPanics
    <2> QED BY <2>1, <2>2, <2>3 DEF StreamsInv, Hands, Captured, NoOrphan, Running
  <1>6. CASE RestartFails
    <2>1. UNCHANGED <<stream, streams, failures, active, taken, loop, poll, mutex, news>>
      BY <1>6 DEF RestartFails, capture, world
    <2> QED BY <2>1 DEF StreamsInv, Hands, Captured, NoOrphan, Running
  <1> QED BY <1>2, <1>3, <1>4, <1>5, <1>6 DEF PollStream

LEMMA ThreadsStreams ==
  ASSUME StreamsInv, ~over, Threads
  PROVE  StreamsInv'
  <1>1. TypeOK' /\ \A h \in Share : failures'[h] <= news'
    BY ThreadsType DEF StreamsInv
  <1>2. UNCHANGED <<streams, active, taken, mutex, poll, loop, over>>
    BY DEF Threads, Frame, PermanentError, UserStops, SckFrame, SckError, SckStops, News
  <1>3. stream \in [Stream -> StreamRecord]
    BY DEF StreamsInv, TypeOK, StreamRecord
  <1> PICK s \in Stream :
        \/ stream' = [stream EXCEPT ![s].thread = Last(@)]
        \/ stream' = [stream EXCEPT ![s].failed = TRUE, ![s].thread = Last(@)]
        \/ stream' = [stream EXCEPT ![s].thread = "ended"]
    BY DEF Threads, Frame, PermanentError, UserStops, SckFrame, SckError, SckStops
  <1>4. ASSUME NEW t \in Stream
        PROVE  /\ stream'[t].content = stream[t].content
               /\ stream'[t].thread = "running" => stream[t].thread = "running"
    BY <1>3, <1>4 DEF StreamRecord, Last
  <1>5. Captured' /\ NoOrphan'
    <2>1. 1..streams \subseteq Stream
      BY SMTT(30), BoundsAssumption DEF StreamsInv, TypeOK, Stream
    <2> QED BY <1>2, <1>4, <2>1 DEF StreamsInv, Captured, NoOrphan, Running
  <1> QED BY <1>1, <1>2, <1>5 DEF StreamsInv, Hands

LEMMA NextStreams == StreamsInv /\ [Next]_vars => StreamsInv'
  <1> SUFFICES ASSUME StreamsInv, [Next]_vars PROVE StreamsInv'
    OBVIOUS
  <1>1. CASE Next
    BY <1>1, UsersStreams, EventLoopStreams, PollStreamStreams, ThreadsStreams DEF Next
  <1>2. CASE UNCHANGED vars
    BY <1>2 DEF vars, capture, world, room, StreamsInv, TypeOK, Hands, Captured, NoOrphan, Running
  <1> QED BY <1>1, <1>2

\* Whatever stops, restarts and fails at the same time, every variable of the capturer
\* has its type: who is inside the mutex holds it, and a stream out of the capturer is
\* poll_stream's.
THEOREM TypeCorrect == Spec => []TypeOK
  <1>1. StreamsInv => TypeOK
    BY DEF StreamsInv
  <1> QED BY <1>1, InitStreams, NextStreams, PTL DEF Spec

--------------------------------------------------------------------------------
(* The track. *)

\* The track has yet to be muted, or nobody can mute it any more.
Unsettled ==
    StopWaits(ui) \/ loop \in {"extent", "undo", "ended"} \/ mutex = "poisoned"

\* Otherwise it is live exactly while a content is captured or is being restarted.
Muted == ~over => Unsettled \/ (track <=> active # NoStream \/ taken # NoStream)

LEMMA MutedSettles == StreamsInv /\ Muted => TrackFollowsCapture
  <1> SUFFICES ASSUME StreamsInv, Muted, Rest PROVE track = (active # NoStream)
    BY DEF TrackFollowsCapture
  <1>1. ~Unsettled
    BY DEF Rest, Unsettled, StopWaits
  <1>2. taken = NoStream
    BY DEF Rest, StreamsInv, TypeOK
  <1>3. track <=> active # NoStream
    BY <1>1, <1>2 DEF Muted, Rest
  <1> QED BY <1>3 DEF StreamsInv, TypeOK

LEMMA UsersMuted ==
  ASSUME StreamsInv, Muted, ~over, Users
  PROVE  Muted'
  <1>1. UNCHANGED <<active, taken, track, loop, mutex, over>>
    BY DEF Users, AskShare, AskStop, AskEnd, AskExit, Ask, CallStart, ContentGoes,
           capture, room
  <1>2. StopWaits(ui) => StopWaits(ui')
    <2>1. ui \in Seq(UserEvents)
      BY DEF StreamsInv, TypeOK, UserEvents
    <2>2. ASSUME NEW type \in {"share", "stop", "callEnd", "terminate"},
                 NEW c \in Content \cup {None}, Ask(type, c)
          PROVE  StopWaits(ui) => StopWaits(ui')
      <3>1. UserEvent(type, c) \in UserEvents
        BY DEF UserEvent, UserEvents
      <3> QED BY <2>1, <2>2, <3>1, StopStaysQueued DEF Ask
    <2>3. CASE AskShare \/ AskStop \/ AskEnd \/ AskExit
      BY <2>2, <2>3 DEF AskShare, AskStop, AskEnd, AskExit
    <2>4. CASE UNCHANGED ui
      BY <2>4 DEF StopWaits
    <2> QED BY <2>3, <2>4 DEF Users, CallStart, ContentGoes
  <1> QED BY <1>1, <1>2 DEF Muted, Unsettled

LEMMA EventLoopMuted ==
  ASSUME StreamsInv, Muted, ~over, EventLoop
  PROVE  Muted'
  <1>0. /\ ui \in Seq(UserEvents) /\ track \in BOOLEAN
        /\ mutex \in {"free", "poisoned"} => taken = NoStream
        /\ mutex = "poisoned" => active = NoStream
    BY DEF StreamsInv, TypeOK, UserEvents, Hands
  <1>1. ASSUME NEW next \in {"idle", "starting"}, StopScreenshare(next), loop \in {"idle", "undo"}
        PROVE  Muted'
    <2>1. /\ taken' = NoStream /\ active' = NoStream
          /\ track' = FALSE \/ mutex' = "poisoned"
      <3>1. mutex \in {"free", "poisoned"}
        BY <1>1 DEF StopScreenshare
      <3> QED BY <1>0, <1>1, <3>1, StopScreenshareStreams
    <2> QED BY <2>1 DEF Muted, Unsettled
  \* The handling of another event.
  <1>2. ASSUME NEW type, type # "stop", Handles(type), ui' = Tail(ui)
        PROVE  StopWaits(ui) => StopWaits(ui')
    BY <1>0, <1>2, StopOutlivesOthers DEF Handles
  <1>3. CASE StopShare \/ ShareStops \/ UndoShare
    BY <1>1, <1>3 DEF StopShare, ShareStops, UndoShare, Handles
  <1>4. CASE ShareStarts
    <2>1. CASE loop' = "extent"
      BY <2>1 DEF Muted, Unsettled
    <2>2. CASE loop' = "idle" /\ UNCHANGED <<active, mutex>>
      BY <1>4, <2>2 DEF ShareStarts, Muted, Unsettled, room
    <2> QED BY <1>4, <2>1, <2>2 DEF ShareStarts
  <1>5. CASE SharePanics
    BY <1>5 DEF SharePanics, Muted
  <1>6. CASE ShareGetsExtent
    BY <1>6 DEF ShareGetsExtent, HasExtent, Muted, Unsettled, capture
  <1>7. CASE ShareHasNoExtent
    BY <1>7 DEF ShareHasNoExtent, Muted, Unsettled
  <1>8. CASE OverlayOpens
    BY <1>8 DEF OverlayOpens, Muted, Unsettled, capture, room
  <1>9. CASE CallEnd
    <2>1. StopWaits(ui) => StopWaits(ui')
      BY <1>2, <1>9 DEF CallEnd
    <2> QED BY <1>9, <2>1 DEF CallEnd, Handles, Muted, Unsettled, capture, room
  <1>10. CASE CaptureFrameChanged
    <2>1. StopWaits(ui) => StopWaits(ui')
      BY <1>2, <1>10 DEF CaptureFrameChanged
    <2> QED BY <1>10, <2>1 DEF CaptureFrameChanged, Muted, Unsettled, capture, room
  <1>11. CASE LeaveCall
    <2>1. /\ track' = FALSE /\ taken' = NoStream /\ active' = NoStream
      BY <1>0, <1>11 DEF LeaveCall, StopCapture, capture
    <2> QED BY <2>1 DEF Muted, Unsettled
  <1>12. CASE CallEndRecovers
    BY <1>0, <1>12 DEF CallEndRecovers, Muted, Unsettled, capture
  <1>13. CASE Terminate
    BY <1>13 DEF Terminate, Muted, Unsettled
  <1> QED BY <1>3, <1>4, <1>5, <1>6, <1>7, <1>8, <1>9, <1>10, <1>11, <1>12, <1>13 DEF EventLoop

LEMMA PollStreamMuted ==
  ASSUME StreamsInv, Muted, ~over, PollStream \/ RestartPanics
  PROVE  Muted'
  <1>0. ui \in Seq(UserEvents)
    BY DEF StreamsInv, TypeOK, UserEvents
  <1>1. ASSUME NEW type \in {"stop", "frameChanged"}, ui' = Append(ui, UserEvent(type, None))
        PROVE  (StopWaits(ui) => StopWaits(ui')) /\ (type = "stop" => StopWaits(ui'))
    <2>1. UserEvent(type, None) \in UserEvents /\ UserEvent(type, None).type = type
      BY DEF UserEvent, UserEvents
    <2> QED BY <1>0, <1>1, <2>1, StopStaysQueued
  <1>2. CASE PollTakes \/ RestartLocks \/ NothingToRestart \/ RestartFails
    <2>1. UNCHANGED <<active, taken, track, loop, ui>> /\ (over' \/ over' = over)
      BY <1>2 DEF PollTakes, RestartLocks, NothingToRestart, RestartFails, capture, room
    <2>2. mutex = "poisoned" => mutex' = "poisoned"
      BY <1>2, Holders
         DEF PollTakes, RestartLocks, NothingToRestart, RestartFails, StreamsInv
    <2> QED BY <2>1, <2>2 DEF Muted, Unsettled
  <1>3. CASE ForwardStop \/ ForwardFrameChanged
    <2>1. StopWaits(ui) => StopWaits(ui')
      BY <1>1, <1>3 DEF ForwardStop, ForwardFrameChanged, Forwards
    <2>2. UNCHANGED <<active, taken, track, loop, mutex, over>>
      BY <1>3 DEF ForwardStop, ForwardFrameChanged, Forwards, capture, room
    <2> QED BY <2>1, <2>2 DEF Muted, Unsettled
  <1>4. CASE RestartTakes
    <2>1. /\ taken' = active /\ active # NoStream
          /\ UNCHANGED <<track, loop, mutex, ui>>
      BY <1>4 DEF RestartTakes, room
    <2> QED BY <2>1 DEF Muted, Unsettled
  <1>5. CASE RestartSucceeds
    <2>1. /\ active' # NoStream /\ taken # NoStream /\ mutex # "poisoned"
          /\ UNCHANGED <<track, loop, ui>>
      <3>1. mutex # "poisoned" /\ taken # NoStream
        BY <1>5, Holders DEF RestartSucceeds, StreamsInv, Hands
      <3>2. active' # NoStream
        BY <1>5, BoundsAssumption DEF RestartSucceeds, Starts, StreamsInv, TypeOK, NoStream, Stream
      <3> QED BY <1>5, <3>1, <3>2 DEF RestartSucceeds, room
    <2> QED BY <2>1 DEF Muted, Unsettled
  <1>6. CASE RestartFindsNoSource
    <2>1. StopWaits(ui')
      BY <1>1, <1>6 DEF RestartFindsNoSource
    <2> QED BY <2>1 DEF Muted, Unsettled
  <1>7. CASE RestartPanics
    BY <1>7 DEF RestartPanics, Muted, Unsettled
  <1> QED BY <1>2, <1>3, <1>4, <1>5, <1>6, <1>7 DEF PollStream

LEMMA NextMuted == StreamsInv /\ Muted /\ [Next]_vars => Muted'
  <1> SUFFICES ASSUME StreamsInv, Muted, [Next]_vars PROVE Muted'
    OBVIOUS
  <1>1. ASSUME ~over, Threads PROVE Muted'
    <2>1. UNCHANGED <<active, taken, track, loop, mutex, ui, over>>
      BY <1>1 DEF Threads, Frame, PermanentError, UserStops, SckFrame, SckError, SckStops, News, room
    <2> QED BY <2>1 DEF Muted, Unsettled, StopWaits
  <1>2. CASE Next
    BY <1>1, <1>2, UsersMuted, EventLoopMuted, PollStreamMuted DEF Next
  <1>3. CASE UNCHANGED vars
    BY <1>3 DEF vars, capture, room, Muted, Unsettled, StopWaits
  <1> QED BY <1>2, <1>3

\* However restarts, stops and new shares cross (capturer.rs, poll_stream and
\* restart_stream; lib.rs, screenshare and stop_screenshare), no capture thread runs on
\* unknown to the capturer, and at rest the track is live exactly while there is a stream.
THEOREM NothingIsCapturedUnseen == Spec => []CaptureIsAccountedFor
  <1>1. Init => StreamsInv /\ Muted
    <2>1. Init => Muted
      BY DEF Init, Muted
    <2> QED BY <2>1, InitStreams
  <1>2. StreamsInv /\ Muted /\ [Next]_vars => StreamsInv' /\ Muted'
    BY NextStreams, NextMuted
  <1>3. StreamsInv /\ Muted => CaptureIsAccountedFor
    BY MutedSettles DEF StreamsInv, CaptureIsAccountedFor
  <1> QED BY <1>1, <1>2, <1>3, PTL DEF Spec

--------------------------------------------------------------------------------
(* The session. *)

Shown == IF Current = NoStream THEN None ELSE stream[Current].content
Ailing == Current # NoStream /\ stream[Current].failed

LEMMA CurrentType ==
  ASSUME StreamsInv
  PROVE  /\ Current # NoStream => Current \in Stream /\ Current \in 1..streams /\ Shown \in Content
         /\ Current = NoStream => Shown = None /\ Ailing = FALSE
         /\ Ailing \in BOOLEAN
  <1>1. Current # NoStream => Current \in 1..streams /\ Current \in Stream
    BY BoundsAssumption DEF StreamsInv, TypeOK, Current, NoStream, Stream
  <1>2. Current # NoStream => Shown \in Content
    BY <1>1 DEF StreamsInv, Captured, Shown
  <1>3. Current # NoStream => stream[Current].failed \in BOOLEAN
    BY <1>1 DEF StreamsInv, TypeOK
  <1> QED BY <1>1, <1>2, <1>3 DEF Shown, Ailing

\* The steps of the session, in these terms.
LEMMA SessionStutters ==
  ASSUME Shown' = Shown, Ailing' = Ailing, over' = over
  PROVE  UNCHANGED Session!vars
  BY DEF Shown, Ailing, Session!vars

LEMMA SessionExits ==
  ASSUME Shown' = Shown, Ailing' = Ailing, ~over, over' = TRUE
  PROVE  Session!Next
  BY DEF Shown, Ailing, Session!Next, Session!Exit

LEMMA SessionStops ==
  ASSUME StreamsInv, ~over, over' = over, Current' = NoStream
  PROVE  [Session!Next]_(Session!vars)
  <1>1. Shown' = None /\ Ailing' = FALSE
    BY DEF Shown, Ailing
  <1>2. CASE Current # NoStream
    <2>1. Shown # None
      BY <1>2, CurrentType, ContentAssumption
    <2> QED BY <1>1, <2>1 DEF Shown, Ailing, Session!Next, Session!Stop
  <1>3. CASE Current = NoStream
    BY <1>1, <1>3, SessionStutters, CurrentType
  <1> QED BY <1>2, <1>3

LEMMA SessionStarts ==
  ASSUME StreamsInv, ~over, over' = over, Current = NoStream, Current' # NoStream,
         NEW c \in Content, stream'[Current'].content = c, stream'[Current'].failed = FALSE
  PROVE  Session!Next
  <1>1. Shown = None /\ Ailing = FALSE /\ Shown' = c /\ Ailing' = FALSE
    BY CurrentType DEF Shown, Ailing
  <1> QED BY <1>1 DEF Shown, Ailing, Session!Next, Session!Start

LEMMA SessionRecovers ==
  ASSUME StreamsInv, ~over, over' = over, Current # NoStream, Current' # NoStream,
         stream'[Current'].content = stream[Current].content, stream'[Current'].failed = FALSE
  PROVE  [Session!Next]_(Session!vars)
  <1>1. Shown' = Shown /\ Ailing' = FALSE
    BY DEF Shown, Ailing
  <1>2. CASE Ailing = TRUE
    BY <1>1, <1>2 DEF Shown, Ailing, Session!Next, Session!Recover
  <1>3. CASE Ailing = FALSE
    BY <1>1, <1>3, SessionStutters
  <1> QED BY <1>2, <1>3, CurrentType

LEMMA SessionFails ==
  ASSUME StreamsInv, ~over, over' = over, Current # NoStream, Current' = Current,
         stream'[Current].content = stream[Current].content, stream[Current].failed = FALSE,
         stream'[Current].failed = TRUE
  PROVE  Session!Next
  <1>1. Shown # None /\ Shown' = Shown /\ Ailing = FALSE /\ Ailing' = TRUE
    BY CurrentType, ContentAssumption DEF Shown, Ailing
  <1> QED BY <1>1 DEF Shown, Ailing, Session!Next, Session!Fail

\* A step that leaves what is captured as it is is none of the session, or its end.
LEMMA SessionGoesOn ==
  ASSUME StreamsInv, ~over, over' = over \/ over' = TRUE, Current' = Current,
         Current # NoStream => /\ stream'[Current].content = stream[Current].content
                               /\ stream'[Current].failed = stream[Current].failed
  PROVE  [Session!Next]_(Session!vars)
  <1>1. Shown' = Shown /\ Ailing' = Ailing
    BY DEF Shown, Ailing
  <1> QED BY <1>1, SessionStutters, SessionExits

LEMMA EventLoopOfSession ==
  ASSUME StreamsInv, ~over, EventLoop
  PROVE  [Session!Next]_(Session!vars)
  <1>0. /\ mutex \in {"free", "poisoned"} => taken = NoStream
        /\ mutex = "poisoned" => active = NoStream
        /\ loop = "starting" => active = NoStream
    BY DEF StreamsInv, TypeOK, Hands
  <1>1. ASSUME NEW next \in {"idle", "starting"}, StopScreenshare(next), loop \in {"idle", "undo"}
        PROVE  [Session!Next]_(Session!vars)
    <2>1. over' = over /\ active' = NoStream /\ taken' = NoStream
      <3>1. mutex \in {"free", "poisoned"}
        BY <1>1 DEF StopScreenshare
      <3> QED BY <1>0, <1>1, <3>1, StopScreenshareStreams
    <2>2. Current' = NoStream
      BY <2>1 DEF Current
    <2> QED BY <2>1, <2>2, SessionStops
  <1>2. CASE StopShare \/ ShareStops \/ UndoShare
    BY <1>1, <1>2 DEF StopShare, ShareStops, UndoShare, Handles
  <1>3. CASE ShareStarts
    <2>1. taken = NoStream /\ active = NoStream /\ taken' = NoStream /\ over' = over
      BY <1>0, <1>3 DEF ShareStarts
    <2>2. Current = NoStream
      BY <2>1 DEF Current
    <2>3. CASE shares + 1 \in Share /\ Starts(shares + 1, wanted)
      <3>1. /\ active' # NoStream /\ wanted \in Content
            /\ stream'[active'].content = wanted /\ stream'[active'].failed = FALSE
        <4>1. TypeOK /\ Captured /\ NoOrphan
          BY DEF StreamsInv
        <4>2. wanted \in Content
          BY <2>3, <4>1, StartsType
        <4> QED BY <2>1, <2>3, <4>1, <4>2, StartsCaptured
      <3>2. Current' = active'
        BY <2>1 DEF Current
      <3> QED BY <2>1, <2>2, <3>1, <3>2, SessionStarts
    <2>4. CASE active' = active
      <3>1. Current' = NoStream
        BY <2>1, <2>4 DEF Current
      <3> QED BY <2>1, <3>1, SessionStops
    <2> QED BY <1>3, <2>3, <2>4 DEF ShareStarts
  <1>4. CASE SharePanics \/ ShareGetsExtent \/ ShareHasNoExtent \/ OverlayOpens \/ CallEnd
             \/ CaptureFrameChanged \/ CallEndRecovers
    <2>1. UNCHANGED <<stream, active, taken>> /\ (over' = over \/ over' = TRUE)
      BY <1>4 DEF SharePanics, ShareGetsExtent, ShareHasNoExtent, OverlayOpens, CallEnd,
                  CaptureFrameChanged, CallEndRecovers, capture
    <2>2. Current' = Current
      BY <2>1 DEF Current
    <2> QED BY <2>1, <2>2, SessionGoesOn
  <1>5. CASE LeaveCall \/ Terminate
    <2>1. over' = over /\ active' = NoStream /\ taken' = NoStream
      BY <1>0, <1>5 DEF LeaveCall, Terminate, StopCapture, capture
    <2>2. Current' = NoStream
      BY <2>1 DEF Current
    <2> QED BY <2>1, <2>2, SessionStops
  <1> QED BY <1>2, <1>3, <1>4, <1>5 DEF EventLoop

LEMMA PollStreamOfSession ==
  ASSUME StreamsInv, ~over, PollStream \/ RestartPanics
  PROVE  [Session!Next]_(Session!vars)
  <1>1. CASE PollTakes \/ ForwardStop \/ ForwardFrameChanged \/ RestartLocks
             \/ NothingToRestart \/ RestartFails
    <2>1. UNCHANGED <<stream, active, taken>> /\ (over' = over \/ over' = TRUE)
      BY <1>1 DEF PollTakes, ForwardStop, ForwardFrameChanged, Forwards, RestartLocks,
                  NothingToRestart, RestartFails, capture
    <2>2. Current' = Current
      BY <2>1 DEF Current
    <2> QED BY <2>1, <2>2, SessionGoesOn
  <1>2. CASE RestartTakes
    <2>1. /\ stream' = Told(active) /\ active' = NoStream /\ taken' = active /\ active # NoStream
          /\ over' = over \/ over' = TRUE
          /\ taken = NoStream
      BY <1>2 DEF RestartTakes, StreamsInv, TypeOK
    <2>2. Current = active /\ Current' = Current
      BY <2>1 DEF Current
    <2>3. /\ stream'[Current].content = stream[Current].content
          /\ stream'[Current].failed = stream[Current].failed
      BY <2>1, <2>2, ToldIsQuiet, CurrentType DEF StreamsInv
    <2> QED BY <2>1, <2>2, <2>3, SessionGoesOn
  <1>3. CASE RestartSucceeds
    <2>1. active = NoStream /\ taken # NoStream /\ taken' = NoStream /\ over' = over
      BY <1>3 DEF RestartSucceeds, StreamsInv, Hands
    <2>2. Current = taken /\ Current \in Stream
      BY <2>1, CurrentType DEF Current
    <2>3. ShareOf(taken) \in Share
      BY <2>2 DEF StreamsInv, TypeOK, ShareOf
    <2>4. /\ active' # NoStream
          /\ stream'[active'].content = stream[taken].content /\ stream'[active'].failed = FALSE
      BY <1>3, <2>1, <2>3, StartsCaptured DEF RestartSucceeds, Copied, StreamsInv
    <2>5. Current' = active'
      BY <2>1 DEF Current
    <2> QED BY <2>1, <2>2, <2>4, <2>5, SessionRecovers
  <1>4. CASE RestartFindsNoSource \/ RestartPanics
    <2>1. active' = NoStream /\ taken' = NoStream /\ over' = over
      BY <1>4 DEF RestartFindsNoSource, RestartPanics, StreamsInv, Hands
    <2>2. Current' = NoStream
      BY <2>1 DEF Current
    <2> QED BY <2>1, <2>2, SessionStops
  <1> QED BY <1>1, <1>2, <1>3, <1>4 DEF PollStream

LEMMA ThreadsOfSession ==
  ASSUME StreamsInv, ~over, Threads
  PROVE  [Session!Next]_(Session!vars)
  <1>1. UNCHANGED <<active, taken, over>>
    BY DEF Threads, Frame, PermanentError, UserStops, SckFrame, SckError, SckStops, News
  <1>2. stream \in [Stream -> StreamRecord]
    BY DEF StreamsInv, TypeOK, StreamRecord
  <1>3. Current' = Current
    BY <1>1 DEF Current
  <1> PICK s \in Stream :
        \/ stream' = [stream EXCEPT ![s].thread = Last(@)]
        \/ stream' = [stream EXCEPT ![s].thread = "ended"]
        \/ /\ ~stream[s].failed
           /\ stream' = [stream EXCEPT ![s].failed = TRUE, ![s].thread = Last(@)]
    BY DEF Threads, Frame, PermanentError, UserStops, SckFrame, SckError, SckStops
  <1>4. CASE \/ Current # s \/ stream' = [stream EXCEPT ![s].thread = Last(@)]
             \/ stream' = [stream EXCEPT ![s].thread = "ended"]
    <2>1. Current # NoStream => /\ stream'[Current].content = stream[Current].content
                               /\ stream'[Current].failed = stream[Current].failed
      BY <1>2, <1>4, CurrentType DEF StreamRecord
    <2> QED BY <1>1, <1>3, <2>1, SessionGoesOn
  <1>5. CASE /\ Current = s /\ ~stream[s].failed
             /\ stream' = [stream EXCEPT ![s].failed = TRUE, ![s].thread = Last(@)]
    <2>1. /\ stream'[Current].content = stream[Current].content
          /\ stream'[Current].failed = TRUE
      BY <1>2, <1>5 DEF StreamRecord
    <2>2. stream[Current].failed = FALSE
      BY <1>2, <1>5 DEF StreamRecord
    <2>3. Current # NoStream
      BY <1>5 DEF Stream, NoStream
    <2> QED BY <1>1, <1>3, <2>1, <2>2, <2>3, SessionFails
  <1> QED BY <1>4, <1>5

LEMMA StepOfSession == StreamsInv /\ [Next]_vars => [Session!Next]_(Session!vars)
  <1> SUFFICES ASSUME StreamsInv, [Next]_vars PROVE [Session!Next]_(Session!vars)
    OBVIOUS
  <1>1. CASE ~over /\ Users
    <2>1. UNCHANGED <<stream, active, taken, over>>
      BY <1>1 DEF Users, AskShare, AskStop, AskEnd, AskExit, Ask, CallStart, ContentGoes, capture
    <2>2. Current' = Current
      BY <2>1 DEF Current
    <2> QED BY <1>1, <2>1, <2>2, SessionGoesOn
  <1>2. CASE UNCHANGED vars
    <2>1. UNCHANGED <<stream, active, taken, over>>
      BY <1>2 DEF vars, capture
    <2> QED BY <2>1, SessionStutters DEF Shown, Ailing, Current
  <1> QED BY <1>1, <1>2, EventLoopOfSession, PollStreamOfSession, ThreadsOfSession DEF Next

\* Every step of the capturer is one of the session it promises the rest of the core, or
\* none: a restart keeps the content, nothing is captured but what a handler starts when
\* nothing is, and what has failed is not captured on.
THEOREM StepsOfSession == Spec => Session!Init /\ [][Session!Next]_(Session!vars)
  <1>1. Init => Session!Init
    BY DEF Init, Session!Init, Current
  <1> QED BY <1>1, InitStreams, NextStreams, StepOfSession, PTL DEF Spec

==============================================================================
