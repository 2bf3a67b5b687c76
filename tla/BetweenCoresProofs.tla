---------------------------- MODULE BetweenCoresProofs ----------------------------
(***************************************************************************)
(* Theorems about what passes between the cores of a room, for any number  *)
(* of cores, wishes, presses, strokes and messages: they agree on who      *)
(* shares (ShareRoom), the sharer's machine holds down what the watcher    *)
(* holds (RemoteInput), what one draws the other sees (Drawing), texts are *)
(* copied and pasted whole (Clipboard), and what one says in a room the    *)
(* others hear (RoomMessages).                                             *)
(*                                                                         *)
(* The first three properties speak of the time when no message is on its  *)
(* way.  The inductive invariants ShareInv, InputInv and DrawingInv say    *)
(* for every state what the messages on their way will make of it.  The    *)
(* first two need, of a queue (Facts), only whether a kind of message occurs in it *)
(* (Lacks) and which is the last of that kind (EndsIn); the third what a     *)
(* queue makes of a picture when it is replayed (Replays).  MessagesInv    *)
(* says which numbers of words a queue holds (Consecutive) and which call  *)
(* the commands in it are about.  ClipboardInv says which beginning of a   *)
(* text has been put together (Begun).                                     *)
(*                                                                         *)
(* The types need more than themselves: no more presses wait than there    *)
(* were (InputTypes), no path without its stroke (WireTypes), no more      *)
(* visits and commands than were sent (WordTypes).                         *)
(***************************************************************************)
EXTENDS MCBetweenCores, Facts

--------------------------------------------------------------------------------
(* Screen sharing: the inductive invariant. *)

AnyCommand == {"mute", "unmute", "destroy"}
Switches == {"mute", "unmute"}
Switch(on) == IF on THEN {"unmute"} ELSE {"mute"}

OnFrom(Q) == [type : {"unmuted", "subscribed"}, from : Q]
OffFrom(Q) == [type : {"muted", "unsubscribed"}, from : Q]
GoneOf(Q) == [type : {"unsubscribed", "gone"}, from : Q]
Opens == [type : {"open"}, from : Core]
Closes == [type : {"close"}, from : Core]

\* Only members share, nobody hears of himself, and who has not left is not said to have.
Members ==
    \A p \in Core :
      /\ track[p] => InCall(p)
      /\ p \notin Latecomers => call[p] # "before"
      /\ call[p] = "before" =>
           /\ ui[p] = <<>> /\ commands[p] = <<>> /\ ~capturing[p]
           /\ publisher[p] = None /\ window[p] # "visible"
      /\ publisher[p] # p /\ Lacks(events[p], [type : EventType, from : {p}])
      /\ \A q \in Core : call[q] # "after" => Lacks(events[p], GoneOf({q}))

\* The room service's last command says what the track will be: what is captured.
Settles(c, on, now) == EndsIn(c, Switches, Switch(on)) \/ (Lacks(c, Switches) /\ now = on)
OwnTrack == \A p \in Core : InCall(p) => Settles(commands[p], capturing[p], track[p])

\* Of two who share, one has heard of the other, or will, and will stop.
Stops(p) ==
    \/ ~Lacks(commands[p], {"mute"}) \/ ~Lacks(ui[p], Opens)
    \/ ~Lacks(events[p], OnFrom(Core))
OneGivesWay ==
    \A p, q \in Core : p # q /\ track[p] /\ track[q] => Stops(p) \/ Stops(q)

\* Who was there when a share began, which will not be stopped, has come to know of it or
\* will, and of no later one.
Leads(p, q) ==
    LET others == OnFrom(Core) \cup OffFrom({q}) IN
    \/ EndsIn(events[p], others, OnFrom({q}))
    \/ Lacks(events[p], others) /\ publisher[p] = q /\ q \in sharers[p]
SharesAreSeen ==
    \A p \in Core \ Latecomers, q \in Core :
      p # q /\ InCall(p) /\ track[q] => Stops(q) \/ Leads(p, q)

\* A share that has ended is known to have, or will be.
NewsOf(q) == OnFrom({q}) \cup OffFrom({q})
Over(p, q) ==
    \/ EndsIn(events[p], NewsOf(q), OffFrom({q}))
    \/ Lacks(events[p], NewsOf(q)) /\ publisher[p] # q
EndsAreSeen == \A p, q \in Core : p # q /\ InCall(p) /\ ~track[q] => Over(p, q)

\* Without a share to show the window is not open, or will be closed.
Closing(q, w) ==
    \/ EndsIn(q, Opens \cup Closes, Closes)
    \/ Lacks(q, Opens \cup Closes) /\ w # "visible"
WindowCloses == \A p \in Core : InCall(p) /\ publisher[p] = None => Closing(ui[p], window[p])

ShareInv ==
    /\ ShareTypeOK /\ Members /\ OwnTrack /\ OneGivesWay /\ SharesAreSeen /\ EndsAreSeen
    /\ WindowCloses

LEMMA NoticeType ==
  \A type \in EventType, p \in Core :
    /\ Notice(type, p) \in AnyNotice
    /\ Notice(type, p).type = type /\ Notice(type, p).from = p
    /\ \A T, Q : Notice(type, p) \in [type : T, from : Q] <=> type \in T /\ p \in Q
  BY DEF Notice, AnyNotice

LEMMA ShareInitInv == ShareInit => ShareInv
  <1> SUFFICES ASSUME ShareInit PROVE ShareInv
    OBVIOUS
  <1> USE CoreAssumption
  <1>1. ShareTypeOK
    BY EmptySeq DEF ShareInit, ShareTypeOK
  <1>2. Members
    BY EmptyQueue DEF ShareInit, Members, InCall
  <1>3. OwnTrack
    BY EmptyQueue DEF ShareInit, OwnTrack, Settles
  <1>4. OneGivesWay /\ SharesAreSeen
    BY DEF ShareInit, OneGivesWay, SharesAreSeen
  <1>5. EndsAreSeen
    BY EmptyQueue DEF ShareInit, EndsAreSeen, Over
  <1>6. WindowCloses
    BY EmptyQueue DEF ShareInit, WindowCloses, Closing
  <1> QED BY <1>1, <1>2, <1>3, <1>4, <1>5, <1>6 DEF ShareInv

--------------------------------------------------------------------------------
(* The event loop and the users. *)

\* What they change at p, and what they keep: a stop that is due stays due.
LoopEffect(p) ==
    /\ UNCHANGED <<call, track, events, publisher>> /\ call[p] # "before"
    /\ \A q \in Core \ {p} :
         /\ ui'[q] = ui[q] /\ commands'[q] = commands[q] /\ capturing'[q] = capturing[q]
         /\ sharers'[q] = sharers[q] /\ window'[q] = window[q]
    /\ sharers'[p] \ {p} = sharers[p] \ {p}
    /\ \/ commands'[p] = commands[p] /\ capturing'[p] = capturing[p]
       \/ /\ EndsIn(commands'[p], Switches, Switch(capturing'[p]))
          /\ ~Lacks(commands'[p], {"mute"})
    /\ \/ ~Lacks(ui[p], Opens) => ~Lacks(ui'[p], Opens)
       \/ ~Lacks(commands'[p], {"mute"})
    /\ publisher[p] = None /\ Closing(ui[p], window[p]) => Closing(ui'[p], window'[p])

LEMMA LoopKeeps ==
  ASSUME ShareInv, ShareTypeOK', NEW p \in Core, LoopEffect(p)
  PROVE  ShareInv'
  <1>0. UNCHANGED <<call, track, events, publisher>>
    BY DEF LoopEffect
  <1>1. Members'
    BY <1>0 DEF LoopEffect, ShareInv, Members, InCall, Lacks
  <1>2. OwnTrack'
    <2> SUFFICES ASSUME NEW q \in Core, InCall(q)
                 PROVE  Settles(commands'[q], capturing'[q], track[q])
      BY <1>0 DEF OwnTrack, InCall, Settles
    <2>1. Settles(commands[q], capturing[q], track[q])
      BY DEF ShareInv, OwnTrack
    <2>2. CASE q # p
      BY <2>1, <2>2 DEF LoopEffect
    <2>3. CASE q = p
      BY <2>1, <2>3 DEF LoopEffect, Settles
    <2> QED BY <2>2, <2>3
  <1>3. \A q \in Core : Stops(q) => Stops(q)'
    <2> SUFFICES ASSUME NEW q \in Core, Stops(q) PROVE Stops(q)'
      OBVIOUS
    <2>1. CASE q # p
      BY <1>0, <2>1 DEF LoopEffect, Stops
    <2>2. CASE q = p
      BY <1>0, <2>2 DEF LoopEffect, Stops
    <2> QED BY <2>1, <2>2
  <1>4. OneGivesWay'
    BY <1>0, <1>3 DEF ShareInv, OneGivesWay
  <1>5. SharesAreSeen'
    <2>1. \A x, q \in Core : x # q /\ Leads(x, q) => Leads(x, q)'
      BY <1>0 DEF LoopEffect, Leads
    <2> QED BY <1>0, <1>3, <2>1 DEF ShareInv, SharesAreSeen, InCall
  <1>6. EndsAreSeen'
    BY <1>0 DEF ShareInv, EndsAreSeen, Over, InCall
  <1>7. WindowCloses'
    <2> SUFFICES ASSUME NEW q \in Core, InCall(q), publisher[q] = None
                 PROVE  Closing(ui'[q], window'[q])
      BY <1>0 DEF WindowCloses, InCall, Closing
    <2>1. Closing(ui[q], window[q])
      BY DEF ShareInv, WindowCloses
    <2>2. CASE q # p
      BY <2>1, <2>2 DEF LoopEffect
    <2>3. CASE q = p
      BY <2>1, <2>3 DEF LoopEffect
    <2> QED BY <2>2, <2>3
  <1> QED BY <1>1, <1>2, <1>4, <1>5, <1>6, <1>7 DEF ShareInv

LEMMA AsksLikeLoop ==
  ASSUME ShareInv, NEW p \in Core, NEW what \in {"share", "stop", "callEnd"}, Ask(p, what)
  PROVE  ShareTypeOK' /\ LoopEffect(p)
  <1> USE DEF ShareInv
  <1> DEFINE m == Notice(what, p)
  <1>0. /\ UNCHANGED <<call, track, events, publisher, commands, capturing, sharers, window>>
        /\ UNCHANGED active
        /\ ui' = [ui EXCEPT ![p] = Append(ui[p], m)] /\ call[p] = "in"
        /\ wishes' = wishes + 1 /\ wishes < MaxWishes
    BY DEF Ask, Post, livekit, remote, InCall
  <1>1. ui[p] \in Seq(AnyNotice) /\ ui \in [Core -> Seq(AnyNotice)] /\ wishes \in 0..MaxWishes
    BY DEF ShareTypeOK
  <1>2. m \in AnyNotice /\ m \notin Opens /\ m \notin Closes
    BY NoticeType DEF Opens, Closes, EventType
  <1> HIDE DEF m
  <1>3. /\ Append(ui[p], m) \in Seq(AnyNotice)
        /\ ~Lacks(ui[p], Opens) => ~Lacks(Append(ui[p], m), Opens)
        /\ Closing(ui[p], window[p]) => Closing(Append(ui[p], m), window[p])
    BY <1>1, <1>2, AppendQueue DEF Closing
  <1>4. ui'[p] = Append(ui[p], m) /\ \A q \in Core \ {p} : ui'[q] = ui[q]
    BY <1>0, <1>1
  <1>5. ui' \in [Core -> Seq(AnyNotice)] /\ wishes' \in 0..MaxWishes
    BY <1>0, <1>1, <1>3, CoreAssumption
  <1>6. ShareTypeOK'
    BY <1>0, <1>5 DEF ShareTypeOK
  <1>7. LoopEffect(p)
    BY <1>0, <1>3, <1>4 DEF LoopEffect
  <1> QED BY <1>6, <1>7

\* The ends of the command sequences that the handlers send.
LEMMA CommandQueue ==
  ASSUME NEW q \in Seq(AnyCommand)
  PROVE  /\ \A s \in {<<"mute">>, <<"mute", "unmute">>, <<"mute", "destroy">>} :
              q \o s \in Seq(AnyCommand) /\ ~Lacks(q \o s, {"mute"})
         /\ EndsIn(q \o <<"mute">>, Switches, Switch(FALSE))
         /\ EndsIn(q \o <<"mute", "unmute">>, Switches, Switch(TRUE))
         /\ EndsIn(q \o <<"mute", "destroy">>, Switches, Switch(FALSE))
  <1> DEFINE a == Append(q, "mute")
  <1>0. {"mute", "unmute", "destroy"} \subseteq AnyCommand
    BY DEF AnyCommand
  <1>1. a \in Seq(AnyCommand) /\ ~Lacks(a, {"mute"}) /\ EndsIn(a, Switches, {"mute"})
    BY <1>0, AppendQueue
  <1>2. /\ q \o <<"mute">> = a /\ q \o <<"mute", "unmute">> = Append(a, "unmute")
        /\ q \o <<"mute", "destroy">> = Append(a, "destroy")
    BY <1>0, ConcatQueue
  <1> HIDE DEF a
  <1>3. \A c \in {"unmute", "destroy"} :
          Append(a, c) \in Seq(AnyCommand) /\ ~Lacks(Append(a, c), {"mute"})
    BY <1>0, <1>1, AppendQueue
  <1>4. /\ EndsIn(Append(a, "unmute"), Switches, {"unmute"})
        /\ EndsIn(Append(a, "destroy"), Switches, {"mute"})
    BY <1>0, <1>1, AppendQueue DEF Switches
  <1> QED BY <1>1, <1>2, <1>3, <1>4 DEF Switch

\* What a message taken from the event loop's queue leaves of it.
LEMMA LoopTakesType ==
  ASSUME ShareInv, NEW p \in Core, NEW type, LoopTakes(p, type), ui' = Took(ui, p)
  PROVE  /\ call[p] # "before"
         /\ ui' \in [Core -> Seq(AnyNotice)]
         /\ \A q \in Core \ {p} : ui'[q] = ui[q]
         /\ type # "open" /\ ~Lacks(ui[p], Opens) => ~Lacks(ui'[p], Opens)
         /\ \A w \in {"none", "hidden", "visible"}, v \in {"none", "hidden", "visible"} :
              /\ Closing(ui[p], w)
              /\ type \notin {"open", "close"} => (w # "visible" => v # "visible")
              /\ type = "close" => v # "visible"
              => Closing(ui'[p], v)
  <1> USE DEF ShareInv
  <1>1. ui \in [Core -> Seq(AnyNotice)] /\ ui[p] \in Seq(AnyNotice) /\ ui[p] # <<>>
        /\ Head(ui[p]).type = type
    BY DEF ShareTypeOK, LoopTakes
  <1>2. ui'[p] = Tail(ui[p]) /\ \A q \in Core \ {p} : ui'[q] = ui[q]
    BY <1>1 DEF Took
  <1>3. Head(ui[p]) \in AnyNotice /\ Tail(ui[p]) \in Seq(AnyNotice)
    BY <1>1, TailQueue
  <1>4. /\ Head(ui[p]) \in Opens <=> type = "open"
        /\ Head(ui[p]) \in Closes <=> type = "close"
    BY <1>1, <1>3 DEF AnyNotice, Opens, Closes
  <1>5. ui' \in [Core -> Seq(AnyNotice)]
    BY <1>1, <1>3 DEF Took
  <1>6. call[p] # "before"
    BY <1>1 DEF Members
  <1>7. type # "open" /\ ~Lacks(ui[p], Opens) => ~Lacks(ui'[p], Opens)
    BY <1>1, <1>2, <1>4, TailQueue
  <1>8. ASSUME NEW w \in {"none", "hidden", "visible"}, NEW v \in {"none", "hidden", "visible"},
               Closing(ui[p], w), type \notin {"open", "close"} => (w # "visible" => v # "visible"),
               type = "close" => v # "visible"
        PROVE  Closing(ui'[p], v)
    <2>1. CASE EndsIn(ui[p], Opens \cup Closes, Closes)
      <3>1. \/ EndsIn(ui'[p], Opens \cup Closes, Closes)
            \/ Head(ui[p]) \in Closes /\ Lacks(ui'[p], Opens \cup Closes)
        BY <1>1, <1>2, <2>1, TailQueue
      <3> QED BY <1>4, <1>8, <3>1 DEF Closing
    <2>2. CASE Lacks(ui[p], Opens \cup Closes) /\ w # "visible"
      <3>1. \A S : Lacks(ui[p], S) => Head(ui[p]) \notin S /\ Lacks(ui'[p], S)
        BY ZenonT(60), <1>1, <1>2, TailQueue
      <3> QED BY <1>4, <1>8, <2>2, <3>1 DEF Closing
    <2> QED BY <1>8, <2>1, <2>2 DEF Closing
  <1> QED BY <1>2, <1>5, <1>6, <1>7, <1>8

LEMMA StopScreenshareEffect ==
  ASSUME ShareInv, NEW p \in Core, NEW on \in BOOLEAN, NEW next \in {<<>>, <<"unmute">>},
         StopScreenshare(p, next, on)
  PROVE  /\ commands' \in [Core -> Seq(AnyCommand)] /\ capturing' \in [Core -> BOOLEAN]
         /\ sharers' \in [Core -> SUBSET Core] /\ active' \in [Core -> BOOLEAN]
         /\ \A q \in Core \ {p} : /\ commands'[q] = commands[q] /\ capturing'[q] = capturing[q]
                                  /\ sharers'[q] = sharers[q]
         /\ sharers'[p] \ {p} = sharers[p] \ {p}
         /\ EndsIn(commands'[p], Switches, Switch(capturing'[p]))
         /\ ~Lacks(commands'[p], {"mute"})
  <1> USE DEF ShareInv
  <1>1. /\ commands \in [Core -> Seq(AnyCommand)] /\ capturing \in [Core -> BOOLEAN]
        /\ sharers \in [Core -> SUBSET Core] /\ active \in [Core -> BOOLEAN]
    BY DEF ShareTypeOK, AnyCommand
  <1>2. capturing' \in [Core -> BOOLEAN] /\ active' \in [Core -> BOOLEAN]
    BY <1>1 DEF StopScreenshare
  <1>3. /\ sharers' \in [Core -> SUBSET Core] /\ sharers'[p] \ {p} = sharers[p] \ {p}
        /\ \A q \in Core \ {p} : capturing'[q] = capturing[q] /\ sharers'[q] = sharers[q]
    BY <1>1 DEF StopScreenshare
  <1>4. CASE next = <<>>
    <2>1. <<"mute">> \o next = <<"mute">> /\ ~(next = <<"unmute">>)
      BY <1>4
    <2>2. commands' = [commands EXCEPT ![p] = @ \o <<"mute">>]
      BY <2>1 DEF StopScreenshare
    <2>3. capturing'[p] = FALSE
      BY <1>1, <2>1 DEF StopScreenshare
    <2> QED BY <1>1, <1>2, <1>3, <2>2, <2>3, CommandQueue
  <1>5. CASE next = <<"unmute">>
    <2>1. <<"mute">> \o next = <<"mute", "unmute">>
      <3>1. "mute" \in AnyCommand /\ "unmute" \in AnyCommand
        BY DEF AnyCommand
      <3> QED BY <1>5, <3>1, TwoMessages
    <2>2. commands' = [commands EXCEPT ![p] = @ \o <<"mute", "unmute">>]
      BY <2>1 DEF StopScreenshare
    <2>3. capturing'[p] = TRUE
      BY <1>1, <1>5 DEF StopScreenshare
    <2> QED BY <1>1, <1>2, <1>3, <2>2, <2>3, CommandQueue
  <1> QED BY <1>4, <1>5

LEMMA HandlersLikeLoop ==
  ASSUME ShareInv, NEW p \in Core, EventLoop(p)
  PROVE  ShareTypeOK' /\ LoopEffect(p)
  <1> USE DEF ShareInv
  <1>0. /\ call \in [Core -> {"before", "in", "after"}] /\ track \in [Core -> BOOLEAN]
        /\ events \in [Core -> Seq(AnyNotice)] /\ publisher \in [Core -> Core \cup {None}]
        /\ commands \in [Core -> Seq(AnyCommand)] /\ capturing \in [Core -> BOOLEAN]
        /\ sharers \in [Core -> SUBSET Core] /\ active \in [Core -> BOOLEAN]
        /\ window \in [Core -> {"none", "hidden", "visible"}] /\ wishes \in 0..MaxWishes
        /\ window[p] \in {"none", "hidden", "visible"}
    BY DEF ShareTypeOK, AnyCommand
  <1>1. ASSUME NEW w \in {"none", "hidden", "visible"}, window' = [window EXCEPT ![p] = w]
        PROVE  /\ window' \in [Core -> {"none", "hidden", "visible"}] /\ window'[p] = w
               /\ \A q \in Core \ {p} : window'[q] = window[q]
    BY <1>0, <1>1
  <1>2. Hidden(window[p]) \in {"none", "hidden", "visible"} /\ Hidden(window[p]) # "visible"
    BY <1>0 DEF Hidden
  <1>3. ASSUME NEW type \in {"share", "stop", "open"}, NEW next \in {<<>>, <<"unmute">>},
               NEW on \in BOOLEAN, LoopTakes(p, type), ui' = Took(ui, p),
               StopScreenshare(p, next, on),
               UNCHANGED <<call, track, events, publisher, wishes>>,
               \/ type = "share" /\ window' = [window EXCEPT ![p] = Hidden(@)]
               \/ type = "stop" /\ UNCHANGED window
               \/ /\ type = "open"
                  /\ \E w \in {"none", "visible"} : window' = [window EXCEPT ![p] = w]
        PROVE  ShareTypeOK' /\ LoopEffect(p)
    <2>2. /\ window' \in [Core -> {"none", "hidden", "visible"}]
          /\ \A q \in Core \ {p} : window'[q] = window[q]
          /\ window'[p] \in {"none", "hidden", "visible"}
          /\ type # "open" => (window[p] # "visible" => window'[p] # "visible")
      <3>1. CASE type = "share" /\ window' = [window EXCEPT ![p] = Hidden(@)]
        BY <1>0, <1>2, <3>1
      <3>2. CASE type = "stop" /\ UNCHANGED window
        BY <1>0, <3>2
      <3>3. CASE type = "open" /\ \E w \in {"none", "visible"} : window' = [window EXCEPT ![p] = w]
        BY <1>0, <3>3
      <3> QED BY <1>3, <3>1, <3>2, <3>3
    <2>3. /\ call[p] # "before" /\ ui' \in [Core -> Seq(AnyNotice)]
          /\ \A q \in Core \ {p} : ui'[q] = ui[q]
          /\ Closing(ui[p], window[p]) => Closing(ui'[p], window'[p])
      <3>1. type # "close"
        BY <1>3
      <3> QED BY <1>0, <1>3, <2>2, <3>1, LoopTakesType
    <2>4. /\ commands' \in [Core -> Seq(AnyCommand)] /\ capturing' \in [Core -> BOOLEAN]
          /\ sharers' \in [Core -> SUBSET Core] /\ active' \in [Core -> BOOLEAN]
          /\ \A q \in Core \ {p} : /\ commands'[q] = commands[q] /\ capturing'[q] = capturing[q]
                                   /\ sharers'[q] = sharers[q]
          /\ sharers'[p] \ {p} = sharers[p] \ {p}
          /\ EndsIn(commands'[p], Switches, Switch(capturing'[p]))
          /\ ~Lacks(commands'[p], {"mute"})
      BY <1>3, StopScreenshareEffect
    <2>5. ShareTypeOK'
      BY <1>0, <1>3, <2>2, <2>3, <2>4 DEF ShareTypeOK, AnyCommand
    <2>6. LoopEffect(p)
      BY <1>3, <2>2, <2>3, <2>4 DEF LoopEffect
    <2> QED BY <2>5, <2>6
  <1>4. CASE CloseWindow(p)
    <2>1. /\ LoopTakes(p, "close") /\ ui' = Took(ui, p)
          /\ UNCHANGED <<call, track, events, publisher, wishes, capturing, commands, sharers>>
          /\ window' = [window EXCEPT ![p] = Hidden(@)] /\ active' = [active EXCEPT ![p] = FALSE]
      BY <1>4 DEF CloseWindow, livekit
    <2>2. /\ window' \in [Core -> {"none", "hidden", "visible"}] /\ window'[p] # "visible"
          /\ \A q \in Core \ {p} : window'[q] = window[q]
          /\ window'[p] \in {"none", "hidden", "visible"}
          /\ active' \in [Core -> BOOLEAN]
      BY <1>0, <1>2, <2>1
    <2>3. /\ call[p] # "before" /\ ui' \in [Core -> Seq(AnyNotice)]
          /\ \A q \in Core \ {p} : ui'[q] = ui[q]
          /\ ~Lacks(ui[p], Opens) => ~Lacks(ui'[p], Opens)
          /\ Closing(ui[p], window[p]) => Closing(ui'[p], window'[p])
      BY <1>0, <2>1, <2>2, LoopTakesType
    <2>4. ShareTypeOK'
      BY <1>0, <2>1, <2>2, <2>3 DEF ShareTypeOK, AnyCommand
    <2>5. LoopEffect(p)
      BY <2>1, <2>2, <2>3 DEF LoopEffect
    <2> QED BY <2>4, <2>5
  <1>5. CASE CallEnd(p)
    <2>1. /\ LoopTakes(p, "callEnd") /\ ui' = Took(ui, p)
          /\ UNCHANGED <<call, track, events, publisher, wishes>>
          /\ commands' = [commands EXCEPT ![p] = @ \o <<"mute", "destroy">>]
          /\ capturing' = [capturing EXCEPT ![p] = FALSE]
          /\ sharers' = [sharers EXCEPT ![p] = @ \ {p}]
          /\ window' = [window EXCEPT ![p] = Hidden(@)] /\ active' = [active EXCEPT ![p] = FALSE]
      BY <1>5 DEF CallEnd, livekit
    <2>2. /\ window' \in [Core -> {"none", "hidden", "visible"}] /\ window'[p] # "visible"
          /\ \A q \in Core \ {p} : window'[q] = window[q]
          /\ window'[p] \in {"none", "hidden", "visible"}
          /\ active' \in [Core -> BOOLEAN]
      BY <1>0, <1>2, <2>1
    <2>3. /\ call[p] # "before" /\ ui' \in [Core -> Seq(AnyNotice)]
          /\ \A q \in Core \ {p} : ui'[q] = ui[q]
          /\ Closing(ui[p], window[p]) => Closing(ui'[p], window'[p])
      BY <1>0, <2>1, <2>2, LoopTakesType
    <2>4. /\ capturing' \in [Core -> BOOLEAN] /\ capturing'[p] = FALSE
          /\ sharers' \in [Core -> SUBSET Core] /\ sharers'[p] \ {p} = sharers[p] \ {p}
          /\ \A q \in Core \ {p} : /\ commands'[q] = commands[q] /\ capturing'[q] = capturing[q]
                                   /\ sharers'[q] = sharers[q]
      BY <1>0, <2>1
    <2>5. /\ commands'[p] = commands[p] \o <<"mute", "destroy">>
          /\ commands' \in [Core -> Seq(AnyCommand)]
          /\ EndsIn(commands'[p], Switches, Switch(FALSE)) /\ ~Lacks(commands'[p], {"mute"})
      BY <1>0, <2>1, CommandQueue
    <2>6. ShareTypeOK'
      BY <1>0, <2>1, <2>2, <2>3, <2>4, <2>5 DEF ShareTypeOK, AnyCommand
    <2>7. LoopEffect(p)
      BY <2>1, <2>2, <2>3, <2>4, <2>5 DEF LoopEffect
    <2> QED BY <2>6, <2>7
  <1>6. CASE Share(p)
    BY <1>3, <1>6 DEF Share, livekit
  <1>7. CASE ShareFails(p)
    BY <1>3, <1>7 DEF ShareFails, livekit
  <1>8. CASE StopShare(p)
    BY <1>3, <1>8 DEF StopShare, livekit
  <1>9. CASE OpenWindow(p)
    BY <1>3, <1>9 DEF OpenWindow, StopOwn, livekit
  <1> QED BY <1>4, <1>5, <1>6, <1>7, <1>8, <1>9 DEF EventLoop

--------------------------------------------------------------------------------
(* handle_room_events. *)

\* What an event taken from p's queue leaves of it, and what the handler does with it.
EventEffect(p, h) ==
    /\ events[p] # <<>> /\ h = Head(events[p]) /\ events' = Took(events, p)
    /\ UNCHANGED <<call, track, capturing, commands, window>>
    /\ \/ h \in OnFrom(Core) /\ StreamStarts(p, h.from)
       \/ h \in OffFrom(Core) /\ StreamEnds(p, h.from)
       \/ /\ h.type = "gone" /\ UNCHANGED <<publisher, ui>>
          /\ sharers' = [sharers EXCEPT ![p] = @ \ {h.from}]

LEMMA EventEffects ==
  ASSUME ShareInv, NEW p \in Core, RoomEvents(p)
  PROVE  EventEffect(p, Head(events[p])) /\ UNCHANGED <<active, wishes>>
  <1> DEFINE h == Head(events[p])
  <1>1. \A type : TakesEvent(p, type) => events[p] # <<>> /\ h \in AnyNotice /\ h.type = type
    BY TailQueue DEF ShareInv, ShareTypeOK, TakesEvent
  <1>2. \A type : TakesEvent(p, type) =>
          /\ type \in {"unmuted", "subscribed"} => h \in OnFrom(Core)
          /\ type \in {"muted", "unsubscribed"} => h \in OffFrom(Core)
    BY <1>1 DEF AnyNotice, OnFrom, OffFrom
  <1> HIDE DEF h
  <1>3. CASE ShareUnmuted(p) \/ ShareSubscribed(p)
    BY <1>1, <1>2, <1>3 DEF ShareUnmuted, ShareSubscribed, EventEffect, h
  <1>4. CASE ShareMuted(p) \/ ShareUnsubscribed(p)
    BY <1>1, <1>2, <1>4 DEF ShareMuted, ShareUnsubscribed, EventEffect, h
  <1>5. CASE ParticipantGone(p)
    BY <1>1, <1>5 DEF ParticipantGone, EventEffect, local, h
  <1> QED BY <1>3, <1>4, <1>5 DEF RoomEvents, h

\* An event of anyone else, and the queue behind it.
LEMMA EventTaken ==
  ASSUME ShareInv, NEW p \in Core, NEW h, EventEffect(p, h)
  PROVE  /\ h \in AnyNotice /\ h.from \in Core \ {p} /\ call[p] # "before"
         /\ \A q \in Core : h \in OnFrom({q}) <=> h \in OnFrom(Core) /\ h.from = q
         /\ \A q \in Core : h \in OffFrom({q}) <=> h \in OffFrom(Core) /\ h.from = q
         /\ h \in OnFrom(Core) => h \notin OffFrom(Core) /\ h.type # "gone"
         /\ h \in OffFrom(Core) => h.type # "gone"
         /\ \A q \in Core : call[q] # "after" => ~(h.type = "gone" /\ h.from = q)
         /\ events' \in [Core -> Seq(AnyNotice)]
         /\ \A q \in Core \ {p} : events'[q] = events[q]
         /\ \A S : Lacks(events[p], S) <=> h \notin S /\ Lacks(events'[p], S)
         /\ \A S, T : EndsIn(events[p], S, T)
                      => EndsIn(events'[p], S, T) \/ (h \in T /\ Lacks(events'[p], S))
  <1> USE DEF ShareInv
  <1>1. /\ events \in [Core -> Seq(AnyNotice)] /\ events[p] \in Seq(AnyNotice)
        /\ events[p] # <<>> /\ h = Head(events[p]) /\ events' = Took(events, p)
    BY DEF ShareTypeOK, EventEffect
  <1>2. h \in AnyNotice /\ Tail(events[p]) \in Seq(AnyNotice)
    BY <1>1, TailQueue
  <1>3. /\ events' \in [Core -> Seq(AnyNotice)] /\ events'[p] = Tail(events[p])
        /\ \A q \in Core \ {p} : events'[q] = events[q]
    BY <1>1, <1>2 DEF Took
  <1>4. \A S : Lacks(events[p], S) <=> h \notin S /\ Lacks(events'[p], S)
    BY ZenonT(60), <1>1, <1>3, TailQueue
  <1>5. \A S, T : EndsIn(events[p], S, T)
                  => EndsIn(events'[p], S, T) \/ (h \in T /\ Lacks(events'[p], S))
    BY <1>1, <1>3, TailQueue
  <1>6. h \notin [type : EventType, from : {p}] /\ call[p] # "before"
    BY <1>1, <1>4 DEF Members, ShareTypeOK
  <1>7. h.from \in Core \ {p}
    BY <1>2, <1>6 DEF AnyNotice
  <1>8. \A q \in Core : call[q] # "after" => h \notin GoneOf({q})
    BY <1>4 DEF Members
  <1>9. \A q \in Core : call[q] # "after" => ~(h.type = "gone" /\ h.from = q)
    BY <1>2, <1>8 DEF AnyNotice, GoneOf
  <1> QED BY <1>2, <1>3, <1>4, <1>5, <1>6, <1>7, <1>9 DEF AnyNotice, OnFrom, OffFrom

LEMMA PostEffect ==
  ASSUME ui \in [Core -> Seq(AnyNotice)], NEW p \in Core, NEW m \in AnyNotice
  PROVE  /\ Post(ui, p, m) \in [Core -> Seq(AnyNotice)]
         /\ Post(ui, p, m)[p] = Append(ui[p], m)
         /\ \A q \in Core \ {p} : Post(ui, p, m)[q] = ui[q]
         /\ ~Lacks(ui[p], Opens) => ~Lacks(Post(ui, p, m)[p], Opens)
         /\ m \in Opens => ~Lacks(Post(ui, p, m)[p], Opens)
         /\ m \in Closes => EndsIn(Post(ui, p, m)[p], Opens \cup Closes, Closes)
  <1>1. ui[p] \in Seq(AnyNotice)
    OBVIOUS
  <1>2. Append(ui[p], m) \in Seq(AnyNotice)
    BY <1>1, AppendQueue
  <1>3. Lacks(Append(ui[p], m), Opens) <=> Lacks(ui[p], Opens) /\ m \notin Opens
    BY <1>1, AppendQueue
  <1>4. m \in Closes => EndsIn(Append(ui[p], m), Opens \cup Closes, Closes)
    BY <1>1, AppendQueue
  <1>5. /\ Post(ui, p, m) \in [Core -> Seq(AnyNotice)]
        /\ Post(ui, p, m)[p] = Append(ui[p], m)
        /\ \A q \in Core \ {p} : Post(ui, p, m)[q] = ui[q]
    BY <1>2 DEF Post
  <1> QED BY <1>3, <1>4, <1>5

\* What the handler makes of the participants map and of the share that is shown.
MapEffect(p, h) ==
    /\ publisher' \in [Core -> Core \cup {None}] /\ sharers' \in [Core -> SUBSET Core]
    /\ ui' \in [Core -> Seq(AnyNotice)]
    /\ \A q \in Core \ {p} :
         publisher'[q] = publisher[q] /\ sharers'[q] = sharers[q] /\ ui'[q] = ui[q]
    /\ ~Lacks(ui[p], Opens) => ~Lacks(ui'[p], Opens)

StartShown(p, h) ==
    /\ publisher'[p] = h.from /\ ~Lacks(ui'[p], Opens)
    /\ call[p] # "after" => h.from \in sharers'[p]
EndShown(p) == publisher'[p] = None /\ EndsIn(ui'[p], Opens \cup Closes, Closes)
NotShown(p, h) ==
    /\ UNCHANGED <<publisher, ui>>
    /\ \A q \in Core : q \in sharers[p] /\ (h.type = "gone" => h.from # q) => q \in sharers'[p]

LEMMA EventKeepsMap ==
  ASSUME ShareInv, NEW p \in Core, NEW h, EventEffect(p, h)
  PROVE  /\ MapEffect(p, h)
         /\ h \in OnFrom(Core) => StartShown(p, h)
         /\ h \in OffFrom(Core) /\ publisher[p] = h.from => EndShown(p)
         /\ h \notin OnFrom(Core) /\ ~(h \in OffFrom(Core) /\ publisher[p] = h.from)
            => NotShown(p, h)
  <1>1. /\ publisher \in [Core -> Core \cup {None}] /\ sharers \in [Core -> SUBSET Core]
        /\ ui \in [Core -> Seq(AnyNotice)]
    BY DEF ShareInv, ShareTypeOK
  <1>2. /\ h.from \in Core
        /\ h \in OnFrom(Core) => h \notin OffFrom(Core) /\ h.type # "gone"
        /\ h \in OffFrom(Core) => h.type # "gone"
    BY EventTaken
  <1>3. /\ Notice("open", h.from) \in AnyNotice /\ Notice("open", h.from) \in Opens
        /\ Notice("close", h.from) \in AnyNotice /\ Notice("close", h.from) \in Closes
    BY <1>2 DEF Notice, AnyNotice, EventType, Opens, Closes
  <1>4. CASE h \in OnFrom(Core)
    <2>1. StreamStarts(p, h.from)
      BY <1>2, <1>4 DEF EventEffect
    <2>2. /\ publisher' \in [Core -> Core \cup {None}] /\ sharers' \in [Core -> SUBSET Core]
          /\ \A q \in Core \ {p} : publisher'[q] = publisher[q] /\ sharers'[q] = sharers[q]
          /\ publisher'[p] = h.from /\ (call[p] # "after" => h.from \in sharers'[p])
      BY <1>1, <1>2, <2>1 DEF StreamStarts
    <2>3. ui' = Post(ui, p, Notice("open", h.from))
      BY <2>1 DEF StreamStarts
    <2>4. /\ ui' \in [Core -> Seq(AnyNotice)] /\ \A q \in Core \ {p} : ui'[q] = ui[q]
          /\ ~Lacks(ui'[p], Opens)
      BY <1>1, <1>3, <2>3, PostEffect
    <2>5. MapEffect(p, h) /\ StartShown(p, h)
      BY <2>2, <2>4 DEF MapEffect, StartShown
    <2> QED BY <1>2, <1>4, <2>5
  <1>5. CASE h \in OffFrom(Core) /\ publisher[p] = h.from
    <2>1. StreamEnds(p, h.from) /\ OfCurrent(p, h.from)
      BY <1>2, <1>5 DEF EventEffect, OfCurrent
    <2>2. /\ publisher' \in [Core -> Core \cup {None}] /\ sharers' \in [Core -> SUBSET Core]
          /\ \A q \in Core \ {p} : publisher'[q] = publisher[q] /\ sharers'[q] = sharers[q]
          /\ publisher'[p] = None
      BY <1>1, <1>2, <2>1 DEF StreamEnds
    <2>3. ui' = Post(ui, p, Notice("close", h.from))
      BY <2>1 DEF StreamEnds
    <2>4. /\ ui' \in [Core -> Seq(AnyNotice)] /\ \A q \in Core \ {p} : ui'[q] = ui[q]
          /\ EndsIn(ui'[p], Opens \cup Closes, Closes)
          /\ ~Lacks(ui[p], Opens) => ~Lacks(ui'[p], Opens)
      BY <1>1, <1>3, <2>3, PostEffect
    <2>5. MapEffect(p, h) /\ EndShown(p)
      BY <2>2, <2>4 DEF MapEffect, EndShown
    <2> QED BY <1>2, <1>5, <2>5
  <1>6. CASE h \notin OnFrom(Core) /\ ~(h \in OffFrom(Core) /\ publisher[p] = h.from)
    <2>1. /\ UNCHANGED <<publisher, ui>>
          /\ \/ sharers' = sharers
             \/ h.type = "gone" /\ sharers' = [sharers EXCEPT ![p] = @ \ {h.from}]
      <3>1. CASE h \in OffFrom(Core) /\ StreamEnds(p, h.from)
        <4>1. ~OfCurrent(p, h.from)
          BY <1>6, <3>1 DEF OfCurrent
        <4> QED BY <3>1, <4>1 DEF StreamEnds
      <3>2. CASE h.type = "gone" /\ UNCHANGED <<publisher, ui>>
                 /\ sharers' = [sharers EXCEPT ![p] = @ \ {h.from}]
        BY <3>2
      <3> QED BY <1>6, <3>1, <3>2 DEF EventEffect
    <2>2. /\ sharers' \in [Core -> SUBSET Core]
          /\ \A q \in Core \ {p} : sharers'[q] = sharers[q]
          /\ \A q \in Core : q \in sharers[p] /\ (h.type = "gone" => h.from # q)
                             => q \in sharers'[p]
      BY <1>1, <2>1
    <2>3. MapEffect(p, h) /\ NotShown(p, h)
      BY <1>1, <2>1, <2>2 DEF MapEffect, NotShown
    <2> QED BY <1>6, <2>3
  <1> QED BY <1>4, <1>5, <1>6

LEMMA EventKeeps ==
  ASSUME ShareInv, NEW p \in Core, NEW h, EventEffect(p, h), UNCHANGED <<active, wishes>>
  PROVE  ShareInv'
  <1> USE DEF ShareInv
  <1>0. UNCHANGED <<call, track, capturing, commands, window, active, wishes>>
    BY DEF EventEffect
  <1>a. /\ h \in AnyNotice /\ h.from \in Core \ {p} /\ call[p] # "before"
        /\ \A q \in Core : h \in OnFrom({q}) <=> h \in OnFrom(Core) /\ h.from = q
        /\ \A q \in Core : h \in OffFrom({q}) <=> h \in OffFrom(Core) /\ h.from = q
        /\ h \in OnFrom(Core) => h \notin OffFrom(Core) /\ h.type # "gone"
        /\ h \in OffFrom(Core) => h.type # "gone"
        /\ \A q \in Core : call[q] # "after" => ~(h.type = "gone" /\ h.from = q)
    BY EventTaken
  <1>b. events' \in [Core -> Seq(AnyNotice)] /\ \A q \in Core \ {p} : events'[q] = events[q]
    BY EventTaken
  <1>c. \A S : Lacks(events[p], S) <=> h \notin S /\ Lacks(events'[p], S)
    BY EventTaken
  <1>d. \A S, T : EndsIn(events[p], S, T)
                  => EndsIn(events'[p], S, T) \/ (h \in T /\ Lacks(events'[p], S))
    BY EventTaken
  <1>e. /\ publisher' \in [Core -> Core \cup {None}] /\ sharers' \in [Core -> SUBSET Core]
        /\ ui' \in [Core -> Seq(AnyNotice)]
        /\ \A q \in Core \ {p} :
             publisher'[q] = publisher[q] /\ sharers'[q] = sharers[q] /\ ui'[q] = ui[q]
        /\ ~Lacks(ui[p], Opens) => ~Lacks(ui'[p], Opens)
    BY EventKeepsMap DEF MapEffect
  <1>f. h \in OnFrom(Core) =>
          /\ publisher'[p] = h.from /\ ~Lacks(ui'[p], Opens)
          /\ call[p] # "after" => h.from \in sharers'[p]
    BY EventKeepsMap DEF StartShown
  <1>g. h \in OffFrom(Core) /\ publisher[p] = h.from =>
          publisher'[p] = None /\ EndsIn(ui'[p], Opens \cup Closes, Closes)
    BY EventKeepsMap DEF EndShown
  <1>h. h \notin OnFrom(Core) /\ ~(h \in OffFrom(Core) /\ publisher[p] = h.from) =>
          /\ UNCHANGED <<publisher, ui>>
          /\ \A q \in Core : q \in sharers[p] /\ (h.type = "gone" => h.from # q)
                             => q \in sharers'[p]
    BY EventKeepsMap DEF NotShown
  <1>1. ShareTypeOK'
    <2>1. \A q \in Core : call[q] = "before" => ~track[q] /\ events'[q] = <<>>
      BY <1>a, <1>b, <1>c, <1>d DEF ShareTypeOK
    <2> QED BY <1>0, <2>1, <1>a, <1>b, <1>c, <1>d, <1>e, <1>f, <1>g, <1>h DEF ShareTypeOK
  <1>2. Members'
    <2> SUFFICES ASSUME NEW x \in Core
                 PROVE  /\ call[x] = "before" => ui'[x] = <<>> /\ publisher'[x] = None
                        /\ publisher'[x] # x /\ Lacks(events'[x], [type : EventType, from : {x}])
                        /\ \A q \in Core : call[q] # "after" => Lacks(events'[x], GoneOf({q}))
      BY <1>0 DEF Members, InCall, Lacks
    <2>1. CASE x # p
      <3>1. /\ events'[x] = events[x] /\ publisher'[x] = publisher[x] /\ ui'[x] = ui[x]
        BY <2>1, <1>b, <1>e
      <3> QED BY <3>1 DEF Members
    <2>2. CASE x = p
      <3>1. publisher'[p] # p
        <4>1. publisher[p] # p
          BY DEF Members
        <4> QED BY <4>1, <1>a, <1>f, <1>g, <1>h, CoreAssumption
      <3>2. /\ Lacks(events'[p], [type : EventType, from : {p}])
            /\ \A q \in Core : call[q] # "after" => Lacks(events'[p], GoneOf({q}))
        BY <1>a, <1>b, <1>c, <1>d DEF Members
      <3> QED BY <2>2, <3>1, <3>2, <1>a, <1>b, <1>c, <1>d
    <2> QED BY <2>1, <2>2
  <1>3. OwnTrack'
    BY <1>0 DEF OwnTrack, InCall, Settles
  <1>4. \A q \in Core : Stops(q) => Stops(q)'
    <2> SUFFICES ASSUME NEW q \in Core, Stops(q) PROVE Stops(q)'
      OBVIOUS
    <2>1. CASE q # p
      <3>1. events'[q] = events[q] /\ ui'[q] = ui[q]
        BY <2>1, <1>a, <1>b, <1>c, <1>d, <1>e, <1>f, <1>g, <1>h
      <3> QED BY <1>0, <3>1 DEF Stops
    <2>2. CASE q = p
      <3>1. ~Lacks(events[p], OnFrom(Core)) =>
              ~Lacks(events'[p], OnFrom(Core)) \/ ~Lacks(ui'[p], Opens)
        BY <1>a, <1>b, <1>c, <1>d, <1>e, <1>f, <1>g, <1>h
      <3>2. ~Lacks(ui[p], Opens) => ~Lacks(ui'[p], Opens)
        BY <1>e, <1>f, <1>g, <1>h
      <3> QED BY <1>0, <2>2, <3>1, <3>2 DEF Stops
    <2> QED BY <2>1, <2>2
  <1>5. OneGivesWay'
    BY <1>0, <1>4 DEF OneGivesWay
  <1>6. SharesAreSeen'
    <2> SUFFICES ASSUME NEW x \in Core \ Latecomers, NEW q \in Core, x # q, InCall(x), track[q],
                        Leads(x, q)
                 PROVE  Leads(x, q)'
      BY <1>0, <1>4 DEF SharesAreSeen, InCall
    <2>1. CASE x # p
      <3>1. /\ events'[x] = events[x] /\ publisher'[x] = publisher[x]
            /\ sharers'[x] = sharers[x]
        BY <2>1, <1>a, <1>b, <1>c, <1>d, <1>e, <1>f, <1>g, <1>h
      <3> QED BY <3>1 DEF Leads
    <2>2. CASE x = p
      <3> PICK S : S = OnFrom(Core) \cup OffFrom({q})
        OBVIOUS
      <3>1. CASE EndsIn(events[p], S, OnFrom({q}))
        <4>1. EndsIn(events'[p], S, OnFrom({q})) \/ (h \in OnFrom({q}) /\ Lacks(events'[p], S))
          BY <3>1, <1>a, <1>b, <1>c, <1>d
        <4>2. h \in OnFrom({q}) => publisher'[p] = q /\ q \in sharers'[p]
          BY <2>2, <1>a, <1>b, <1>c, <1>d, <1>e, <1>f, <1>g, <1>h DEF InCall
        <4> QED BY <2>2, <4>1, <4>2 DEF Leads
      <3>2. CASE Lacks(events[p], S) /\ publisher[p] = q /\ q \in sharers[p]
        <4>1. h \notin S /\ Lacks(events'[p], S)
          BY <3>2, <1>a, <1>b, <1>c, <1>d
        <4>2. call[q] # "after"
          BY DEF Members, InCall
        <4>3. h \notin OnFrom(Core) /\ ~(h \in OffFrom(Core) /\ publisher[p] = h.from)
          BY <3>2, <4>1, <1>a, <1>b, <1>c, <1>d
        <4>4. publisher'[p] = q /\ q \in sharers'[p]
          BY <3>2, <4>2, <4>3, <1>a, <1>b, <1>c, <1>d, <1>e, <1>f, <1>g, <1>h
        <4> QED BY <2>2, <4>1, <4>4 DEF Leads
      <3> QED BY <2>2, <3>1, <3>2 DEF Leads
    <2> QED BY <2>1, <2>2
  <1>7. EndsAreSeen'
    <2> SUFFICES ASSUME NEW x \in Core, NEW q \in Core, x # q, Over(x, q)
                 PROVE  Over(x, q)'
      BY <1>0 DEF EndsAreSeen, InCall
    <2>1. CASE x # p
      <3>1. events'[x] = events[x] /\ publisher'[x] = publisher[x]
        BY <2>1, <1>a, <1>b, <1>c, <1>d, <1>e, <1>f, <1>g, <1>h
      <3> QED BY <3>1 DEF Over
    <2>2. CASE x = p
      <3>1. CASE EndsIn(events[p], NewsOf(q), OffFrom({q}))
        <4>1. \/ EndsIn(events'[p], NewsOf(q), OffFrom({q}))
              \/ h \in OffFrom({q}) /\ Lacks(events'[p], NewsOf(q))
          BY <3>1, <1>a, <1>b, <1>c, <1>d
        <4>2. h \in OffFrom({q}) => publisher'[p] # q
          BY <1>a, <1>b, <1>c, <1>d, <1>e, <1>f, <1>g, <1>h, CoreAssumption
        <4> QED BY <2>2, <4>1, <4>2 DEF Over
      <3>2. CASE Lacks(events[p], NewsOf(q)) /\ publisher[p] # q
        <4>1. h \notin NewsOf(q) /\ Lacks(events'[p], NewsOf(q))
          BY <3>2, <1>a, <1>b, <1>c, <1>d
        <4>2. h \in OnFrom(Core) => h.from # q
          BY <4>1, <1>a, <1>b, <1>c, <1>d DEF NewsOf
        <4>3. publisher'[p] # q
          BY <3>2, <4>2, <1>e, <1>f, <1>g, <1>h, CoreAssumption
        <4> QED BY <2>2, <4>1, <4>3 DEF Over
      <3> QED BY <2>2, <3>1, <3>2 DEF Over
    <2> QED BY <2>1, <2>2
  <1>8. WindowCloses'
    <2> SUFFICES ASSUME NEW q \in Core, InCall(q), publisher'[q] = None
                 PROVE  Closing(ui'[q], window[q])
      BY <1>0 DEF WindowCloses, InCall, Closing
    <2>1. publisher[q] = None => Closing(ui[q], window[q])
      BY DEF WindowCloses
    <2>2. CASE q # p
      BY <2>1, <2>2, <1>e, <1>f, <1>g, <1>h
    <2>3. CASE q = p
      <3>1. h \notin OnFrom(Core)
        BY <2>3, <1>a, <1>b, <1>c, <1>d, <1>e, <1>f, <1>g, <1>h, CoreAssumption
      <3>2. CASE h \in OffFrom(Core) /\ publisher[p] = h.from
        BY <2>3, <3>2, <1>e, <1>f, <1>g, <1>h DEF Closing
      <3>3. CASE ~(h \in OffFrom(Core) /\ publisher[p] = h.from)
        <4>1. UNCHANGED <<publisher, ui>>
          BY <3>1, <3>3, <1>e, <1>f, <1>g, <1>h
        <4> QED BY <2>1, <4>1
      <3> QED BY <3>2, <3>3
    <2> QED BY <2>2, <2>3
  <1> QED BY <1>1, <1>2, <1>3, <1>5, <1>6, <1>7, <1>8

--------------------------------------------------------------------------------
(* The room service and LiveKit. *)

\* The news m and n, which may be one, reach x.
Added(x, m, n) ==
    /\ \A S : Lacks(events'[x], S) <=> Lacks(events[x], S) /\ m \notin S /\ n \notin S
    /\ \A S, T : n \in T => EndsIn(events'[x], S, T)
    /\ \A S, T : m \in T /\ n \notin S => EndsIn(events'[x], S, T)
    /\ \A S, T : m \notin S /\ n \notin S /\ EndsIn(events[x], S, T) => EndsIn(events'[x], S, T)

LEMMA ToldQueues ==
  ASSUME ShareInv, NEW p \in Core, NEW m \in AnyNotice, NEW n \in AnyNotice,
         (m = n /\ events' = Told(p, <<m>>)) \/ events' = Told(p, <<m, n>>)
  PROVE  /\ events' \in [Core -> Seq(AnyNotice)]
         /\ \A x \in Core : x = p \/ ~InCall(x) => events'[x] = events[x]
         /\ \A x \in Core : x # p /\ InCall(x) => Added(x, m, n)
  <1>1. events \in [Core -> Seq(AnyNotice)]
    BY DEF ShareInv, ShareTypeOK
  <1>2. \A x \in Core :
          /\ events[x] \in Seq(AnyNotice)
          /\ events[x] \o <<m>> = Append(events[x], m)
          /\ events[x] \o <<m, n>> = Append(Append(events[x], m), n)
          /\ Append(events[x], m) \in Seq(AnyNotice)
    BY <1>1, ConcatQueue, AppendQueue
  <1>3. \A x \in Core : Append(Append(events[x], m), n) \in Seq(AnyNotice)
    BY <1>2, AppendQueue
  <1>4. \A x \in Core : x = p \/ ~InCall(x) => events'[x] = events[x]
    BY DEF Told
  <1>5. \A x \in Core : x # p /\ InCall(x) =>
          \/ m = n /\ events'[x] = Append(events[x], m)
          \/ events'[x] = Append(Append(events[x], m), n)
    BY <1>2 DEF Told
  <1>6. events' \in [Core -> Seq(AnyNotice)]
    <2>1. DOMAIN events' = Core /\ events' = [x \in Core |-> events'[x]]
      BY DEF Told
    <2>2. \A x \in Core : events'[x] \in Seq(AnyNotice)
      BY <1>2, <1>3, <1>4, <1>5
    <2> QED BY <2>1, <2>2
  <1>7. ASSUME NEW x \in Core, x # p, InCall(x) PROVE Added(x, m, n)
    <2> DEFINE a == Append(events[x], m)
    <2>1. a \in Seq(AnyNotice)
      BY <1>2
    <2>2. /\ \A S : Lacks(a, S) <=> Lacks(events[x], S) /\ m \notin S
          /\ \A S, T : m \in T => EndsIn(a, S, T)
          /\ \A S, T : m \notin S /\ EndsIn(events[x], S, T) => EndsIn(a, S, T)
      BY <1>2, AppendQueue
    <2> HIDE DEF a
    <2>3. /\ \A S : Lacks(Append(a, n), S) <=> Lacks(a, S) /\ n \notin S
          /\ \A S, T : n \in T => EndsIn(Append(a, n), S, T)
          /\ \A S, T : n \notin S /\ EndsIn(a, S, T) => EndsIn(Append(a, n), S, T)
      BY <2>1, AppendQueue
    <2>4. CASE m = n /\ events'[x] = a
      BY <2>2, <2>4 DEF Added
    <2>5. CASE events'[x] = Append(a, n)
      BY <2>2, <2>3, <2>5 DEF Added
    <2> QED BY <1>5, <1>7, <2>4, <2>5 DEF a
  <1> QED BY <1>4, <1>6, <1>7

\* A command that p's room service has taken.
LEMMA CommandTaken ==
  ASSUME ShareInv, NEW p \in Core, commands[p] # <<>>, commands' = Took(commands, p)
  PROVE  /\ Head(commands[p]) \in AnyCommand /\ commands' \in [Core -> Seq(AnyCommand)]
         /\ \A q \in Core \ {p} : commands'[q] = commands[q]
         /\ \A S : Lacks(commands[p], S) <=> Head(commands[p]) \notin S /\ Lacks(commands'[p], S)
         /\ \A S, T : EndsIn(commands[p], S, T)
              => EndsIn(commands'[p], S, T) \/ (Head(commands[p]) \in T /\ Lacks(commands'[p], S))
         /\ call[p] # "before"
  <1>1. commands \in [Core -> Seq(AnyCommand)] /\ commands[p] \in Seq(AnyCommand)
    BY DEF ShareInv, ShareTypeOK, AnyCommand
  <1>2. Head(commands[p]) \in AnyCommand /\ Tail(commands[p]) \in Seq(AnyCommand)
    BY <1>1, TailQueue
  <1>3. /\ commands' \in [Core -> Seq(AnyCommand)] /\ commands'[p] = Tail(commands[p])
        /\ \A q \in Core \ {p} : commands'[q] = commands[q]
    BY <1>1, <1>2 DEF Took
  <1>4. \A S : Lacks(commands[p], S) <=> Head(commands[p]) \notin S /\ Lacks(commands'[p], S)
    BY ZenonT(60), <1>1, <1>3, TailQueue
  <1>5. \A S, T : EndsIn(commands[p], S, T)
          => EndsIn(commands'[p], S, T) \/ (Head(commands[p]) \in T /\ Lacks(commands'[p], S))
    BY <1>1, <1>3, TailQueue
  <1>6. call[p] # "before"
    BY DEF ShareInv, Members
  <1> QED BY <1>2, <1>3, <1>4, <1>5, <1>6

\* The track is muted or unmuted; n is what the others hear, if anything changes.
LEMMA SetTrackKeeps ==
  ASSUME ShareInv, NEW p \in Core, SetTrack(p)
  PROVE  ShareInv'
  <1> USE DEF ShareInv
  <1> DEFINE on == Head(commands[p]) = "unmute"
             n == Notice(IF on THEN "unmuted" ELSE "muted", p)
             changes == InCall(p) /\ track[p] # on
  <1>0. /\ commands[p] # <<>> /\ commands' = Took(commands, p)
        /\ Head(commands[p]) = (IF on THEN "unmute" ELSE "mute") /\ on \in BOOLEAN
        /\ UNCHANGED <<call, capturing, ui, publisher, sharers, window, active, wishes>>
    BY DEF SetTrack, remote
  <1>1. /\ changes => track' = [track EXCEPT ![p] = on] /\ events' = Told(p, <<n>>)
        /\ ~changes => UNCHANGED <<track, events>>
    BY DEF SetTrack
  <1>2. /\ n \in AnyNotice /\ (on => n \in OnFrom({p}) /\ n \in OnFrom(Core))
        /\ ~on => n \in OffFrom({p}) /\ n \notin OnFrom(Core)
        /\ \A q \in Core \ {p} : /\ n \notin OnFrom({q}) /\ n \notin OffFrom({q})
                                 /\ n \notin [type : EventType, from : {q}]
        /\ \A q \in Core : n \notin GoneOf({q})
    BY DEF Notice, AnyNotice, EventType, OnFrom, OffFrom, GoneOf
  <1> HIDE DEF on, n
  <1>3. /\ commands' \in [Core -> Seq(AnyCommand)] /\ call[p] # "before"
        /\ \A q \in Core \ {p} : commands'[q] = commands[q]
    BY <1>0, CommandTaken
  <1>4. \A S : Lacks(commands[p], S) <=> Head(commands[p]) \notin S /\ Lacks(commands'[p], S)
    BY <1>0, CommandTaken
  <1>5. \A S, T : EndsIn(commands[p], S, T)
          => EndsIn(commands'[p], S, T) \/ (Head(commands[p]) \in T /\ Lacks(commands'[p], S))
    BY <1>0, CommandTaken
  <1>6. /\ track \in [Core -> BOOLEAN] /\ track' \in [Core -> BOOLEAN]
        /\ InCall(p) => track'[p] = on
        /\ ~InCall(p) => ~track[p] /\ ~track'[p]
        /\ \A q \in Core \ {p} : track'[q] = track[q]
        /\ \A q \in Core : track[q] => InCall(q)
    <2>1. track \in [Core -> BOOLEAN] /\ \A q \in Core : track[q] => InCall(q)
      BY DEF ShareTypeOK, Members
    <2> QED BY <1>0, <1>1, <2>1
  <1>7. /\ events' \in [Core -> Seq(AnyNotice)]
        /\ \A x \in Core : x = p \/ ~InCall(x) \/ ~changes => events'[x] = events[x]
        /\ \A x \in Core : x # p /\ InCall(x) /\ changes => Added(x, n, n)
    <2>1. CASE changes
      BY <1>1, <1>2, <2>1, ToldQueues
    <2>2. CASE ~changes
      BY <1>1, <2>2 DEF ShareTypeOK
    <2> QED BY <2>1, <2>2
  <1>8. /\ changes /\ on => ~track[p] /\ track'[p]
        /\ changes /\ ~on => track[p] /\ ~track'[p]
        /\ ~changes => track' = track
    BY <1>0, <1>1, <1>6
  <1> HIDE DEF changes
  <1>9. ShareTypeOK'
    <2>1. \A q \in Core : call[q] = "before" => ~track'[q] /\ events'[q] = <<>>
      <3> SUFFICES ASSUME NEW q \in Core, call[q] = "before"
                   PROVE  ~track'[q] /\ events'[q] = <<>>
        OBVIOUS
      <3>1. q # p /\ ~InCall(q) /\ ~track[q] /\ events[q] = <<>>
        BY <1>3 DEF ShareTypeOK, InCall
      <3> QED BY <1>6, <1>7, <3>1
    <2> QED BY <1>0, <1>3, <1>6, <1>7, <2>1 DEF ShareTypeOK, AnyCommand
  <1>10. Members'
    <2> SUFFICES ASSUME NEW x \in Core
                 PROVE  /\ track'[x] => InCall(x)
                        /\ call[x] = "before" => commands'[x] = <<>>
                        /\ Lacks(events'[x], [type : EventType, from : {x}])
                        /\ \A q \in Core : call[q] # "after" => Lacks(events'[x], GoneOf({q}))
      BY <1>0 DEF Members, InCall, Lacks
    <2>1. track'[x] => InCall(x)
      BY <1>6
    <2>2. call[x] = "before" => commands'[x] = <<>>
      BY <1>3 DEF Members
    <2>3. /\ Lacks(events[x], [type : EventType, from : {x}])
          /\ \A q \in Core : call[q] # "after" => Lacks(events[x], GoneOf({q}))
      BY DEF Members
    <2>4. CASE x = p \/ ~InCall(x) \/ ~changes
      BY <1>7, <2>1, <2>2, <2>3, <2>4
    <2>5. CASE x # p /\ InCall(x) /\ changes
      <3>1. /\ Lacks(events'[x], [type : EventType, from : {x}])
            /\ \A q \in Core : call[q] # "after" => Lacks(events'[x], GoneOf({q}))
        BY <1>2, <1>7, <2>3, <2>5 DEF Added
      <3> QED BY <2>1, <2>2, <3>1
    <2> QED BY <2>4, <2>5
  <1>11. OwnTrack'
    <2> SUFFICES ASSUME NEW q \in Core, InCall(q)
                 PROVE  Settles(commands'[q], capturing[q], track'[q])
      BY <1>0 DEF OwnTrack, InCall, Settles
    <2>1. Settles(commands[q], capturing[q], track[q]) /\ capturing[q] \in BOOLEAN
      BY DEF OwnTrack, ShareTypeOK
    <2>2. CASE q # p
      BY <1>3, <1>6, <2>1, <2>2
    <2>3. CASE q = p
      <3>1. Head(commands[p]) \in Switches /\ \A b \in BOOLEAN :
              Head(commands[p]) \in Switch(b) => b = on
        BY <1>0 DEF Switches, Switch
      <3>2. \/ EndsIn(commands'[p], Switches, Switch(capturing[p]))
            \/ Head(commands[p]) \in Switch(capturing[p]) /\ Lacks(commands'[p], Switches)
        BY <1>4, <1>5, <2>1, <2>3, <3>1 DEF Settles
      <3> QED BY <1>6, <2>1, <2>3, <3>1, <3>2 DEF Settles
    <2> QED BY <2>2, <2>3
  <1>12. \A q \in Core : Stops(q) /\ track'[q] => Stops(q)'
    <2> SUFFICES ASSUME NEW q \in Core, Stops(q), track'[q] PROVE Stops(q)'
      OBVIOUS
    <2>1. ~Lacks(events[q], OnFrom(Core)) => ~Lacks(events'[q], OnFrom(Core))
      BY <1>7 DEF Added
    <2>2. ~Lacks(commands[q], {"mute"}) => ~Lacks(commands'[q], {"mute"})
      <3>1. CASE q # p
        BY <1>3, <3>1
      <3>2. CASE q = p
        <4>1. Head(commands[p]) \notin {"mute"}
          BY <1>0, <1>6, <3>2
        <4> QED BY <1>4, <3>2, <4>1
      <3> QED BY <3>1, <3>2
    <2> QED BY <1>0, <2>1, <2>2 DEF Stops
  <1>13. \A q \in Core : q # p /\ InCall(q) /\ changes /\ on => Stops(q)'
    <2> SUFFICES ASSUME NEW q \in Core, q # p, InCall(q), changes, on PROVE Stops(q)'
      OBVIOUS
    <2>1. ~Lacks(events'[q], OnFrom(Core))
      BY <1>2, <1>7 DEF Added
    <2> QED BY <2>1 DEF Stops
  <1>14. OneGivesWay'
    <2> SUFFICES ASSUME NEW x \in Core, NEW y \in Core, x # y, track'[x], track'[y]
                 PROVE  Stops(x)' \/ Stops(y)'
      BY DEF OneGivesWay
    <2>1. CASE track[x] /\ track[y]
      BY <1>12, <2>1 DEF OneGivesWay
    <2>2. CASE ~track[x]
      BY <1>6, <1>8, <1>13, <2>2
    <2>3. CASE ~track[y]
      BY <1>6, <1>8, <1>13, <2>3
    <2> QED BY <2>1, <2>2, <2>3
  <1>15. SharesAreSeen'
    <2> SUFFICES ASSUME NEW x \in Core \ Latecomers, NEW q \in Core, x # q, InCall(x), track'[q]
                 PROVE  Stops(q)' \/ Leads(x, q)'
      BY <1>0 DEF SharesAreSeen, InCall
    <2>1. CASE ~track[q]
      <3>1. q = p /\ changes /\ on
        BY <1>6, <1>8, <2>1
      <3>2. EndsIn(events'[x], OnFrom(Core) \cup OffFrom({q}), OnFrom({q}))
        BY <1>2, <1>7, <3>1 DEF Added
      <3> QED BY <3>2 DEF Leads
    <2>2. CASE track[q] /\ (x = p \/ ~changes)
      <3>1. events'[x] = events[x]
        BY <1>7, <2>2
      <3>2. Stops(q) \/ Leads(x, q)
        BY <2>2 DEF SharesAreSeen
      <3>3. Leads(x, q) => Leads(x, q)'
        BY <1>0, <3>1 DEF Leads
      <3> QED BY <1>12, <3>2, <3>3
    <2>3. CASE track[q] /\ x # p /\ changes
      <3>1. q # p /\ InCall(q)
        BY <1>6, <1>8, <2>3
      <3>2. CASE on
        BY <1>13, <2>3, <3>1, <3>2
      <3>3. CASE ~on
        <4>1. n \notin OnFrom(Core) \cup OffFrom({q})
          BY <1>2, <3>1, <3>3
        <4>2. Leads(x, q) => Leads(x, q)'
          <5>1. Added(x, n, n)
            BY <1>7, <2>3
          <5> QED BY <1>0, <4>1, <5>1 DEF Added, Leads
        <4>3. Stops(q) \/ Leads(x, q)
          BY <2>3 DEF SharesAreSeen
        <4> QED BY <1>12, <4>2, <4>3
      <3> QED BY <3>2, <3>3
    <2> QED BY <2>1, <2>2, <2>3
  <1>16. EndsAreSeen'
    <2> SUFFICES ASSUME NEW x \in Core, NEW q \in Core, x # q, InCall(x), ~track'[q]
                 PROVE  Over(x, q)'
      BY <1>0 DEF EndsAreSeen, InCall
    <2>1. CASE track[q]
      <3>1. q = p /\ changes /\ ~on
        BY <1>6, <1>8, <2>1
      <3>2. EndsIn(events'[x], NewsOf(q), OffFrom({q}))
        BY <1>2, <1>7, <3>1 DEF Added
      <3> QED BY <3>2 DEF Over
    <2>2. CASE ~track[q] /\ (x = p \/ ~changes)
      <3>1. events'[x] = events[x] /\ Over(x, q)
        BY <1>7, <2>2 DEF EndsAreSeen
      <3> QED BY <1>0, <3>1 DEF Over
    <2>3. CASE ~track[q] /\ x # p /\ changes
      <3>1. q # p
        BY <1>8, <2>3
      <3>2. n \notin NewsOf(q)
        BY <1>2, <3>1 DEF NewsOf
      <3>3. Over(x, q) /\ Added(x, n, n)
        BY <1>7, <2>3 DEF EndsAreSeen
      <3> QED BY <1>0, <3>2, <3>3 DEF Over, Added
    <2> QED BY <2>1, <2>2, <2>3
  <1>17. WindowCloses'
    BY <1>0 DEF WindowCloses, InCall, Closing
  <1> QED BY <1>9, <1>10, <1>11, <1>14, <1>15, <1>16, <1>17

\* The core leaves: the others hear that its track and it are gone.
LEMMA DestroyRoomKeeps ==
  ASSUME ShareInv, NEW p \in Core, DestroyRoom(p)
  PROVE  ShareInv'
  <1> USE DEF ShareInv
  <1> DEFINE m == Notice("unsubscribed", p)
             n == Notice("gone", p)
  <1>0. /\ commands[p] # <<>> /\ commands' = Took(commands, p)
        /\ UNCHANGED <<capturing, ui, window, active, wishes>>
        /\ call' = [call EXCEPT ![p] = "after"] /\ track' = [track EXCEPT ![p] = FALSE]
        /\ publisher' = [publisher EXCEPT ![p] = None] /\ sharers' = [sharers EXCEPT ![p] = {}]
        /\ InCall(p) => events' = Told(p, <<m, n>>)
        /\ ~InCall(p) => events' = events
    BY DEF DestroyRoom
  <1>1. /\ m \in AnyNotice /\ n \in AnyNotice /\ m \in OffFrom({p})
        /\ \A Q : m \notin OnFrom(Q) /\ n \notin OnFrom(Q) /\ n \notin OffFrom(Q)
        /\ \A q \in Core \ {p} :
             /\ m \notin OffFrom({q}) /\ m \notin GoneOf({q}) /\ n \notin GoneOf({q})
             /\ m \notin [type : EventType, from : {q}] /\ n \notin [type : EventType, from : {q}]
    BY DEF Notice, AnyNotice, EventType, OnFrom, OffFrom, GoneOf
  <1> HIDE DEF m, n
  <1>2. /\ commands' \in [Core -> Seq(AnyCommand)] /\ call[p] # "before"
        /\ \A q \in Core \ {p} : commands'[q] = commands[q]
    BY <1>0, CommandTaken
  <1>3. /\ call' \in [Core -> {"before", "in", "after"}] /\ call'[p] = "after"
        /\ track' \in [Core -> BOOLEAN] /\ ~track'[p]
        /\ publisher' \in [Core -> Core \cup {None}] /\ publisher'[p] = None
        /\ sharers' \in [Core -> SUBSET Core]
        /\ \A q \in Core \ {p} : /\ call'[q] = call[q] /\ track'[q] = track[q]
                                 /\ publisher'[q] = publisher[q] /\ sharers'[q] = sharers[q]
    BY <1>0 DEF ShareTypeOK
  <1>4. /\ events' \in [Core -> Seq(AnyNotice)]
        /\ \A x \in Core : x = p \/ ~InCall(x) \/ ~InCall(p) => events'[x] = events[x]
        /\ \A x \in Core : x # p /\ InCall(x) /\ InCall(p) => Added(x, m, n)
    <2>1. CASE InCall(p)
      BY <1>0, <1>1, <2>1, ToldQueues
    <2>2. CASE ~InCall(p)
      BY <1>0, <2>2 DEF ShareTypeOK
    <2> QED BY <2>1, <2>2
  <1>5. \A x \in Core : InCall(x)' => x # p /\ InCall(x)
    BY <1>3 DEF InCall
  <1>6. \A q \in Core : track'[q] => q # p /\ track[q]
    BY <1>3
  <1>7. ~InCall(p) => ~track[p]
    BY DEF Members
  <1>8. ShareTypeOK'
    <2>1. \A q \in Core : call'[q] = "before" => ~track'[q] /\ events'[q] = <<>>
      <3> SUFFICES ASSUME NEW q \in Core, call'[q] = "before"
                   PROVE  ~track'[q] /\ events'[q] = <<>>
        OBVIOUS
      <3>1. q # p /\ call[q] = "before"
        BY <1>3
      <3>2. ~InCall(q) /\ ~track[q] /\ events[q] = <<>>
        BY <3>1 DEF ShareTypeOK, InCall
      <3> QED BY <1>3, <1>4, <3>1, <3>2
    <2> QED BY <1>0, <1>2, <1>3, <1>4, <2>1 DEF ShareTypeOK, AnyCommand
  <1>9. Members'
    <2> SUFFICES ASSUME NEW x \in Core
                 PROVE  /\ track'[x] => InCall(x)'
                        /\ x \notin Latecomers => call'[x] # "before"
                        /\ call'[x] = "before" =>
                             /\ ui[x] = <<>> /\ commands'[x] = <<>> /\ ~capturing[x]
                             /\ publisher'[x] = None /\ window[x] # "visible"
                        /\ publisher'[x] # x
                        /\ Lacks(events'[x], [type : EventType, from : {x}])
                        /\ \A q \in Core : call'[q] # "after" => Lacks(events'[x], GoneOf({q}))
      BY <1>0 DEF Members, InCall, Lacks
    <2>1. /\ Lacks(events[x], [type : EventType, from : {x}])
          /\ \A q \in Core : call[q] # "after" => Lacks(events[x], GoneOf({q}))
      BY DEF Members
    <2>2. \A q \in Core : call'[q] # "after" => q # p /\ call[q] # "after"
      BY <1>3
    <2>3. /\ Lacks(events'[x], [type : EventType, from : {x}])
          /\ \A q \in Core : call'[q] # "after" => Lacks(events'[x], GoneOf({q}))
      <3>1. CASE x = p \/ ~InCall(x) \/ ~InCall(p)
        BY <1>4, <2>1, <2>2, <3>1
      <3>2. CASE x # p /\ InCall(x) /\ InCall(p)
        BY <1>1, <1>4, <2>1, <2>2, <3>2 DEF Added
      <3> QED BY <3>1, <3>2
    <2>4. CASE x = p
      BY <1>3, <2>3, <2>4, CoreAssumption
    <2>5. CASE x # p
      BY <1>2, <1>3, <2>3, <2>5 DEF Members, InCall
    <2> QED BY <2>4, <2>5
  <1>10. OwnTrack'
    <2> SUFFICES ASSUME NEW q \in Core, InCall(q)'
                 PROVE  Settles(commands'[q], capturing[q], track'[q])
      BY <1>0 DEF OwnTrack, InCall, Settles
    <2>1. q # p /\ Settles(commands[q], capturing[q], track[q])
      BY <1>5 DEF OwnTrack
    <2> QED BY <1>2, <1>3, <2>1
  <1>11. \A q \in Core : Stops(q) /\ track'[q] => Stops(q)'
    <2> SUFFICES ASSUME NEW q \in Core, Stops(q), track'[q] PROVE Stops(q)'
      OBVIOUS
    <2>1. commands'[q] = commands[q]
      BY <1>2, <1>6
    <2>2. ~Lacks(events[q], OnFrom(Core)) => ~Lacks(events'[q], OnFrom(Core))
      BY <1>4 DEF Added
    <2> QED BY <1>0, <2>1, <2>2 DEF Stops
  <1>12. OneGivesWay'
    BY <1>6, <1>11 DEF OneGivesWay
  <1>13. SharesAreSeen'
    <2> SUFFICES ASSUME NEW x \in Core \ Latecomers, NEW q \in Core, x # q, InCall(x)', track'[q]
                 PROVE  Stops(q)' \/ Leads(x, q)'
      BY DEF SharesAreSeen
    <2>1. x # p /\ InCall(x) /\ q # p /\ track[q]
      BY <1>5, <1>6
    <2>2. Stops(q) \/ Leads(x, q)
      BY <2>1 DEF SharesAreSeen
    <2>3. publisher'[x] = publisher[x] /\ sharers'[x] = sharers[x]
      BY <1>3, <2>1
    <2>4. CASE InCall(p)
      <3>1. m \notin OnFrom(Core) \cup OffFrom({q}) /\ n \notin OnFrom(Core) \cup OffFrom({q})
        BY <1>1, <2>1
      <3>2. Added(x, m, n)
        BY <1>4, <2>1, <2>4
      <3>3. Leads(x, q) => Leads(x, q)'
        BY <2>3, <3>1, <3>2 DEF Leads, Added
      <3> QED BY <1>11, <2>2, <3>3
    <2>5. CASE ~InCall(p)
      <3>1. Leads(x, q) => Leads(x, q)'
        BY <1>4, <2>3, <2>5 DEF Leads
      <3> QED BY <1>11, <2>2, <3>1
    <2> QED BY <2>4, <2>5
  <1>14. EndsAreSeen'
    <2> SUFFICES ASSUME NEW x \in Core, NEW q \in Core, x # q, InCall(x)', ~track'[q]
                 PROVE  Over(x, q)'
      BY DEF EndsAreSeen
    <2>1. x # p /\ InCall(x) /\ publisher'[x] = publisher[x]
      BY <1>3, <1>5
    <2>2. CASE InCall(p) /\ q = p
      <3>1. n \notin NewsOf(q)
        BY <1>1 DEF NewsOf
      <3>2. EndsIn(events'[x], NewsOf(q), OffFrom({q}))
        BY <1>1, <1>4, <2>1, <2>2, <3>1 DEF Added
      <3> QED BY <3>2 DEF Over
    <2>3. CASE InCall(p) /\ q # p
      <3>1. m \notin NewsOf(q) /\ n \notin NewsOf(q)
        BY <1>1, <2>3 DEF NewsOf
      <3>2. Over(x, q) /\ Added(x, m, n)
        BY <1>3, <1>4, <2>1, <2>3 DEF EndsAreSeen
      <3> QED BY <2>1, <3>1, <3>2 DEF Over, Added
    <2>4. CASE ~InCall(p)
      <3>1. events'[x] = events[x] /\ ~track[q]
        BY <1>3, <1>4, <1>7, <2>4
      <3>2. Over(x, q)
        BY <2>1, <3>1 DEF EndsAreSeen
      <3> QED BY <2>1, <3>1, <3>2 DEF Over
    <2> QED BY <2>2, <2>3, <2>4
  <1>15. WindowCloses'
    <2> SUFFICES ASSUME NEW q \in Core, InCall(q)', publisher'[q] = None
                 PROVE  Closing(ui[q], window[q])
      BY <1>0 DEF WindowCloses, Closing
    <2>1. InCall(q) /\ publisher[q] = None
      BY <1>3, <1>5
    <2> QED BY <2>1 DEF WindowCloses
  <1> QED BY <1>8, <1>9, <1>10, <1>12, <1>13, <1>14, <1>15

\* A latecomer hears of each live share.
LEMMA JoinKeeps ==
  ASSUME ShareInv, NEW p \in Core, Join(p)
  PROVE  ShareInv'
  <1> USE DEF ShareInv
  <1>0. /\ call[p] = "before" /\ call' = [call EXCEPT ![p] = "in"]
        /\ UNCHANGED <<track, capturing, commands, ui, publisher, sharers, window, active, wishes>>
    BY DEF Join, local, remote
  <1>1. PICK order \in [1..Cardinality(Live) -> Live] :
          events' = [events EXCEPT ![p] = [i \in DOMAIN order |-> Notice("subscribed", order[i])]]
    BY DEF Join
  <1>2. /\ ui[p] = <<>> /\ commands[p] = <<>> /\ ~capturing[p] /\ publisher[p] = None
        /\ window[p] # "visible" /\ ~track[p] /\ p \in Latecomers
    BY <1>0 DEF Members, ShareTypeOK
  <1>3. Cardinality(Live) \in Nat /\ Live \subseteq Core
    BY CoreAssumption, FS_Subset, FS_CardinalityType DEF Live
  <1> DEFINE heard == [i \in DOMAIN order |-> Notice("subscribed", order[i])]
  <1>4. /\ DOMAIN heard = 1..Cardinality(Live)
        /\ \A i \in DOMAIN heard : heard[i] \in AnyNotice /\ heard[i].type = "subscribed"
                                   /\ heard[i].from \in Live
    BY <1>1, <1>3 DEF Notice, AnyNotice, EventType
  <1>5. heard \in Seq(AnyNotice)
    <2>1. heard \in [1..Cardinality(Live) -> AnyNotice]
      BY <1>4
    <2> HIDE DEF heard
    <2> QED BY <1>3, <2>1, SeqDef
  <1>6. events' = [events EXCEPT ![p] = heard]
    BY <1>1
  <1> HIDE DEF heard
  <1>7. /\ events' \in [Core -> Seq(AnyNotice)] /\ events'[p] = heard
        /\ \A q \in Core \ {p} : events'[q] = events[q]
    BY <1>5, <1>6 DEF ShareTypeOK
  <1>8. /\ call' \in [Core -> {"before", "in", "after"}] /\ call'[p] = "in"
        /\ \A q \in Core \ {p} : call'[q] = call[q]
    BY <1>0 DEF ShareTypeOK
  <1>9. \A q \in Core : ~track[q] =>
          Lacks(heard, [type : EventType, from : {q}]) /\ Lacks(heard, NewsOf(q))
    BY <1>4 DEF Lacks, Live, NewsOf, OnFrom, OffFrom
  <1>10. \A q \in Core : Lacks(heard, GoneOf({q}))
    BY <1>4 DEF Lacks, GoneOf
  <1>11. ShareTypeOK'
    BY <1>0, <1>2, <1>7, <1>8 DEF ShareTypeOK
  <1>12. Members'
    <2> SUFFICES ASSUME NEW x \in Core
                 PROVE  /\ track[x] => InCall(x)'
                        /\ x \notin Latecomers => call'[x] # "before"
                        /\ call'[x] = "before" =>
                             /\ ui[x] = <<>> /\ commands[x] = <<>> /\ ~capturing[x]
                             /\ publisher[x] = None /\ window[x] # "visible"
                        /\ publisher[x] # x
                        /\ Lacks(events'[x], [type : EventType, from : {x}])
                        /\ \A q \in Core : call'[q] # "after" => Lacks(events'[x], GoneOf({q}))
      BY <1>0 DEF Members, InCall, Lacks
    <2>1. \A q \in Core : call'[q] # "after" => call[q] # "after"
      BY <1>0, <1>8
    <2>2. CASE x = p
      BY <1>2, <1>7, <1>8, <1>9, <1>10, <2>2, CoreAssumption
    <2>3. CASE x # p
      BY <1>7, <1>8, <2>1, <2>3 DEF Members, InCall
    <2> QED BY <2>2, <2>3
  <1>13. \A q \in Core : InCall(q)' => q = p \/ InCall(q)
    BY <1>8 DEF InCall
  <1>14. OwnTrack'
    <2> SUFFICES ASSUME NEW q \in Core, InCall(q)'
                 PROVE  Settles(commands[q], capturing[q], track[q])
      BY <1>0 DEF OwnTrack, Settles
    <2>1. CASE q = p
      <3>1. Lacks(commands[p], Switches) /\ track[p] = capturing[p]
        BY <1>2, EmptyQueue DEF ShareTypeOK
      <3> QED BY <2>1, <3>1 DEF Settles
    <2> QED BY <1>13, <2>1 DEF OwnTrack
  <1>15. \A q \in Core : track[q] /\ Stops(q) => Stops(q)'
    BY <1>0, <1>2, <1>7 DEF Stops
  <1>16. OneGivesWay'
    BY <1>0, <1>15 DEF OneGivesWay
  <1>17. SharesAreSeen'
    <2> SUFFICES ASSUME NEW x \in Core \ Latecomers, NEW q \in Core, x # q, InCall(x)', track[q]
                 PROVE  Stops(q)' \/ Leads(x, q)'
      BY <1>0 DEF SharesAreSeen
    <2>1. x # p /\ InCall(x) /\ events'[x] = events[x]
      BY <1>2, <1>7, <1>13
    <2>2. Stops(q) \/ Leads(x, q)
      BY <2>1 DEF SharesAreSeen
    <2>3. Leads(x, q) => Leads(x, q)'
      BY <1>0, <2>1 DEF Leads
    <2> QED BY <1>15, <2>2, <2>3
  <1>18. EndsAreSeen'
    <2> SUFFICES ASSUME NEW x \in Core, NEW q \in Core, x # q, InCall(x)', ~track[q]
                 PROVE  Over(x, q)'
      BY <1>0 DEF EndsAreSeen
    <2>1. CASE x = p
      BY <1>0, <1>2, <1>7, <1>9, <2>1, CoreAssumption DEF Over
    <2>2. CASE x # p
      <3>1. InCall(x) /\ events'[x] = events[x]
        BY <1>7, <1>13, <2>2
      <3>2. Over(x, q)
        BY <3>1 DEF EndsAreSeen
      <3> QED BY <1>0, <3>1, <3>2 DEF Over
    <2> QED BY <2>1, <2>2
  <1>19. WindowCloses'
    <2> SUFFICES ASSUME NEW q \in Core, InCall(q)', publisher[q] = None
                 PROVE  Closing(ui[q], window[q])
      BY <1>0 DEF WindowCloses, Closing
    <2>1. CASE q = p
      BY <1>2, <2>1, EmptyQueue DEF Closing
    <2> QED BY <1>13, <2>1 DEF WindowCloses
  <1> QED BY <1>11, <1>12, <1>14, <1>16, <1>17, <1>18, <1>19

--------------------------------------------------------------------------------
(* The theorem. *)

LEMMA ShareNextInv == ShareInv /\ [ShareNext]_sharingVars => ShareInv'
  <1>1. ASSUME ShareInv, UNCHANGED sharingVars PROVE ShareInv'
    BY <1>1 DEF sharingVars, livekit, local, remote, ShareInv, ShareTypeOK, Members, InCall,
                OwnTrack, OneGivesWay, Stops, SharesAreSeen, Leads, EndsAreSeen, Over,
                WindowCloses
  <1>2. ASSUME ShareInv, NEW p \in Core, Users(p) PROVE ShareInv'
    <2>1. CASE Join(p)
      BY <1>2, <2>1, JoinKeeps
    <2>2. CASE AskShare(p) \/ AskStop(p) \/ AskEnd(p) \/ CaptureEnds(p)
      <3>1. PICK what \in {"share", "stop", "callEnd"} : Ask(p, what)
        BY <2>2 DEF AskShare, AskStop, AskEnd, CaptureEnds
      <3> QED BY <1>2, <3>1, AsksLikeLoop, LoopKeeps
    <2> QED BY <1>2, <2>1, <2>2 DEF Users
  <1>3. ASSUME ShareInv, NEW p \in Core, EventLoop(p) PROVE ShareInv'
    BY <1>3, HandlersLikeLoop, LoopKeeps
  <1>4. ASSUME ShareInv, NEW p \in Core, RoomService(p) PROVE ShareInv'
    BY <1>4, SetTrackKeeps, DestroyRoomKeeps DEF RoomService
  <1>5. ASSUME ShareInv, NEW p \in Core, RoomEvents(p) PROVE ShareInv'
    BY <1>5, EventEffects, EventKeeps
  <1> QED BY <1>1, <1>2, <1>3, <1>4, <1>5 DEF ShareNext

\* When nothing is on its way nobody will stop any more.
LEMMA ShareInvAgrees == ShareInv => SharesAgree
  <1> SUFFICES ASSUME ShareInv, Quiet PROVE SharesAgree
    BY DEF SharesAgree, OneShareAtRest, WatchersFollowShares
  <1> USE DEF ShareInv
  <1>1. \A p \in Core : ui[p] = <<>> /\ commands[p] = <<>> /\ events[p] = <<>>
    BY DEF Quiet, QuietAt
  <1>2. \A p \in Core : ~Stops(p)
    BY <1>1, EmptyQueue DEF Stops
  <1>3. OneShareAtRest
    <2>1. \A p, q \in Live : p = q
      BY <1>2 DEF OneGivesWay, Live
    <2>2. Live = {} \/ \E p \in Live : Live = {p}
      BY <2>1
    <2>3. Cardinality(Live) <= 1
      BY <2>2, FS_EmptySet, FS_Singleton
    <2>4. \A p \in Core : InCall(p) => track[p] = capturing[p]
      BY <1>1, EmptyQueue DEF OwnTrack, Settles
    <2> QED BY <2>3, <2>4 DEF OneShareAtRest
  <1>4. WatchersFollowShares
    <2> SUFFICES ASSUME NEW p \in Core, InCall(p)
                 PROVE  /\ window[p] = "visible" => publisher[p] \in Live \ {p}
                        /\ p \notin Latecomers =>
                             \A q \in Live \ {p} : publisher[p] = q /\ q \in sharers[p]
      BY DEF WatchersFollowShares
    <2>1. ASSUME window[p] = "visible" PROVE publisher[p] \in Live \ {p}
      <3>1. ~Closing(ui[p], window[p])
        BY <1>1, <2>1, EmptyQueue DEF Closing
      <3>2. publisher[p] \in Core \ {p}
        BY <3>1 DEF WindowCloses, ShareTypeOK, Members
      <3>3. ~Over(p, publisher[p])
        BY <1>1, EmptyQueue DEF Over
      <3>4. track[publisher[p]]
        BY <3>2, <3>3 DEF EndsAreSeen
      <3> QED BY <3>2, <3>4 DEF Live
    <2>2. ASSUME p \notin Latecomers, NEW q \in Live \ {p}
          PROVE  publisher[p] = q /\ q \in sharers[p]
      <3>1. q \in Core /\ Leads(p, q)
        BY <1>2, <2>2 DEF SharesAreSeen, Live
      <3> QED BY <1>1, <3>1, EmptyQueue DEF Leads
    <2> QED BY <2>1, <2>2
  <1> QED BY <1>3, <1>4 DEF SharesAgree

\* However many participants share, stop, leave and join in whatever order, and however
\* their commands and the room's events interleave: when all news has arrived at most
\* one core still shares, it shares what it captures, and everybody's window and
\* participants map show that share and no other (screen_share, stop_screenshare and
\* the share's events in handle_room_events).
THEOREM TheRoomAgrees == ShareSpec => []SharesAgree
  <1>1. ShareSpec => []ShareInv
    BY ShareInitInv, ShareNextInv, PTL DEF ShareSpec
  <1> QED BY <1>1, ShareInvAgrees, PTL

--------------------------------------------------------------------------------
(* Keys and buttons: the inductive invariant. *)

Inputs == Keys \cup {Button}
AnyMessage == [type : {"key", "click", "chord", "mode"}, key : Inputs, down : BOOLEAN]

\* What sets k at the sharer.
Sets(k) == [type : {"key", "click"}, key : {k}, down : BOOLEAN]
SetsTo(k, down) ==
    [type : {"key", "click"}, key : {k}, down : IF down THEN {TRUE} ELSE {FALSE}]

\* The last message that sets k says how the watcher holds it, or there is none and the
\* sharer has it so, or has dropped the last one.
Reaches(k) ==
    \/ EndsIn(line, Sets(k), SetsTo(k, k \in hands))
    \/ Lacks(line, Sets(k)) /\ (k \in ignored \/ (k \in pressed <=> k \in hands))

\* The modifier and the keys of a chord may be up at the sharer while they are held.
KeysReach ==
    \A k \in Inputs : k \notin unheard /\ (k \in {Letter, Button} \/ k \notin hands) => Reaches(k)

\* A press that waits is one of a modifier that is held, or whose release was not heard.
QueuedIsHeld == queued > 0 => Mod \in hands \cup unheard

InputInv == line \in Seq(AnyMessage) /\ queued \in Nat /\ QueuedIsHeld /\ KeysReach

LEMMA SetsFacts ==
  /\ \A m \in AnyMessage, k \in Inputs :
       /\ m \in Sets(k) <=> m.type \in {"key", "click"} /\ m.key = k
       /\ \A d \in BOOLEAN : m \in SetsTo(k, d) <=> m \in Sets(k) /\ m.down = d
  /\ \A type \in {"key", "click", "chord", "mode"}, k \in Inputs, d \in BOOLEAN :
       /\ Event(type, k, d) \in AnyMessage /\ Event(type, k, d).type = type
       /\ Event(type, k, d).key = k /\ Event(type, k, d).down = d
  BY DEF Event, AnyMessage, Sets, SetsTo

\* A sequence is sent after what is under way.
LEMMA SentQueue ==
  ASSUME NEW M, NEW q \in Seq(M), NEW s \in Seq(M)
  PROVE  /\ q \o s \in Seq(M)
         /\ \A S : Lacks(q \o s, S) <=> Lacks(q, S) /\ Lacks(s, S)
         /\ \A S, T : EndsIn(s, S, T) => EndsIn(q \o s, S, T)
         /\ \A S, T : EndsIn(q, S, T) /\ Lacks(s, S) => EndsIn(q \o s, S, T)
  <1> DEFINE c == q \o s
  <1>1. /\ Len(q) \in Nat /\ Len(s) \in Nat /\ DOMAIN q = 1..Len(q) /\ DOMAIN s = 1..Len(s)
        /\ c \in Seq(M) /\ Len(c) = Len(q) + Len(s) /\ DOMAIN c = 1..(Len(q) + Len(s))
        /\ \A i \in 1..(Len(q) + Len(s)) :
             c[i] = IF i <= Len(q) THEN q[i] ELSE s[i - Len(q)]
    BY ConcatProperties, LenProperties
  <1> HIDE DEF c
  <1>2. /\ \A i \in DOMAIN q : i \in DOMAIN c /\ i \in Int /\ i <= Len(q) /\ c[i] = q[i]
        /\ \A i \in DOMAIN s : /\ i \in Int /\ i + Len(q) \in DOMAIN c /\ i + Len(q) > Len(q)
                               /\ c[i + Len(q)] = s[i]
        /\ \A i \in DOMAIN c : /\ i \in Int
                               /\ \/ i \in DOMAIN q
                                  \/ i > Len(q) /\ i - Len(q) \in DOMAIN s /\ c[i] = s[i - Len(q)]
    <2>1. \A i \in DOMAIN q : i \in DOMAIN c /\ i \in Int /\ i <= Len(q) /\ c[i] = q[i]
      BY <1>1
    <2>2. ASSUME NEW i \in DOMAIN s
          PROVE  /\ i \in Int /\ i + Len(q) \in DOMAIN c /\ i + Len(q) > Len(q)
                 /\ c[i + Len(q)] = s[i]
      <3>1. i \in Int /\ i + Len(q) \in DOMAIN c /\ i + Len(q) > Len(q)
            /\ (i + Len(q)) - Len(q) = i
        BY <1>1
      <3> QED BY <1>1, <3>1
    <2>3. ASSUME NEW i \in DOMAIN c
          PROVE  /\ i \in Int
                 /\ \/ i \in DOMAIN q
                    \/ i > Len(q) /\ i - Len(q) \in DOMAIN s /\ c[i] = s[i - Len(q)]
      BY <1>1
    <2> QED BY <2>1, <2>2, <2>3
  <1>3. ASSUME NEW S PROVE Lacks(c, S) <=> Lacks(q, S) /\ Lacks(s, S)
    BY <1>2 DEF Lacks
  <1>4. ASSUME NEW S, NEW T, EndsIn(s, S, T) PROVE EndsIn(c, S, T)
    <2>1. PICK i \in DOMAIN s : s[i] \in T /\ \A j \in DOMAIN s : j > i => s[j] \notin S
      BY <1>4 DEF EndsIn
    <2>2. i + Len(q) \in DOMAIN c /\ c[i + Len(q)] \in T
      BY <1>2, <2>1
    <2>3. \A j \in DOMAIN c : j > i + Len(q) => c[j] \notin S
      <3> SUFFICES ASSUME NEW j \in DOMAIN c, j > i + Len(q) PROVE c[j] \notin S
        OBVIOUS
      <3>1. j \in Int /\ i \in Int /\ i > 0 /\ Len(q) \in Int /\ j > Len(q) /\ j - Len(q) > i
        BY <1>1, <1>2
      <3>2. j \notin DOMAIN q
        BY <1>1, <3>1
      <3> QED BY <1>2, <2>1, <3>1, <3>2
    <2> QED BY <2>2, <2>3 DEF EndsIn
  <1>5. ASSUME NEW S, NEW T, EndsIn(q, S, T), Lacks(s, S) PROVE EndsIn(c, S, T)
    <2>1. PICK i \in DOMAIN q : q[i] \in T /\ \A j \in DOMAIN q : j > i => q[j] \notin S
      BY <1>5 DEF EndsIn
    <2>2. i \in DOMAIN c /\ c[i] \in T
      BY <1>2, <2>1
    <2>3. \A j \in DOMAIN c : j > i => c[j] \notin S
      BY <1>2, <1>5, <2>1 DEF Lacks
    <2> QED BY <2>2, <2>3 DEF EndsIn
  <1> QED BY <1>1, <1>3, <1>4, <1>5 DEF c

LEMMA InputInitInv == InputInit => InputInv
  BY EmptyQueue DEF InputInit, InputInv, QueuedIsHeld, KeysReach, Reaches

--------------------------------------------------------------------------------
(* The watcher's window. *)

\* What the window sends says of each key how it is held now, or nothing.
LEMMA SendingKeeps ==
  ASSUME InputInv, NEW s \in Seq(AnyMessage), line' = line \o s, UNCHANGED <<pressed, ignored>>,
         queued' \in Nat, QueuedIsHeld',
         \A k \in Inputs : k \notin unheard' /\ (k \in {Letter, Button} \/ k \notin hands') =>
            \/ EndsIn(s, Sets(k), SetsTo(k, k \in hands'))
            \/ Lacks(s, Sets(k)) /\ k \notin unheard /\ (k \in hands' <=> k \in hands)
  PROVE  InputInv'
  <1>1. line \in Seq(AnyMessage)
    BY DEF InputInv
  <1>2. /\ line' \in Seq(AnyMessage)
        /\ \A S : Lacks(line', S) <=> Lacks(line, S) /\ Lacks(s, S)
        /\ \A S, T : EndsIn(s, S, T) => EndsIn(line', S, T)
        /\ \A S, T : EndsIn(line, S, T) /\ Lacks(s, S) => EndsIn(line', S, T)
    BY <1>1, SentQueue
  <1>3. KeysReach'
    <2> SUFFICES ASSUME NEW k \in Inputs, k \notin unheard',
                        k \in {Letter, Button} \/ k \notin hands'
                 PROVE  Reaches(k)'
      BY DEF KeysReach
    <2>1. CASE EndsIn(s, Sets(k), SetsTo(k, k \in hands'))
      <3>1. EndsIn(line', Sets(k), SetsTo(k, k \in hands'))
        BY <1>2, <2>1
      <3> QED BY <3>1 DEF Reaches, Sets, SetsTo
    <2>2. CASE Lacks(s, Sets(k)) /\ k \notin unheard /\ (k \in hands' <=> k \in hands)
      <3>1. Reaches(k)
        BY <2>2 DEF InputInv, KeysReach
      <3>2. SetsTo(k, k \in hands') = SetsTo(k, k \in hands)
        BY <2>2 DEF SetsTo
      <3>3. CASE EndsIn(line, Sets(k), SetsTo(k, k \in hands))
        <4>1. EndsIn(line', Sets(k), SetsTo(k, k \in hands'))
          BY <1>2, <2>2, <3>2, <3>3
        <4> QED BY <4>1 DEF Reaches, Sets, SetsTo
      <3>4. CASE Lacks(line, Sets(k)) /\ (k \in ignored \/ (k \in pressed <=> k \in hands))
        <4>1. Lacks(line', Sets(k)) /\ (k \in ignored' \/ (k \in pressed' <=> k \in hands'))
          BY <1>2, <2>2, <3>4
        <4> QED BY <4>1 DEF Reaches, Sets, SetsTo
      <3> QED BY <3>1, <3>3, <3>4 DEF Reaches
    <2> QED BY <2>1, <2>2
  <1> QED BY <1>2, <1>3 DEF InputInv

\* One message.
LEMMA OneMessage ==
  ASSUME NEW m \in AnyMessage
  PROVE  /\ <<m>> \in Seq(AnyMessage)
         /\ \A k \in Inputs : Lacks(<<m>>, Sets(k)) <=> m \notin Sets(k)
         /\ \A k \in Inputs, d \in BOOLEAN :
              m \in SetsTo(k, d) => EndsIn(<<m>>, Sets(k), SetsTo(k, d))
  <1>1. DOMAIN <<m>> = {1} /\ <<m>>[1] = m /\ <<m>> \in Seq(AnyMessage)
    OBVIOUS
  <1> QED BY <1>1 DEF Lacks, EndsIn

\* The modifier's presses that waited, and the event they waited for.
LEMMA DrainedMessages ==
  ASSUME queued \in Nat, NEW k \in Keys, NEW down \in BOOLEAN
  PROVE  LET s == Append(Drained, KeyInput(k, down)) IN
         /\ s \in Seq(AnyMessage)
         /\ \A j \in Inputs \ {k, Mod} : Lacks(s, Sets(j))
         /\ queued = 0 => \A j \in Inputs \ {k} : Lacks(s, Sets(j))
         /\ EndsIn(s, Sets(k), SetsTo(k, down))
  <1> DEFINE m == KeyInput(k, down)
             s == Append(Drained, m)
  <1>1. m \in AnyMessage /\ m.type = "key" /\ m.key = k /\ m.down = down
    BY SetsFacts DEF KeyInput, Inputs
  <1>2. /\ KeyInput(Mod, TRUE) \in AnyMessage /\ KeyInput(Mod, TRUE).key = Mod
    BY DEF KeyInput, Event, AnyMessage, Inputs, Keys
  <1>3. Drained \in Seq(AnyMessage)
    <2>1. Drained \in [1..queued -> AnyMessage]
      BY <1>2 DEF Drained
    <2> QED BY <2>1, SeqDef
  <1>4. \A j \in Inputs \ {Mod} : Lacks(Drained, Sets(j))
    <2>1. \A j \in Inputs \ {Mod} : KeyInput(Mod, TRUE) \notin Sets(j)
      BY DEF KeyInput, Event, Sets
    <2> QED BY <2>1 DEF Drained, Lacks
  <1>5. queued = 0 => \A S : Lacks(Drained, S)
    BY DEF Drained, Lacks
  <1>6. \A j \in Inputs \ {k} : m \notin Sets(j)
    BY <1>1, SetsFacts
  <1>7. m \in SetsTo(k, down)
    BY <1>1, SetsFacts DEF Inputs
  <1> HIDE DEF m
  <1>8. /\ s \in Seq(AnyMessage)
        /\ \A S : Lacks(s, S) <=> Lacks(Drained, S) /\ m \notin S
        /\ \A S, T : m \in T => EndsIn(s, S, T)
    BY <1>1, <1>3, AppendQueue
  <1> QED BY <1>4, <1>5, <1>6, <1>7, <1>8 DEF m

LEMMA KeyboardInputKeeps ==
  ASSUME InputInv, NEW k \in Keys, NEW down \in BOOLEAN, KeyboardInput(k, down)
  PROVE  InputInv'
  <1>0. /\ down = (k \notin hands) /\ hands' = (IF down THEN hands \cup {k} ELSE hands \ {k})
        /\ unheard' = unheard \ {k} /\ UNCHANGED <<pressed, ignored>>
    BY DEF KeyboardInput, Moved, Acts, sharerVars
  <1>1. /\ k \in Inputs /\ Button \notin Keys /\ k # Button
        /\ (k \in hands' <=> down) /\ \A j \in Inputs \ {k} : j \in hands' <=> j \in hands
    BY <1>0 DEF Inputs, Keys, Mod, Clip, Letter, Button
  <1>2. queued \in Nat /\ QueuedIsHeld
    BY DEF InputInv
  <1>3. CASE IsChord(k, down)
    <2> DEFINE m == Event("chord", k, TRUE)
    <2>1. queued' = 0 /\ line' = line \o <<m>>
      <3>1. queued' = 0 /\ Publish(<<m>>)
        <4>1. ~IsQueued(k, down)
          BY <1>3 DEF IsChord, IsQueued, Mod, Clip
        <4> QED BY <1>3, <4>1 DEF KeyboardInput
      <3> HIDE DEF m
      <3> QED BY <3>1 DEF Publish
    <2>2. m \in AnyMessage /\ \A j \in Inputs : m \notin Sets(j)
      BY ZenonT(60), <1>1, SetsFacts
    <2> HIDE DEF m
    <2>3. <<m>> \in Seq(AnyMessage) /\ \A j \in Inputs : Lacks(<<m>>, Sets(j))
      BY <2>2, OneMessage
    <2>4. k = Clip /\ down
      BY <1>3 DEF IsChord
    <2>5. \A j \in Inputs : j \notin unheard' /\ (j \in {Letter, Button} \/ j \notin hands') =>
            j # k
      BY <1>1, <2>4 DEF Letter, Button, Clip
    <2>6. \A j \in Inputs : j \notin unheard' /\ (j \in {Letter, Button} \/ j \notin hands') =>
            Lacks(<<m>>, Sets(j)) /\ j \notin unheard /\ (j \in hands' <=> j \in hands)
      BY <1>0, <1>1, <2>3, <2>5
    <2>7. queued' \in Nat /\ QueuedIsHeld'
      BY <2>1 DEF QueuedIsHeld
    <2> QED BY <1>0, <2>1, <2>3, <2>6, <2>7, SendingKeeps
  <1>4. CASE ~IsChord(k, down) /\ IsQueued(k, down)
    <2>1. queued' = queued + 1 /\ UNCHANGED line /\ k = Mod /\ down
      BY <1>4 DEF KeyboardInput, IsQueued
    <2>2. line' = line \o <<>> /\ <<>> \in Seq(AnyMessage)
      BY <2>1, ConcatEmptySeq DEF InputInv
    <2>3. \A j \in Inputs : j \notin unheard' /\ (j \in {Letter, Button} \/ j \notin hands') =>
            j # k
      BY <1>1, <2>1 DEF Letter, Button, Mod
    <2>4. \A j \in Inputs : j \notin unheard' /\ (j \in {Letter, Button} \/ j \notin hands') =>
            Lacks(<<>>, Sets(j)) /\ j \notin unheard /\ (j \in hands' <=> j \in hands)
      BY <1>0, <1>1, <2>3, EmptyQueue
    <2>5. queued' \in Nat /\ QueuedIsHeld'
      BY <1>1, <1>2, <2>1 DEF QueuedIsHeld
    <2> QED BY <1>0, <2>2, <2>4, <2>5, SendingKeeps
  <1>5. CASE ~IsChord(k, down) /\ ~IsQueued(k, down)
    <2> DEFINE s == Append(Drained, KeyInput(k, down))
    <2>1. queued' = 0 /\ line' = line \o s
      BY <1>5 DEF KeyboardInput, Publish
    <2>2. /\ s \in Seq(AnyMessage)
          /\ \A j \in Inputs \ {k, Mod} : Lacks(s, Sets(j))
          /\ queued = 0 => \A j \in Inputs \ {k} : Lacks(s, Sets(j))
          /\ EndsIn(s, Sets(k), SetsTo(k, down))
      BY <1>2, DrainedMessages
    <2> HIDE DEF s
    <2>3. ASSUME NEW j \in Inputs, j \notin unheard', j \in {Letter, Button} \/ j \notin hands'
          PROVE  \/ EndsIn(s, Sets(j), SetsTo(j, j \in hands'))
                 \/ Lacks(s, Sets(j)) /\ j \notin unheard /\ (j \in hands' <=> j \in hands)
      <3>1. CASE j = k
        <4>1. SetsTo(j, j \in hands') = SetsTo(k, down)
          BY <1>1, <3>1 DEF SetsTo
        <4> QED BY <2>2, <3>1, <4>1
      <3>2. CASE j # k
        <4>1. j \notin unheard /\ (j \in hands' <=> j \in hands)
          BY <1>0, <1>1, <2>3, <3>2
        <4>2. j = Mod => queued = 0
          BY <1>2, <2>3, <4>1 DEF QueuedIsHeld, Mod, Letter, Button
        <4>3. Lacks(s, Sets(j))
          BY <2>2, <3>2, <4>2
        <4> QED BY <4>1, <4>3
      <3> QED BY <3>1, <3>2
    <2>4. queued' \in Nat /\ QueuedIsHeld'
      BY <2>1 DEF QueuedIsHeld
    <2> QED BY <1>0, <2>1, <2>2, <2>3, <2>4, SendingKeeps
  <1> QED BY <1>3, <1>4, <1>5

LEMMA MouseInputKeeps ==
  ASSUME InputInv, NEW down \in BOOLEAN, MouseInput(down)
  PROVE  InputInv'
  <1> DEFINE m == Event("click", Button, down)
  <1>0. /\ down = (Button \notin hands)
        /\ hands' = (IF down THEN hands \cup {Button} ELSE hands \ {Button})
        /\ unheard' = unheard \ {Button} /\ UNCHANGED <<queued, pressed, ignored>>
        /\ line' = line \o <<m>>
    BY DEF MouseInput, Moved, Acts, Publish, sharerVars
  <1>1. /\ Button \in Inputs /\ Mod \in Inputs /\ Mod # Button
        /\ (Button \in hands' <=> down)
        /\ \A j \in Inputs \ {Button} : /\ j \in hands' <=> j \in hands
                                        /\ j \in unheard' <=> j \in unheard
    BY <1>0 DEF Inputs, Keys, Mod, Button
  <1>2. /\ m \in AnyMessage /\ m \in SetsTo(Button, down)
        /\ \A j \in Inputs \ {Button} : m \notin Sets(j)
    BY <1>1, SetsFacts
  <1> HIDE DEF m
  <1>3. /\ <<m>> \in Seq(AnyMessage) /\ \A j \in Inputs \ {Button} : Lacks(<<m>>, Sets(j))
        /\ EndsIn(<<m>>, Sets(Button), SetsTo(Button, down))
    BY <1>1, <1>2, OneMessage
  <1>4. SetsTo(Button, Button \in hands') = SetsTo(Button, down)
    BY <1>1 DEF SetsTo
  <1>5. \A j \in Inputs : j \notin unheard' /\ (j \in {Letter, Button} \/ j \notin hands') =>
          \/ EndsIn(<<m>>, Sets(j), SetsTo(j, j \in hands'))
          \/ Lacks(<<m>>, Sets(j)) /\ j \notin unheard /\ (j \in hands' <=> j \in hands)
    BY <1>1, <1>3, <1>4
  <1>6. queued' \in Nat /\ QueuedIsHeld'
    BY <1>0, <1>1 DEF InputInv, QueuedIsHeld
  <1> QED BY <1>0, <1>3, <1>5, <1>6, SendingKeeps

\* The window's other events send nothing that sets a key, and hold none that is heard.
LEMMA WindowKeeps ==
  ASSUME InputInv,
         \/ \E k \in Inputs : NotForTheSharer(k)
         \/ CursorEnters \/ CursorLeaves \/ SelectTab
         \/ CloseScreenShareWindow \/ OpenScreenShareWindow
         \/ \E e \in BOOLEAN : SharerControlEnabled(e)
  PROVE  InputInv'
  <1>1. queued \in Nat /\ QueuedIsHeld /\ line \in Seq(AnyMessage)
    BY DEF InputInv
  <1>2. CASE \E k \in Inputs : NotForTheSharer(k)
    <2>1. PICK k \in Inputs : NotForTheSharer(k)
      BY <1>2
    <2>2. /\ hands' = (IF k \notin hands THEN hands \cup {k} ELSE hands \ {k})
          /\ unheard' = unheard \cup {k} /\ UNCHANGED <<queued, line, pressed, ignored>>
      BY <2>1 DEF NotForTheSharer, Moved, Acts, sharerVars
    <2>3. \A j \in Inputs : j \notin unheard' =>
            j \notin unheard /\ (j \in hands' <=> j \in hands)
      BY <2>2
    <2>4. queued' \in Nat /\ QueuedIsHeld'
      BY <1>1, <2>2 DEF QueuedIsHeld
    <2>5. line' = line \o <<>> /\ <<>> \in Seq(AnyMessage)
      BY <1>1, <2>2, ConcatEmptySeq
    <2> QED BY <2>2, <2>3, <2>4, <2>5, EmptyQueue, SendingKeeps
  <1>3. CASE \/ CursorEnters \/ CursorLeaves \/ CloseScreenShareWindow
             \/ \E e \in BOOLEAN : SharerControlEnabled(e)
    <2>1. UNCHANGED <<hands, unheard, line, pressed, ignored>> /\ (queued' = queued \/ queued' = 0)
      BY <1>3 DEF CursorEnters, CursorLeaves, CloseScreenShareWindow, SharerControlEnabled,
                  Noticed, Acts, sharerVars
    <2>2. queued' \in Nat /\ QueuedIsHeld'
      BY <1>1, <2>1 DEF QueuedIsHeld
    <2>3. line' = line \o <<>> /\ <<>> \in Seq(AnyMessage)
      BY <1>1, <2>1, ConcatEmptySeq
    <2> QED BY <2>1, <2>2, <2>3, EmptyQueue, SendingKeeps
  <1>4. CASE SelectTab \/ OpenScreenShareWindow
    <2>1. PICK d \in BOOLEAN : Publish(<<Event("mode", Button, d)>>)
      <3>1. CASE SelectTab
        <4>1. (~onControl) \in BOOLEAN /\ onControl' = ~onControl
          BY <3>1 DEF SelectTab
        <4>2. Publish(<<Event("mode", Button, onControl')>>)
          BY <3>1 DEF SelectTab
        <4> QED BY <4>1, <4>2
      <3>2. CASE OpenScreenShareWindow
        BY <3>2 DEF OpenScreenShareWindow
      <3> QED BY <1>4, <3>1, <3>2
    <2> DEFINE m == Event("mode", Button, d)
    <2>2. m \in AnyMessage /\ \A j \in Inputs : m \notin Sets(j)
      BY SetsFacts DEF Inputs
    <2>3. line' = line \o <<m>>
      BY <2>1 DEF Publish
    <2> HIDE DEF m
    <2>4. <<m>> \in Seq(AnyMessage) /\ \A j \in Inputs : Lacks(<<m>>, Sets(j))
      BY <2>2, OneMessage
    <2>5. UNCHANGED <<hands, unheard, pressed, ignored>> /\ queued' = 0
      BY <1>4 DEF SelectTab, OpenScreenShareWindow, Noticed, Acts, sharerVars
    <2>6. queued' \in Nat /\ QueuedIsHeld'
      BY <2>5 DEF QueuedIsHeld
    <2> QED BY <2>3, <2>4, <2>5, <2>6, SendingKeeps
  <1> QED BY <1>2, <1>3, <1>4

--------------------------------------------------------------------------------
(* The sharer. *)

\* What handling the message h may do: of the keys that h sets it sets or drops them all,
\* and of the others it releases at most the modifier and the chord's key.
LEMMA HandledKeeps ==
  ASSUME InputInv, NEW type, Handles(type), NEW h, h = Head(line),
         \A k \in Inputs : h \in Sets(k) =>
            \/ k \in ignored'
            \/ \A d \in BOOLEAN : h \in SetsTo(k, d) => (k \in pressed' <=> d),
         \A k \in Inputs : h \notin Sets(k) =>
            /\ k \in ignored => k \in ignored'
            /\ \/ k \in pressed' <=> k \in pressed
               \/ k \in {Mod, Clip} /\ k \notin pressed'
  PROVE  InputInv'
  <1>1. /\ line \in Seq(AnyMessage) /\ line # <<>> /\ line' = Tail(line)
        /\ UNCHANGED <<hands, unheard, queued>> /\ queued \in Nat /\ QueuedIsHeld
    BY DEF InputInv, Handles, watcherVars
  <1>2. /\ line' \in Seq(AnyMessage)
        /\ \A S : Lacks(line, S) <=> h \notin S /\ Lacks(line', S)
        /\ \A S, T : EndsIn(line, S, T) => EndsIn(line', S, T) \/ (h \in T /\ Lacks(line', S))
    BY <1>1, TailQueue
  <1>3. KeysReach'
    <2> SUFFICES ASSUME NEW k \in Inputs, k \notin unheard,
                        k \in {Letter, Button} \/ k \notin hands
                 PROVE  Reaches(k)'
      BY <1>1 DEF KeysReach
    <2>1. Reaches(k)
      BY DEF InputInv, KeysReach
    <2>2. k \in {Mod, Clip} => k \notin hands
      BY DEF Mod, Clip, Letter, Button
    <2>3. CASE EndsIn(line, Sets(k), SetsTo(k, k \in hands))
      <3>1. CASE EndsIn(line', Sets(k), SetsTo(k, k \in hands))
        BY <1>1, <3>1 DEF Reaches
      <3>2. CASE h \in SetsTo(k, k \in hands) /\ Lacks(line', Sets(k))
        <4>1. h \in Sets(k)
          BY <3>2 DEF Sets, SetsTo
        <4>2. k \in ignored' \/ (k \in pressed' <=> k \in hands)
          <5>1. CASE k \in hands
            <6>1. h \in SetsTo(k, TRUE)
              BY <3>2, <5>1 DEF SetsTo
            <6> QED BY <4>1, <5>1, <6>1
          <5>2. CASE k \notin hands
            <6>1. h \in SetsTo(k, FALSE)
              BY <3>2, <5>2 DEF SetsTo
            <6> QED BY <4>1, <5>2, <6>1
          <5> QED BY <5>1, <5>2
        <4> QED BY <1>1, <3>2, <4>2 DEF Reaches
      <3> QED BY <1>2, <2>3, <3>1, <3>2
    <2>4. CASE Lacks(line, Sets(k)) /\ (k \in ignored \/ (k \in pressed <=> k \in hands))
      <3>1. h \notin Sets(k) /\ Lacks(line', Sets(k))
        BY <1>2, <2>4
      <3>2. k \in ignored' \/ (k \in pressed' <=> k \in hands)
        BY <2>2, <2>4, <3>1
      <3> QED BY <1>1, <3>1, <3>2 DEF Reaches
    <2> QED BY <2>1, <2>3, <2>4 DEF Reaches
  <1> QED BY <1>1, <1>2, <1>3 DEF InputInv, QueuedIsHeld

LEMMA SharerKeeps ==
  ASSUME InputInv, Keystroke \/ MouseClick \/ CopyOrPaste \/ DrawingMode
  PROVE  InputInv'
  <1> DEFINE h == Head(line)
  <1>1. \A type : Handles(type) => h \in AnyMessage /\ h.type = type
    BY TailQueue DEF Handles, InputInv
  <1> HIDE DEF h
  <1>2. ASSUME Keystroke \/ MouseClick PROVE InputInv'
    <2>1. /\ Handles("key") \/ Handles("click")
          /\ \/ Dropped(h)
             \/ Simulated(h)
      BY <1>2 DEF Keystroke, MouseClick, h
    <2>2. /\ h \in AnyMessage /\ h.key \in Inputs /\ h.down \in BOOLEAN
          /\ h.type \in {"key", "click"}
      BY <1>1, <2>1 DEF AnyMessage
    <2>3. \A k \in Inputs : /\ h \in Sets(k) <=> h.key = k
                            /\ \A d \in BOOLEAN : h \in SetsTo(k, d) => h.down = d
      BY <2>2, SetsFacts
    <2>4. CASE Dropped(h)
      <3>1. \A k \in Inputs : h \in Sets(k) => k \in ignored'
        BY <2>3, <2>4 DEF Dropped
      <3>2. \A k \in Inputs : (k \in ignored => k \in ignored') /\ pressed' = pressed
        BY <2>4 DEF Dropped
      <3> QED BY <2>1, <3>1, <3>2, HandledKeeps DEF h
    <2>5. CASE Simulated(h)
      <3>1. /\ pressed' = IF h.down THEN pressed \cup {h.key} ELSE pressed \ {h.key}
            /\ ignored' = ignored \ {h.key}
        BY <2>5 DEF Simulated
      <3>2. \A k \in Inputs : h \in Sets(k) =>
              \A d \in BOOLEAN : h \in SetsTo(k, d) => (k \in pressed' <=> d)
        BY <2>2, <2>3, <3>1
      <3>3. \A k \in Inputs : h \notin Sets(k) =>
              (k \in ignored => k \in ignored') /\ (k \in pressed' <=> k \in pressed)
        BY <2>2, <2>3, <3>1
      <3> QED BY <2>1, <3>2, <3>3, HandledKeeps DEF h
    <2> QED BY <2>1, <2>4, <2>5
  <1>3. ASSUME CopyOrPaste \/ DrawingMode PROVE InputInv'
    <2>1. /\ Handles("chord") \/ Handles("mode")
          /\ ignored' = ignored /\ (pressed' = pressed \/ pressed' = pressed \ {Mod, Clip})
      BY <1>3 DEF CopyOrPaste, DrawingMode, ShortcutKeySequence
    <2>2. h \in AnyMessage /\ h.type \notin {"key", "click"}
      BY <1>1, <2>1
    <2>3. \A k \in Inputs : h \notin Sets(k)
      BY <2>2, SetsFacts
    <2>4. \A k \in Inputs : \/ k \in pressed' <=> k \in pressed
                            \/ k \in {Mod, Clip} /\ k \notin pressed'
      BY <2>1
    <2> QED BY <2>1, <2>3, <2>4, HandledKeeps DEF h
  <1> QED BY <1>2, <1>3

LEMMA InputNextInv == InputInv /\ [InputNext]_inputVars => InputInv'
  <1> SUFFICES ASSUME InputInv, [InputNext]_inputVars PROVE InputInv'
    OBVIOUS
  <1>1. CASE \/ UNCHANGED inputVars \/ ControlEnds \/ ControlBegins
             \/ \E e \in BOOLEAN : ControllerCursorEnabled(e)
    <2>1. UNCHANGED <<line, queued, hands, unheard, pressed, ignored>>
      BY <1>1 DEF inputVars, watcherVars, sharerVars, ControlEnds, ControlBegins,
                  ControllerCursorEnabled, Changes
    <2> QED BY <2>1 DEF InputInv, QueuedIsHeld, KeysReach, Reaches
  <1>2. CASE \E k \in Keys, down \in BOOLEAN : KeyboardInput(k, down)
    BY <1>2, KeyboardInputKeeps
  <1>3. CASE \E down \in BOOLEAN : MouseInput(down)
    BY <1>3, MouseInputKeeps
  <1>4. CASE \/ \E k \in Inputs : NotForTheSharer(k)
             \/ CursorEnters \/ CursorLeaves \/ SelectTab
             \/ CloseScreenShareWindow \/ OpenScreenShareWindow
             \/ \E e \in BOOLEAN : SharerControlEnabled(e)
    BY <1>4, WindowKeeps
  <1>5. CASE Keystroke \/ MouseClick \/ CopyOrPaste \/ DrawingMode
    BY <1>5, SharerKeeps
  <1> QED BY <1>1, <1>2, <1>3, <1>4, <1>5 DEF InputNext, Inputs

\* Whatever is pressed and released, on whichever tab, and however the sharer's setting
\* and shares cross it: when all messages have been handled the sharer's machine holds
\* down only what the watcher holds, and all plain keys and buttons that he holds, but for
\* those whose last message was not sent or was dropped (handle_window_event of
\* screensharing_window.rs, simulate_keystrokes and mouse_click_controller).
THEOREM HeldKeysAreReal == InputSpec => []KeysFollowHands
  <1>1. InputInv => KeysFollowHands
    BY EmptyQueue DEF InputInv, KeysReach, Reaches, KeysFollowHands, Followed, Inputs
  <1> QED BY <1>1, InputInitInv, InputNextInv, PTL DEF InputSpec

--------------------------------------------------------------------------------
(* Drawing: what the messages under way will make of the picture that is looked on. *)

AnyPicture == [mode : DrawModes, current : Nat, done : SUBSET Nat]
DrawMessage == [type : {"mode", "start", "end", "clear", "clearAll"}, id : Nat,
                mode : DrawModes, share : Nat]

\* Handled one after the other, the messages of q turn the picture s into d.
Replays(s, q, d) ==
    \E f \in [0..Len(q) -> AnyPicture] :
        f[0] = s /\ f[Len(q)] = d /\ \A i \in 1..Len(q) : f[i] = Applied(f[i - 1], q[i])

\* The last mode that q names is m; it is that of s if q names none.
ModeEnds(s, q, m) ==
    \/ s.mode = m /\ \A i \in 1..Len(q) : q[i].type # "mode"
    \/ \E i \in 1..Len(q) :
         /\ q[i].type = "mode" /\ q[i].mode = m
         /\ \A j \in 1..Len(q) : j > i => q[j].type # "mode"

LEMMA AppliedType ==
  ASSUME NEW d \in AnyPicture, NEW m \in DrawMessage
  PROVE  Applied(d, m) \in AnyPicture
  BY DEF AnyPicture, DrawMessage, Applied, SetMode, StartPath, FinishPath, ClearPath,
         ClearPaths, Blank, DrawModes

LEMMA NothingToReplay ==
  ASSUME NEW s \in AnyPicture
  PROVE  /\ Replays(s, <<>>, s)
         /\ \A d : Replays(s, <<>>, d) => d = s
         /\ \A m : ModeEnds(s, <<>>, m) <=> s.mode = m
  <1>1. Len(<<>>) = 0 /\ 0..0 = {0} /\ 1..0 = {}
    OBVIOUS
  <1>2. Replays(s, <<>>, s)
    <2>1. [i \in 0..0 |-> s] \in [0..Len(<<>>) -> AnyPicture]
      BY <1>1
    <2> QED BY <1>1, <2>1 DEF Replays
  <1> QED BY <1>1, <1>2 DEF Replays, ModeEnds

LEMMA ReplayOneMore ==
  ASSUME NEW s, NEW q \in Seq(DrawMessage), NEW m \in DrawMessage
  PROVE  /\ Append(q, m) \in Seq(DrawMessage)
         /\ \A d : Replays(s, q, d) =>
              d \in AnyPicture /\ Replays(s, Append(q, m), Applied(d, m))
         /\ m.type = "mode" => ModeEnds(s, Append(q, m), m.mode)
         /\ \A mode : m.type # "mode" /\ ModeEnds(s, q, mode) => ModeEnds(s, Append(q, m), mode)
  <1> DEFINE a == Append(q, m)
             n == Len(q)
  <1>1. /\ n \in Nat /\ a \in Seq(DrawMessage) /\ Len(a) = n + 1
        /\ \A i \in 1..n : a[i] = q[i]
        /\ a[n + 1] = m
    BY AppendProperties, LenProperties
  <1> HIDE DEF a, n
  <1>2. /\ \A i \in 1..(n + 1) : i = n + 1 \/ i \in 1..n
        /\ \A i \in 1..n : i \in 1..(n + 1) /\ i # n + 1 /\ i <= n
        /\ n + 1 \in 1..(n + 1) /\ n \in 0..n
        /\ \A i \in 1..(n + 1) : ~(i > n + 1)
    BY <1>1
  <1>3. ASSUME NEW d, Replays(s, q, d)
        PROVE  d \in AnyPicture /\ Replays(s, a, Applied(d, m))
    <2>1. PICK f \in [0..n -> AnyPicture] :
            f[0] = s /\ f[n] = d /\ \A i \in 1..n : f[i] = Applied(f[i - 1], q[i])
      BY <1>3 DEF Replays, n
    <2>2. d \in AnyPicture
      BY <1>2, <2>1
    <2> DEFINE g == [i \in 0..(n + 1) |-> IF i = n + 1 THEN Applied(d, m) ELSE f[i]]
    <2>3. g \in [0..Len(a) -> AnyPicture]
      <3>1. \A i \in 0..(n + 1) : i # n + 1 => i \in 0..n
        BY <1>1
      <3> QED BY <1>1, <2>1, <2>2, <3>1, AppliedType
    <2>4. g[0] = s /\ g[Len(a)] = Applied(d, m)
      BY <1>1, <2>1
    <2>5. ASSUME NEW i \in 1..Len(a) PROVE g[i] = Applied(g[i - 1], a[i])
      <3>1. CASE i = n + 1
        BY <1>1, <2>1, <3>1
      <3>2. CASE i \in 1..n
        <4>1. /\ i \in 0..(n + 1) /\ i # n + 1
              /\ i - 1 \in 0..(n + 1) /\ i - 1 # n + 1
          BY <1>1, <3>2
        <4>2. g[i] = f[i] /\ g[i - 1] = f[i - 1]
          BY <4>1
        <4> QED BY <1>1, <2>1, <3>2, <4>2
      <3> QED BY <1>1, <1>2, <3>1, <3>2
    <2> HIDE DEF g
    <2> QED BY <2>2, <2>3, <2>4, <2>5 DEF Replays
  <1>4. m.type = "mode" => ModeEnds(s, a, m.mode)
    BY <1>1, <1>2 DEF ModeEnds
  <1>5. ASSUME NEW mode, m.type # "mode", ModeEnds(s, q, mode) PROVE ModeEnds(s, a, mode)
    <2>1. CASE s.mode = mode /\ \A i \in 1..n : q[i].type # "mode"
      BY <1>1, <1>2, <1>5, <2>1 DEF ModeEnds
    <2>2. CASE \E i \in 1..n : /\ q[i].type = "mode" /\ q[i].mode = mode
                               /\ \A j \in 1..n : j > i => q[j].type # "mode"
      <3>1. PICK i \in 1..n : /\ q[i].type = "mode" /\ q[i].mode = mode
                              /\ \A j \in 1..n : j > i => q[j].type # "mode"
        BY <2>2
      <3>2. i \in 1..Len(a) /\ a[i] = q[i]
        BY <1>1, <1>2
      <3>3. \A j \in 1..Len(a) : j > i => a[j].type # "mode"
        BY <1>1, <1>2, <1>5, <3>1
      <3> QED BY <3>1, <3>2, <3>3 DEF ModeEnds
    <2> QED BY <1>5, <2>1, <2>2 DEF ModeEnds, n
  <1> QED BY <1>1, <1>3, <1>4, <1>5 DEF a

LEMMA ReplayOneLess ==
  ASSUME NEW s \in AnyPicture, NEW q \in Seq(DrawMessage), q # <<>>
  PROVE  /\ Head(q) \in DrawMessage /\ Tail(q) \in Seq(DrawMessage)
         /\ \A d : Replays(s, q, d) => Replays(Applied(s, Head(q)), Tail(q), d)
         /\ \A mode : ModeEnds(s, q, mode) => ModeEnds(Applied(s, Head(q)), Tail(q), mode)
  <1> DEFINE a == Tail(q)
             n == Len(q) - 1
             h == Head(q)
  <1>1. /\ Len(q) = n + 1 /\ n \in Nat /\ a \in Seq(DrawMessage) /\ Len(a) = n
        /\ h = q[1] /\ h \in DrawMessage
        /\ \A i \in 1..n : a[i] = q[i + 1]
    BY HeadTailProperties, LenProperties, EmptySeq
  <1> HIDE DEF a, n, h
  <1>2. /\ \A i \in 1..n : i \in Int /\ i + 1 \in 1..(n + 1) /\ i + 1 > 1
        /\ \A i \in 1..(n + 1) : i \in Int /\ (i = 1 \/ (i > 1 /\ i - 1 \in 1..n))
        /\ 1 \in 1..(n + 1)
    BY <1>1
  <1>3. ASSUME NEW d, Replays(s, q, d) PROVE Replays(Applied(s, h), a, d)
    <2>1. PICK f \in [0..(n + 1) -> AnyPicture] :
            /\ f[0] = s /\ f[n + 1] = d
            /\ \A i \in 1..(n + 1) : f[i] = Applied(f[i - 1], q[i])
      BY <1>1, <1>3 DEF Replays
    <2> DEFINE g == [i \in 0..n |-> f[i + 1]]
    <2>2. g \in [0..Len(a) -> AnyPicture]
      BY <1>1, <2>1
    <2>3. g[0] = Applied(s, h) /\ g[Len(a)] = d
      <3>1. f[1] = Applied(f[1 - 1], q[1]) /\ 1 - 1 = 0
        BY <1>2, <2>1
      <3> QED BY <1>1, <2>1, <3>1
    <2>4. ASSUME NEW i \in 1..Len(a) PROVE g[i] = Applied(g[i - 1], a[i])
      <3>1. /\ i \in 0..n /\ i - 1 \in 0..n /\ (i - 1) + 1 = i /\ (i + 1) - 1 = i
        BY <1>1
      <3>2. g[i] = f[i + 1] /\ g[i - 1] = f[i] /\ a[i] = q[i + 1]
        BY <1>1, <3>1
      <3>3. f[i + 1] = Applied(f[(i + 1) - 1], q[i + 1])
        BY <1>1, <1>2, <2>1
      <3> QED BY <3>1, <3>2, <3>3
    <2> HIDE DEF g
    <2> QED BY <2>2, <2>3, <2>4 DEF Replays
  <1>4. ASSUME NEW mode, ModeEnds(s, q, mode) PROVE ModeEnds(Applied(s, h), a, mode)
    <2>1. /\ h.type = "mode" => Applied(s, h).mode = h.mode
          /\ h.type # "mode" => Applied(s, h).mode = s.mode
      BY <1>1 DEF AnyPicture, DrawMessage, Applied, SetMode, StartPath, FinishPath,
                  ClearPath, ClearPaths, Blank
    <2>2. CASE s.mode = mode /\ \A i \in 1..(n + 1) : q[i].type # "mode"
      BY <1>1, <1>2, <2>1, <2>2 DEF ModeEnds
    <2>3. ASSUME NEW i \in 1..(n + 1), q[i].type = "mode", q[i].mode = mode,
                 \A j \in 1..(n + 1) : j > i => q[j].type # "mode"
          PROVE  ModeEnds(Applied(s, h), a, mode)
      <3>1. CASE i = 1
        <4>1. \A j \in 1..n : a[j].type # "mode"
          BY <1>1, <1>2, <2>3, <3>1
        <4> QED BY <1>1, <2>1, <2>3, <3>1, <4>1 DEF ModeEnds
      <3>2. CASE i # 1
        <4>1. i - 1 \in 1..n /\ a[i - 1] = q[i]
          BY <1>1, <1>2, <3>2
        <4>2. \A j \in 1..n : j > i - 1 => a[j].type # "mode"
          BY <1>1, <1>2, <2>3
        <4> QED BY <1>1, <2>3, <4>1, <4>2 DEF ModeEnds
      <3> QED BY <3>1, <3>2
    <2> QED BY <1>1, <1>4, <2>2, <2>3 DEF ModeEnds
  <1> QED BY <1>1, <1>3, <1>4 DEF a, h

\* A path is drawn once, and none is in progress and completed.
PathsAreFresh ==
    /\ picture.done \subseteq 1..path
    /\ picture.current = 0 \/ picture.current \in (1..path) \ picture.done

Empty(d) == d.current = 0 /\ d.done = {}

\* The mode of the artist's window; beside the drawing tab it keeps no path.
ArtistsMode ==
    /\ artist = "sharer" /\ board = "shown" => picture.mode # "Disabled"
    /\ artist = "watcher" =>
         /\ toggles = 0
         /\ tab # "draw" => Empty(picture)
         /\ offTab => tab # "draw"
         /\ ~offTab => picture.mode = ModeOf(tab)

\* What PictureArrives says of the picture that is looked on.
Matches(d) ==
    /\ d.current = Shown.current /\ d.done = Shown.done
    /\ (artist = "sharer" /\ board = "shown") => d.mode # "Disabled"
    /\ (artist = "watcher" /\ ~offTab) => d.mode = ModeOf(tab)

Viewed == share # 0 /\ view = share
WillMatch == Viewed /\ ~astray => \E d : Replays(seen, wire, d) /\ Matches(d)

\* Also when messages were missed, the mode will be right.
ModeWillMatch ==
    Viewed /\ artist = "watcher" /\ ~offTab => ModeEnds(seen, wire, ModeOf(tab))

DrawingTypes ==
    /\ artist \in {"sharer", "watcher"} /\ board \in {"absent", "hidden", "shown"}
    /\ shares \in Nat /\ share \in Nat /\ share <= shares
    /\ view \in Nat /\ view <= shares
    /\ toggles \in Nat /\ tab \in Tabs /\ persist \in BOOLEAN /\ path \in Nat
    /\ picture \in AnyPicture /\ seen \in AnyPicture /\ wire \in Seq(DrawMessage)
    /\ astray \in BOOLEAN /\ offTab \in BOOLEAN

DrawingInv == DrawingTypes /\ PathsAreFresh /\ ArtistsMode /\ WillMatch /\ ModeWillMatch

LEMMA DrawingInitInv == DrawingInit => DrawingInv
  <1> SUFFICES ASSUME DrawingInit PROVE DrawingInv
    OBVIOUS
  <1>1. seen \in AnyPicture /\ picture \in AnyPicture
    BY DEF DrawingInit, AnyPicture, Blank, DrawModes
  <1>2. DrawingTypes /\ ~Viewed
    <2>1. wire \in Seq(DrawMessage)
      BY DEF DrawingInit
    <2>2. tab \in Tabs
      BY DEF DrawingInit, Tabs
    <2>3. share <= shares /\ view <= shares
      BY DEF DrawingInit
    <2> QED BY <1>1, <2>1, <2>2, <2>3 DEF DrawingInit, DrawingTypes, Viewed
  <1>3. picture.done = {} /\ picture.current = 0 /\ picture.mode = "Disabled"
    BY DEF DrawingInit, Blank
  <1>4. PathsAreFresh /\ ArtistsMode
    BY <1>3 DEF DrawingInit, PathsAreFresh, ArtistsMode, ModeOf, Empty
  <1> QED BY <1>2, <1>4 DEF DrawingInv, WillMatch, ModeWillMatch

LEMMA DrawingInvArrives == DrawingInv => PictureArrives
  <1> SUFFICES ASSUME DrawingInv, InSync PROVE PictureArrives
    BY DEF PictureArrives
  <1>1. PICK d : Replays(seen, wire, d) /\ Matches(d)
    BY DEF DrawingInv, WillMatch, InSync, Viewed
  <1>2. d = seen
    BY <1>1, NothingToReplay DEF DrawingInv, DrawingTypes, InSync
  <1> QED BY <1>1, <1>2 DEF Matches, PictureArrives

--------------------------------------------------------------------------------
(* Drawing: what is published. *)

\* A message as it is published: of the share it is about.
Sent(m) == [m EXCEPT !.share = About]

LEMMA SentMessage ==
  ASSUME DrawingTypes, NEW m \in DrawMessage
  PROVE  /\ Sent(m) \in DrawMessage /\ Sent(m).type = m.type /\ Sent(m).mode = m.mode
         /\ \A d : Applied(d, Sent(m)) = Applied(d, m)
  BY DEF DrawingTypes, DrawMessage, Sent, About, Applied

LEMMA MessageTypes ==
  /\ \A mode \in DrawModes :
       /\ ModeMessage(mode) \in DrawMessage
       /\ ModeMessage(mode).type = "mode" /\ ModeMessage(mode).mode = mode
       /\ \A d : Applied(d, ModeMessage(mode)) = SetMode(d, mode)
  /\ \A id \in Nat :
       /\ \A type \in {"start", "end", "clear", "clearAll"} :
            PathMessage(type, id) \in DrawMessage /\ PathMessage(type, id).type = type
       /\ \A d : /\ Applied(d, PathMessage("start", id)) = StartPath(d, id)
                 /\ Applied(d, PathMessage("end", id)) = FinishPath(d)
                 /\ Applied(d, PathMessage("clear", id)) = ClearPath(d, id)
                 /\ Applied(d, PathMessage("clearAll", id)) = ClearPaths(d)
  BY DEF ModeMessage, PathMessage, Message, DrawMessage, DrawModes, Applied

LEMMA ModeOfType ==
  ASSUME DrawingTypes, NEW t \in Tabs
  PROVE  ModeOf(t) \in DrawModes /\ DrawMode(persist) \in DrawModes
  BY DEF DrawingTypes, ModeOf, DrawMode, DrawModes, Tabs

LEMMA PublishedOne ==
  ASSUME DrawingTypes, NEW m \in DrawMessage, Published(<<m>>)
  PROVE  wire' = Append(wire, Sent(m))
  <1> DEFINE t == [i \in 1..Len(<<m>>) |-> [<<m>>[i] EXCEPT !.share = About]]
  <1>1. wire' = wire \o t
    BY DEF Published
  <1>2. t = <<Sent(m)>>
    <2>1. Len(<<m>>) = 1 /\ 1..1 = {1} /\ <<m>>[1] = m
      OBVIOUS
    <2>2. t = [i \in 1..1 |-> Sent(m)]
      BY <2>1 DEF Sent
    <2>3. <<Sent(m)>> = [i \in 1..1 |-> Sent(m)]
      OBVIOUS
    <2> QED BY <2>2, <2>3
  <1>3. Sent(m) \in DrawMessage
    BY SentMessage
  <1> QED BY <1>1, <1>2, <1>3, AppendIsConcat DEF DrawingTypes

LEMMA PublishedTwo ==
  ASSUME DrawingTypes, NEW m \in DrawMessage, NEW n \in DrawMessage, Published(<<m, n>>)
  PROVE  wire' = Append(Append(wire, Sent(m)), Sent(n))
  <1> DEFINE t == [i \in 1..Len(<<m, n>>) |-> [<<m, n>>[i] EXCEPT !.share = About]]
  <1>1. wire' = wire \o t
    BY DEF Published
  <1>2. Sent(m) \in DrawMessage /\ Sent(n) \in DrawMessage
    BY SentMessage
  <1>3. t = <<Sent(m), Sent(n)>>
    <2>1. Len(<<m, n>>) = 2 /\ 1..2 = {1, 2} /\ <<m, n>>[1] = m /\ <<m, n>>[2] = n
      OBVIOUS
    <2>2. t = [i \in 1..2 |-> IF i = 1 THEN Sent(m) ELSE Sent(n)]
      BY <2>1 DEF Sent
    <2>3. <<Sent(m), Sent(n)>> = [i \in 1..2 |-> IF i = 1 THEN Sent(m) ELSE Sent(n)]
      <3>1. \A x, y : <<x, y>> = [i \in 1..2 |-> IF i = 1 THEN x ELSE y]
        OBVIOUS
      <3> QED BY <3>1
    <2> QED BY <2>2, <2>3
  <1> HIDE DEF t
  <1>4. wire \o <<Sent(m), Sent(n)>> = Append(Append(wire, Sent(m)), Sent(n))
    BY <1>2, ConcatQueue DEF DrawingTypes
  <1> QED BY <1>1, <1>3, <1>4
\* What each operation makes of a picture.
LEMMA SetModeFacts ==
  ASSUME NEW d \in AnyPicture, NEW mode \in DrawModes
  PROVE  /\ Blank(mode) \in AnyPicture /\ Blank(mode).mode = mode
         /\ Blank(mode).current = 0 /\ Blank(mode).done = {}
         /\ SetMode(d, mode) \in AnyPicture /\ SetMode(d, mode).mode = mode
         /\ mode # "Disabled" =>
              SetMode(d, mode).current = d.current /\ SetMode(d, mode).done = d.done
         /\ mode = "Disabled" => SetMode(d, mode).current = 0 /\ SetMode(d, mode).done = {}
         /\ d.mode \in DrawModes
  BY DEF AnyPicture, Blank, SetMode

LEMMA StartFacts ==
  ASSUME NEW d \in AnyPicture, NEW id \in Nat
  PROVE  /\ StartPath(d, id) \in AnyPicture /\ StartPath(d, id).mode = d.mode
         /\ StartPath(d, id).done = d.done
         /\ d.mode # "Disabled" => StartPath(d, id).current = id
  BY DEF AnyPicture, StartPath

LEMMA EndFacts ==
  ASSUME NEW d \in AnyPicture
  PROVE  /\ FinishPath(d) \in AnyPicture /\ FinishPath(d).mode = d.mode
         /\ d.mode # "Disabled" =>
              /\ FinishPath(d).current = 0
              /\ FinishPath(d).done =
                   IF d.current = 0 THEN d.done ELSE d.done \cup {d.current}
         /\ ClearPaths(d) \in AnyPicture /\ ClearPaths(d).mode = d.mode
         /\ ClearPaths(d).current = 0 /\ ClearPaths(d).done = {}
  BY DEF AnyPicture, FinishPath, ClearPaths, Blank

\* One message, or two of which the last names the mode, that do to the picture that is
\* looked on what the artist does to his own.
LEMMA OneIsPublished ==
  ASSUME DrawingInv, DrawingTypes', NEW m \in DrawMessage, Published(<<m>>),
         UNCHANGED <<artist, share, view, seen, astray>>,
         \A d \in AnyPicture : Matches(d) => Matches(Applied(d, m))',
         artist = "watcher" /\ ~offTab' =>
             IF m.type = "mode" THEN m.mode = ModeOf(tab)'
             ELSE ModeOf(tab)' = ModeOf(tab) /\ ~offTab
  PROVE  WillMatch' /\ ModeWillMatch'
  <1>1. wire' = Append(wire, Sent(m)) /\ DrawingTypes
    BY PublishedOne DEF DrawingInv
  <1>2. /\ Sent(m) \in DrawMessage /\ Sent(m).type = m.type /\ Sent(m).mode = m.mode
        /\ \A d : Applied(d, Sent(m)) = Applied(d, m)
    BY <1>1, SentMessage
  <1>3. wire \in Seq(DrawMessage)
    BY <1>1 DEF DrawingTypes
  <1>4. WillMatch'
    <2> SUFFICES ASSUME Viewed', ~astray'
                 PROVE  \E d : Replays(seen', wire', d) /\ Matches(d)'
      BY DEF WillMatch
    <2>1. PICK d : Replays(seen, wire, d) /\ Matches(d)
      BY DEF DrawingInv, WillMatch, Viewed
    <2>2. d \in AnyPicture /\ Replays(seen, Append(wire, Sent(m)), Applied(d, Sent(m)))
      BY <1>2, <1>3, <2>1, ReplayOneMore
    <2>3. Matches(Applied(d, m))'
      BY <2>1, <2>2
    <2> QED BY <1>1, <1>2, <2>2, <2>3
  <1>5. ModeWillMatch'
    <2> SUFFICES ASSUME Viewed', artist = "watcher", ~offTab'
                 PROVE  ModeEnds(seen, wire', ModeOf(tab)')
      BY DEF ModeWillMatch
    <2>1. CASE m.type = "mode"
      BY <1>1, <1>2, <1>3, <2>1, ReplayOneMore
    <2>2. CASE m.type # "mode"
      <3>1. ModeEnds(seen, wire, ModeOf(tab)')
        BY <2>2 DEF DrawingInv, ModeWillMatch, Viewed
      <3> QED BY <1>1, <1>2, <1>3, <2>2, <3>1, ReplayOneMore
    <2> QED BY <2>1, <2>2
  <1> QED BY <1>4, <1>5

LEMMA TwoArePublished ==
  ASSUME DrawingInv, DrawingTypes',
         NEW m \in DrawMessage, NEW n \in DrawMessage, Published(<<m, n>>),
         UNCHANGED <<artist, share, view, seen, astray>>,
         \A d \in AnyPicture : Matches(d) => Matches(Applied(Applied(d, m), n))',
         n.type = "mode",
         artist = "watcher" /\ ~offTab' => n.mode = ModeOf(tab)'
  PROVE  WillMatch' /\ ModeWillMatch'
  <1>1. wire' = Append(Append(wire, Sent(m)), Sent(n)) /\ DrawingTypes
    BY PublishedTwo DEF DrawingInv
  <1>2. /\ Sent(m) \in DrawMessage
        /\ \A d : Applied(d, Sent(m)) = Applied(d, m)
    BY <1>1, SentMessage
  <1>3. /\ Sent(n) \in DrawMessage /\ Sent(n).type = n.type /\ Sent(n).mode = n.mode
        /\ \A d : Applied(d, Sent(n)) = Applied(d, n)
    BY <1>1, SentMessage
  <1>4. wire \in Seq(DrawMessage) /\ Append(wire, Sent(m)) \in Seq(DrawMessage)
    BY <1>1, <1>2, AppendProperties DEF DrawingTypes
  <1>5. WillMatch'
    <2> SUFFICES ASSUME Viewed', ~astray'
                 PROVE  \E d : Replays(seen', wire', d) /\ Matches(d)'
      BY DEF WillMatch
    <2>1. PICK d : Replays(seen, wire, d) /\ Matches(d)
      BY DEF DrawingInv, WillMatch, Viewed
    <2>2. d \in AnyPicture /\ Replays(seen, Append(wire, Sent(m)), Applied(d, Sent(m)))
      BY <1>2, <1>4, <2>1, ReplayOneMore
    <2>3. Replays(seen, wire', Applied(Applied(d, Sent(m)), Sent(n)))
      BY <1>1, <1>3, <1>4, <2>2, ReplayOneMore
    <2>4. Matches(Applied(Applied(d, m), n))'
      BY <2>1, <2>2
    <2> QED BY <1>2, <1>3, <2>3, <2>4
  <1>6. ModeWillMatch'
    <2> SUFFICES ASSUME Viewed', artist = "watcher", ~offTab'
                 PROVE  ModeEnds(seen, wire', ModeOf(tab)')
      BY DEF ModeWillMatch
    <2> QED BY <1>1, <1>3, <1>4, ReplayOneMore
  <1> QED BY <1>5, <1>6

--------------------------------------------------------------------------------
(* Drawing: every step keeps the invariant. *)

LEMMA SharesKeep ==
  ASSUME DrawingInv, BeginShare \/ EndShare
  PROVE  DrawingInv'
  <1>1. DrawingTypes'
    <2>1. Blank("Disabled") \in AnyPicture
      BY DEF AnyPicture, Blank, DrawModes
    <2>2. /\ shares' \in Nat /\ share' \in Nat /\ share' <= shares' /\ view' <= shares'
      BY DEF DrawingInv, DrawingTypes, BeginShare, EndShare
    <2>3. CASE BeginShare
      BY <2>1, <2>2, <2>3 DEF DrawingInv, DrawingTypes, BeginShare, NewOverlay, BoardHidden
    <2>4. CASE EndShare
      BY <2>2, <2>4 DEF DrawingInv, DrawingTypes, EndShare, BoardHidden
    <2> QED BY <2>3, <2>4
  <1>2. ~Viewed'
    BY DEF DrawingInv, DrawingTypes, BeginShare, EndShare, Viewed
  <1>3. /\ UNCHANGED <<artist, picture, path, toggles, tab, offTab, persist>>
        /\ board' # "shown"
    BY DEF DrawingInv, BeginShare, EndShare, BoardHidden
  <1>4. PathsAreFresh'
    BY <1>3 DEF DrawingInv, PathsAreFresh
  <1>5. ArtistsMode'
    BY <1>3 DEF DrawingInv, ArtistsMode, ModeOf, DrawMode
  <1> QED BY <1>1, <1>2, <1>4, <1>5 DEF DrawingInv, WillMatch, ModeWillMatch

LEMMA OverlayRepairedKeeps ==
  ASSUME DrawingInv, OverlayRepaired
  PROVE  DrawingInv'
  <1>1. /\ UNCHANGED <<artist, share, shares, view, board, toggles, tab, persist, path,
                       picture, wire, offTab>>
        /\ artist = "watcher"
        /\ seen' = Blank(seen.mode)
        /\ astray' = (picture.current # 0 \/ picture.done # {} \/ wire # <<>>)
    BY DEF OverlayRepaired, NewOverlay, shareVars, boardVars
  <1>2. /\ seen' \in AnyPicture /\ seen'.mode = seen.mode
        /\ seen'.current = 0 /\ seen'.done = {}
    <2>1. seen.mode \in DrawModes
      BY DEF DrawingInv, DrawingTypes, AnyPicture
    <2> QED BY <1>1, <2>1 DEF Blank, AnyPicture
  <1>3. DrawingTypes'
    BY <1>1, <1>2 DEF DrawingInv, DrawingTypes
  <1>4. PathsAreFresh' /\ ArtistsMode'
    BY <1>1 DEF DrawingInv, PathsAreFresh, ArtistsMode, ModeOf, DrawMode, Empty
  <1>5. ModeWillMatch'
    <2> SUFFICES ASSUME Viewed', ~offTab' PROVE ModeEnds(seen', wire', ModeOf(tab)')
      BY DEF ModeWillMatch
    <2>1. ModeEnds(seen, wire, ModeOf(tab)) /\ ModeOf(tab)' = ModeOf(tab)
      BY <1>1 DEF DrawingInv, ModeWillMatch, Viewed, ModeOf, DrawMode
    <2> QED BY <1>1, <1>2, <2>1 DEF ModeEnds
  <1>6. WillMatch'
    <2> SUFFICES ASSUME Viewed', ~astray'
                 PROVE  \E d : Replays(seen', wire', d) /\ Matches(d)'
      BY DEF WillMatch
    <2>1. wire' = <<>> /\ picture.current = 0 /\ picture.done = {}
      BY <1>1
    <2>2. Replays(seen', wire', seen')
      BY <1>2, <2>1, NothingToReplay
    <2>3. ~offTab' => seen'.mode = ModeOf(tab)'
      BY <1>2, <1>5, <2>1, <1>1, NothingToReplay DEF ModeWillMatch
    <2>4. \A d : d = seen' => Matches(d)'
      BY <1>1, <1>2, <2>1, <2>3 DEF Matches, Shown
    <2> QED BY <2>2, <2>4
  <1> QED BY <1>3, <1>4, <1>5, <1>6 DEF DrawingInv

\* Steps that only hide a window or ask for one.
LEMMA WindowsKeep ==
  ASSUME DrawingInv, WatcherHides \/ AskToggle \/ ToggleWithoutShare \/ BoardCloses
  PROVE  DrawingInv'
  <1>1. /\ UNCHANGED <<artist, share, shares, view, tab, persist, path, picture, seen, wire,
                       offTab>>
        /\ board' = board \/ board' = "hidden"
        /\ toggles' \in Nat /\ (artist = "watcher" => toggles' = 0)
        /\ astray' \in BOOLEAN /\ (~astray' => ~astray /\ board' = board)
    <2>1. toggles \in Nat /\ (artist = "watcher" => toggles = 0) /\ astray \in BOOLEAN
          /\ artist \in {"sharer", "watcher"}
      BY DEF DrawingInv, DrawingTypes, ArtistsMode
    <2>2. CASE WatcherHides
      BY <2>1, <2>2 DEF WatcherHides, boardVars
    <2>3. CASE AskToggle
      BY <2>1, <2>3 DEF AskToggle, shareVars
    <2>4. CASE ToggleWithoutShare
      BY <2>1, <2>4 DEF ToggleWithoutShare, Toggle, shareVars
    <2>5. CASE BoardCloses
      BY <2>1, <2>5 DEF BoardCloses, shareVars
    <2> QED BY <2>2, <2>3, <2>4, <2>5
  <1>2. DrawingTypes'
    BY <1>1 DEF DrawingInv, DrawingTypes
  <1>3. PathsAreFresh' /\ ArtistsMode'
    BY <1>1 DEF DrawingInv, PathsAreFresh, ArtistsMode, ModeOf, DrawMode, Empty
  <1>4. ModeWillMatch'
    BY <1>1 DEF DrawingInv, ModeWillMatch, Viewed, ModeOf, DrawMode
  <1>5. WillMatch'
    <2> SUFFICES ASSUME Viewed', ~astray'
                 PROVE  \E d : Replays(seen', wire', d) /\ Matches(d)'
      BY DEF WillMatch
    <2>1. PICK d : Replays(seen, wire, d) /\ Matches(d)
      BY <1>1 DEF DrawingInv, WillMatch, Viewed
    <2>2. Matches(d)'
      BY <1>1, <2>1 DEF Matches, Shown, ModeOf, DrawMode
    <2> QED BY <1>1, <2>1, <2>2
  <1> QED BY <1>2, <1>3, <1>4, <1>5 DEF DrawingInv

LEMMA HandleDrawingKeeps ==
  ASSUME DrawingInv, HandleDrawing
  PROVE  DrawingInv'
  <1> DEFINE h == Head(wire)
  <1>1. /\ UNCHANGED <<artist, share, shares, view, board, toggles, tab, persist, path,
                       picture, offTab>>
        /\ wire # <<>> /\ wire' = Tail(wire)
        /\ seen' = IF LookingOn THEN Applied(seen, h) ELSE seen
        /\ astray' \in BOOLEAN /\ (~astray' => ~astray /\ LookingOn)
    BY DEF HandleDrawing, shareVars, boardVars, DrawingInv, DrawingTypes
  <1>2. /\ h \in DrawMessage /\ wire' \in Seq(DrawMessage)
        /\ \A d : Replays(seen, wire, d) => Replays(Applied(seen, h), wire', d)
        /\ \A mode : ModeEnds(seen, wire, mode) => ModeEnds(Applied(seen, h), wire', mode)
    BY <1>1, ReplayOneLess DEF DrawingInv, DrawingTypes
  <1>3. DrawingTypes'
    BY <1>1, <1>2, AppliedType DEF DrawingInv, DrawingTypes
  <1>4. PathsAreFresh' /\ ArtistsMode'
    BY <1>1 DEF DrawingInv, PathsAreFresh, ArtistsMode, ModeOf, DrawMode, Empty
  <1>5. WillMatch'
    <2> SUFFICES ASSUME Viewed', ~astray'
                 PROVE  \E d : Replays(seen', wire', d) /\ Matches(d)'
      BY DEF WillMatch
    <2>1. PICK d : Replays(seen, wire, d) /\ Matches(d)
      BY <1>1 DEF DrawingInv, WillMatch, Viewed
    <2>2. Matches(d)'
      BY <1>1, <2>1 DEF Matches, Shown, ModeOf, DrawMode
    <2> QED BY <1>1, <1>2, <2>1, <2>2
  <1>6. ModeWillMatch'
    <2> SUFFICES ASSUME Viewed', artist = "watcher", ~offTab'
                 PROVE  ModeEnds(seen', wire', ModeOf(tab)')
      BY <1>1 DEF ModeWillMatch
    <2>1. ModeEnds(seen, wire, ModeOf(tab)) /\ ModeOf(tab)' = ModeOf(tab) /\ LookingOn
      BY <1>1 DEF DrawingInv, ModeWillMatch, Viewed, ModeOf, DrawMode, LookingOn
    <2> QED BY <1>1, <1>2, <2>1
  <1> QED BY <1>3, <1>4, <1>5, <1>6 DEF DrawingInv

LEMMA WatchNewShareKeeps ==
  ASSUME DrawingInv, NEW remembered \in Tabs, NEW permanent \in BOOLEAN,
         WatchNewShare(remembered, permanent)
  PROVE  DrawingInv'
  <1>1. /\ UNCHANGED <<artist, share, shares, board, toggles>>
        /\ share # 0 /\ view' = share
    BY DEF WatchNewShare
  <1>2. CASE artist = "watcher"
    <2> DEFINE m == [ModeMessage(picture'.mode) EXCEPT !.share = share]
    <2>1. /\ tab' = remembered /\ persist' = permanent /\ path' = 0 /\ offTab' = FALSE
          /\ picture' = Blank(ModeOf(tab)')
          /\ wire' = Append(wire, m)
          /\ astray' = (wire # <<>> \/ seen.current # 0 \/ seen.done # {})
          /\ seen' = seen
      BY <1>2 DEF WatchNewShare, ModeOf
    <2>2. PICK mode \in DrawModes : mode = ModeOf(tab)'
      BY <2>1 DEF ModeOf, DrawMode, DrawModes, Tabs
    <2>3. /\ picture' \in AnyPicture /\ picture'.mode = mode
          /\ picture'.current = 0 /\ picture'.done = {}
      BY <2>1, <2>2 DEF Blank, AnyPicture
    <2>4. /\ m \in DrawMessage /\ m.type = "mode" /\ m.mode = mode
          /\ \A d : Applied(d, m) = SetMode(d, mode)
      BY <2>2, <2>3 DEF ModeMessage, Message, DrawMessage, Applied, DrawingInv, DrawingTypes
    <2>5. wire \in Seq(DrawMessage) /\ seen \in AnyPicture
      BY DEF DrawingInv, DrawingTypes
    <2> HIDE DEF m
    <2>6. wire' \in Seq(DrawMessage)
      BY <2>1, <2>4, <2>5, AppendProperties
    <2>7. DrawingTypes'
      BY <1>1, <2>1, <2>3, <2>6 DEF DrawingInv, DrawingTypes
    <2>8. PathsAreFresh'
      BY <2>3 DEF PathsAreFresh
    <2>9. ArtistsMode'
      BY <1>1, <1>2, <2>1, <2>2, <2>3 DEF ArtistsMode, DrawingInv, Empty
    <2>10. ModeWillMatch'
      BY <2>1, <2>2, <2>4, <2>5, ReplayOneMore DEF ModeWillMatch
    <2>11. WillMatch'
      <3> SUFFICES ASSUME ~astray' PROVE \E d : Replays(seen', wire', d) /\ Matches(d)'
        BY DEF WillMatch
      <3>1. wire = <<>> /\ seen.current = 0 /\ seen.done = {}
        BY <2>1
      <3>2. Replays(seen, wire, seen)
        BY <2>5, <3>1, NothingToReplay
      <3>3. Replays(seen', wire', SetMode(seen, mode))
        <4>1. Replays(seen, Append(wire, m), Applied(seen, m))
          BY <2>4, <2>5, <3>2, ReplayOneMore
        <4> QED BY <2>1, <2>4, <4>1
      <3>4. /\ SetMode(seen, mode).mode = mode
            /\ SetMode(seen, mode).current = 0 /\ SetMode(seen, mode).done = {}
        BY <2>5, <3>1 DEF SetMode, Blank, AnyPicture
      <3>5. Shown' = picture' /\ artist' = "watcher"
        BY <1>1, <1>2 DEF Shown
      <3>6. \A d : d.current = 0 /\ d.done = {} /\ d.mode = mode => Matches(d)'
        BY <2>2, <2>3, <3>5 DEF Matches
      <3> QED BY <3>3, <3>4, <3>6
    <2> QED BY <2>7, <2>8, <2>9, <2>10, <2>11 DEF DrawingInv
  <1>3. CASE artist # "watcher"
    <2>1. /\ artist = "sharer"
          /\ seen' = Blank("Any")
          /\ astray' = (wire # <<>> \/ (board = "shown" /\ picture # Blank(picture.mode)))
          /\ UNCHANGED <<tab, persist, picture, path, offTab, wire>>
      BY <1>3 DEF WatchNewShare, DrawingInv, DrawingTypes
    <2>2. seen' \in AnyPicture
      BY <2>1 DEF AnyPicture, Blank, DrawModes
    <2>3. DrawingTypes'
      BY <1>1, <2>1, <2>2 DEF DrawingInv, DrawingTypes
    <2>4. PathsAreFresh' /\ ArtistsMode' /\ ModeWillMatch'
      BY <1>1, <2>1 DEF DrawingInv, PathsAreFresh, ArtistsMode, ModeWillMatch
    <2>5. WillMatch'
      <3> SUFFICES ASSUME ~astray' PROVE \E d : Replays(seen', wire', d) /\ Matches(d)'
        BY DEF WillMatch
      <3>1. Replays(seen', wire', seen')
        BY <2>1, <2>2, NothingToReplay
      <3>2. seen'.current = 0 /\ seen'.done = {} /\ seen'.mode = "Any"
        BY <2>1 DEF Blank
      <3>3. Shown'.current = 0 /\ Shown'.done = {}
        <4>1. Shown' = Blank(picture.mode)
          BY <1>1, <2>1 DEF Shown
        <4> QED BY <4>1 DEF Blank
      <3>4. \A d : d = seen' => Matches(d)'
        BY <1>1, <2>1, <3>2, <3>3 DEF Matches
      <3> QED BY <3>1, <3>4
    <2> QED BY <2>3, <2>4, <2>5 DEF DrawingInv
  <1> QED BY <1>2, <1>3

LEMMA WatcherReopensKeeps ==
  ASSUME DrawingInv, WatcherReopens
  PROVE  DrawingInv'
  <1>1. /\ UNCHANGED <<artist, share, shares, view, board, toggles, tab, persist, path,
                       picture, seen, astray, offTab>>
        /\ artist = "watcher" => Published(<<ModeMessage(ModeOf(tab))>>)
        /\ artist # "watcher" => wire' = wire
    BY DEF WatcherReopens, boardVars
  <1>2. DrawingTypes /\ tab \in Tabs /\ ModeOf(tab) \in DrawModes
    BY ModeOfType DEF DrawingInv, DrawingTypes
  <1>3. PICK mode \in DrawModes : mode = ModeOf(tab)
    BY <1>2
  <1>4. /\ ModeMessage(mode) \in DrawMessage
        /\ ModeMessage(mode).type = "mode" /\ ModeMessage(mode).mode = mode
        /\ \A d : Applied(d, ModeMessage(mode)) = SetMode(d, mode)
    BY MessageTypes
  <1>5. PathsAreFresh' /\ ArtistsMode' /\ ModeOf(tab)' = mode
    BY <1>1, <1>3 DEF DrawingInv, PathsAreFresh, ArtistsMode, ModeOf, DrawMode, Empty
  <1>6. CASE artist = "watcher"
    <2>1. Published(<<ModeMessage(mode)>>)
      BY <1>1, <1>3, <1>6
    <2>2. DrawingTypes'
      <3>1. wire' \in Seq(DrawMessage)
        BY <1>2, <1>4, <2>1, PublishedOne, SentMessage, AppendProperties DEF DrawingTypes
      <3> QED BY <1>1, <1>2, <3>1 DEF DrawingTypes
    <2>3. ASSUME NEW d \in AnyPicture, Matches(d)
          PROVE  Matches(Applied(d, ModeMessage(mode)))'
      <3> DEFINE e == SetMode(d, mode)
      <3>1. /\ e.mode = mode
            /\ mode # "Disabled" => e.current = d.current /\ e.done = d.done
            /\ mode = "Disabled" => e.current = 0 /\ e.done = {}
        BY SetModeFacts
      <3>2. Shown' = picture /\ Shown = picture
        BY <1>1, <1>6 DEF Shown
      <3>3. mode = "Disabled" => picture.current = 0 /\ picture.done = {}
        BY <1>2, <1>3, <1>6 DEF DrawingInv, ArtistsMode, Empty, ModeOf, DrawMode, Tabs
      <3> HIDE DEF e
      <3>4. Matches(e)'
        BY <1>1, <1>5, <1>6, <2>3, <3>1, <3>2, <3>3 DEF Matches
      <3> QED BY <1>4, <3>4 DEF e
    <2>4. WillMatch' /\ ModeWillMatch'
      BY <1>1, <1>4, <1>5, <2>1, <2>2, <2>3, OneIsPublished
    <2> QED BY <1>5, <2>2, <2>4 DEF DrawingInv
  <1>7. CASE artist # "watcher"
    <2>1. DrawingTypes' /\ ModeWillMatch'
      BY <1>1, <1>2, <1>7 DEF DrawingTypes, ModeWillMatch
    <2>2. WillMatch'
      <3> SUFFICES ASSUME Viewed', ~astray'
                   PROVE  \E d : Replays(seen', wire', d) /\ Matches(d)'
        BY DEF WillMatch
      <3>1. PICK d : Replays(seen, wire, d) /\ Matches(d)
        BY <1>1 DEF DrawingInv, WillMatch, Viewed
      <3>2. Matches(d)'
        BY <1>1, <1>7, <3>1 DEF Matches, Shown
      <3> QED BY <1>1, <1>7, <3>1, <3>2
    <2> QED BY <1>5, <2>1, <2>2 DEF DrawingInv
  <1> QED BY <1>6, <1>7

\* The sharer's drawing window begins, or its mode changes.
LEMMA ModeIsPublished ==
  ASSUME DrawingInv, artist = "sharer", NEW mode \in DrawModes \ {"Disabled"},
         UNCHANGED <<artist, share, shares, view, tab, seen, astray, offTab>>,
         toggles' \in Nat, board' \in {"absent", "hidden", "shown"}, persist' \in BOOLEAN,
         path' \in Nat, picture' \in AnyPicture, PathsAreFresh',
         board' = "shown" => /\ picture'.mode # "Disabled"
                             /\ Shown'.current = Shown.current /\ Shown'.done = Shown.done,
         board' # "shown" => board # "shown",
         Published(<<ModeMessage(mode)>>)
  PROVE  DrawingInv'
  <1>1. DrawingTypes
    BY DEF DrawingInv
  <1>2. /\ ModeMessage(mode) \in DrawMessage
        /\ ModeMessage(mode).type = "mode" /\ ModeMessage(mode).mode = mode
        /\ \A d : Applied(d, ModeMessage(mode)) = SetMode(d, mode)
    BY MessageTypes
  <1>3. DrawingTypes'
    <2>1. wire' \in Seq(DrawMessage)
      BY <1>1, <1>2, PublishedOne, SentMessage, AppendProperties DEF DrawingTypes
    <2> QED BY <1>1, <2>1 DEF DrawingTypes
  <1>4. ArtistsMode'
    BY DEF ArtistsMode
  <1>5. ASSUME NEW d \in AnyPicture, Matches(d)
        PROVE  Matches(Applied(d, ModeMessage(mode)))'
    <2> DEFINE e == SetMode(d, mode)
    <2>1. e.mode = mode /\ e.current = d.current /\ e.done = d.done
      BY SetModeFacts
    <2> HIDE DEF e
    <2>2. d.current = Shown.current /\ d.done = Shown.done
      BY <1>5 DEF Matches
    <2>3. Shown'.current = Shown.current /\ Shown'.done = Shown.done
      <3>1. CASE board' = "shown"
        BY <3>1
      <3>2. CASE board' # "shown"
        <4>1. Shown' = Blank(picture'.mode) /\ Shown = Blank(picture.mode)
          BY <3>2 DEF Shown
        <4> QED BY <4>1 DEF Blank
      <3> QED BY <3>1, <3>2
    <2>4. Matches(e)'
      BY <2>1, <2>2, <2>3 DEF Matches
    <2> QED BY <1>2, <2>4 DEF e
  <1>6. WillMatch' /\ ModeWillMatch'
    BY <1>2, <1>3, <1>5, OneIsPublished
  <1> QED BY <1>3, <1>4, <1>6 DEF DrawingInv

LEMMA DrawingBeginsKeeps ==
  ASSUME DrawingInv, NEW permanent \in BOOLEAN, DrawingBegins(permanent)
  PROVE  DrawingInv'
  <1>1. /\ artist = "sharer" /\ toggles' \in Nat
        /\ UNCHANGED <<artist, share, shares, view, tab, seen, astray, offTab>>
        /\ board # "shown" /\ board' = "shown" /\ persist' = permanent /\ path' = 0
        /\ picture' = Blank(DrawMode(permanent))
        /\ Published(<<ModeMessage(DrawMode(permanent))>>)
    BY DEF DrawingBegins, Toggle, shareVars, DrawingInv, DrawingTypes, ArtistsMode
  <1>2. DrawMode(permanent) \in DrawModes \ {"Disabled"}
    BY DEF DrawMode, DrawModes
  <1>3. /\ picture' \in AnyPicture /\ picture'.mode = DrawMode(permanent)
        /\ picture'.current = 0 /\ picture'.done = {}
    BY <1>1, <1>2 DEF Blank, AnyPicture
  <1>4. PathsAreFresh'
    BY <1>3 DEF PathsAreFresh
  <1>5. Shown'.current = Shown.current /\ Shown'.done = Shown.done
    <2>1. Shown' = picture' /\ Shown = Blank(picture.mode)
      BY <1>1 DEF Shown
    <2> QED BY <1>3, <2>1 DEF Blank
  <1> QED BY <1>1, <1>2, <1>3, <1>4, <1>5, ModeIsPublished

LEMMA SharerPersistsKeeps ==
  ASSUME DrawingInv, NEW permanent \in BOOLEAN, SharerPersists(permanent)
  PROVE  DrawingInv'
  <1>1. /\ artist = "sharer" /\ picture \in AnyPicture
        /\ UNCHANGED <<artist, share, shares, view, board, toggles, tab, path, seen, astray,
                       offTab>>
        /\ board = "absent" => UNCHANGED <<persist, picture>>
        /\ board # "absent" => /\ persist' = permanent
                               /\ picture' = SetMode(picture, DrawMode(permanent))
        /\ Published(<<ModeMessage(DrawMode(permanent))>>)
    BY DEF SharerPersists, shareVars, DrawingInv, DrawingTypes
  <1>2. PICK mode \in DrawModes \ {"Disabled"} : mode = DrawMode(permanent)
    BY DEF DrawMode, DrawModes
  <1>3. /\ SetMode(picture, mode) \in AnyPicture /\ SetMode(picture, mode).mode = mode
        /\ SetMode(picture, mode).current = picture.current
        /\ SetMode(picture, mode).done = picture.done
    BY <1>1, SetModeFacts
  <1>4. /\ persist' \in BOOLEAN /\ toggles' \in Nat /\ path' \in Nat
        /\ board' \in {"absent", "hidden", "shown"}
        /\ picture' \in AnyPicture
        /\ picture'.current = picture.current /\ picture'.done = picture.done
        /\ board # "absent" => picture'.mode = mode
    BY <1>1, <1>2, <1>3 DEF DrawingInv, DrawingTypes
  <1>5. PathsAreFresh'
    BY <1>1, <1>4 DEF DrawingInv, PathsAreFresh
  <1>6. board' = "shown" => Shown'.current = Shown.current /\ Shown'.done = Shown.done
    BY <1>1, <1>4 DEF Shown
  <1>7. Published(<<ModeMessage(mode)>>)
    BY <1>1, <1>2
  <1> QED BY <1>1, <1>2, <1>4, <1>5, <1>6, <1>7, ModeIsPublished

\* The sharer's drawing window ends, or cannot begin.
LEMMA DrawingEndsKeeps ==
  ASSUME DrawingInv, NEW permanent \in BOOLEAN,
         DrawingEnds \/ DrawingCannotBegin(permanent)
  PROVE  DrawingInv'
  <1>1. PICK m \in DrawMessage :
          /\ \A d \in AnyPicture : Applied(d, m) \in AnyPicture
          /\ Published(<<m, ModeMessage("Disabled")>>)
    <2>1. CASE DrawingEnds
      <3>1. PathMessage("clearAll", 0) \in DrawMessage
        BY MessageTypes
      <3> QED BY <2>1, <3>1, AppliedType DEF DrawingEnds, LastWords
    <2>2. CASE DrawingCannotBegin(permanent)
      <3>1. ModeMessage(DrawMode(permanent)) \in DrawMessage
        BY MessageTypes DEF DrawMode, DrawModes
      <3> QED BY <2>2, <3>1, AppliedType DEF DrawingCannotBegin
    <2> QED BY <2>1, <2>2
  <1>2. /\ artist = "sharer" /\ toggles' \in Nat
        /\ UNCHANGED <<artist, share, shares, view, tab, persist, path, picture, seen, astray,
                       offTab>>
        /\ board' \in {"absent", "hidden"}
    BY DEF DrawingEnds, DrawingCannotBegin, Toggle, shareVars, DrawingInv, DrawingTypes,
           ArtistsMode
  <1> DEFINE n == ModeMessage("Disabled")
  <1>3. /\ n \in DrawMessage /\ n.type = "mode"
        /\ \A d : Applied(d, n) = Blank("Disabled")
    BY MessageTypes DEF DrawModes, SetMode
  <1>4. DrawingTypes
    BY DEF DrawingInv
  <1> HIDE DEF n
  <1>5. DrawingTypes'
    <2>1. wire' \in Seq(DrawMessage)
      <3>1. wire' = Append(Append(wire, Sent(m)), Sent(n))
        BY <1>1, <1>3, <1>4, PublishedTwo DEF n
      <3>2. Sent(m) \in DrawMessage /\ Sent(n) \in DrawMessage
        BY <1>3, <1>4, SentMessage
      <3>3. wire \in Seq(DrawMessage)
        BY <1>4 DEF DrawingTypes
      <3> QED BY <3>1, <3>2, <3>3, AppendProperties
    <2> QED BY <1>2, <1>4, <2>1 DEF DrawingTypes
  <1>6. PathsAreFresh' /\ ArtistsMode'
    BY <1>2 DEF DrawingInv, PathsAreFresh, ArtistsMode
  <1>7. ASSUME NEW d \in AnyPicture
        PROVE  Matches(Applied(Applied(d, m), n))'
    <2>1. \A e : e = Blank("Disabled") => Matches(e)'
      BY <1>2 DEF Matches, Shown, Blank
    <2> QED BY <1>3, <2>1
  <1>8. WillMatch' /\ ModeWillMatch'
    BY <1>1, <1>2, <1>3, <1>5, <1>7, TwoArePublished DEF n
  <1> QED BY <1>5, <1>6, <1>8 DEF DrawingInv

\* A message that leaves the sharer's window and the view alone.
LEMMA MessageKeeps ==
  ASSUME DrawingInv, NEW m \in DrawMessage, Published(<<m>>),
         UNCHANGED <<artist, share, shares, view, board, toggles, seen, astray>>,
         tab' \in Tabs, persist' \in BOOLEAN, offTab' \in BOOLEAN, path' \in Nat,
         picture' \in AnyPicture, PathsAreFresh', ArtistsMode',
         \A d \in AnyPicture : Matches(d) => Matches(Applied(d, m))',
         artist = "watcher" /\ ~offTab' =>
             IF m.type = "mode" THEN m.mode = ModeOf(tab)'
             ELSE ModeOf(tab)' = ModeOf(tab) /\ ~offTab
  PROVE  DrawingInv'
  <1>1. DrawingTypes
    BY DEF DrawingInv
  <1>2. wire' \in Seq(DrawMessage)
    <2>1. wire' = Append(wire, Sent(m)) /\ Sent(m) \in DrawMessage
      BY <1>1, PublishedOne, SentMessage
    <2>2. wire \in Seq(DrawMessage)
      BY <1>1 DEF DrawingTypes
    <2> QED BY <2>1, <2>2, AppendProperties
  <1>3. DrawingTypes'
    <2>1. UNCHANGED <<artist, share, shares, view, board, toggles, seen, astray>>
      OBVIOUS
    <2> QED BY <1>1, <1>2, <2>1 DEF DrawingTypes
  <1>4. WillMatch' /\ ModeWillMatch'
    BY <1>3, OneIsPublished
  <1> QED BY <1>3, <1>4 DEF DrawingInv

LEMMA TabSelectedKeeps ==
  ASSUME DrawingInv, NEW t \in Tabs, TabSelected(t)
  PROVE  DrawingInv'
  <1>1. /\ artist = "watcher" /\ persist' = persist /\ path' = path
        /\ UNCHANGED <<artist, share, shares, view, board, toggles, seen, astray>>
        /\ tab' = t /\ offTab' = FALSE
        /\ picture' = SetMode(IF t = "draw" THEN picture ELSE ClearPaths(picture), ModeOf(t))
        /\ Published((IF t = "draw" THEN <<>> ELSE <<PathMessage("clearAll", 0)>>)
                     \o <<ModeMessage(ModeOf(t))>>)
    BY DEF TabSelected, AtWatcher, shareVars
  <1>2. DrawingTypes /\ picture \in AnyPicture
    BY DEF DrawingInv, DrawingTypes
  <1>3. PICK mode \in DrawModes : mode = ModeOf(t)
    BY <1>2, ModeOfType
  <1>4. /\ ModeMessage(mode) \in DrawMessage
        /\ ModeMessage(mode).type = "mode" /\ ModeMessage(mode).mode = mode
        /\ \A d : Applied(d, ModeMessage(mode)) = SetMode(d, mode)
    BY MessageTypes
  <1>5. ModeOf(tab)' = mode
    BY <1>1, <1>3 DEF ModeOf, DrawMode
  <1>6. toggles = 0
    BY <1>1 DEF DrawingInv, ArtistsMode
  <1>7. CASE t = "draw"
    <2>1. Published(<<ModeMessage(mode)>>)
      <3>1. <<>> \o <<ModeMessage(mode)>> = <<ModeMessage(mode)>>
        BY <1>4, ConcatEmptySeq
      <3> QED BY <1>1, <1>3, <1>7, <3>1
    <2>2. mode # "Disabled"
      BY <1>3, <1>7 DEF ModeOf, DrawMode
    <2>3. /\ picture' \in AnyPicture /\ picture'.mode = mode
          /\ picture'.current = picture.current /\ picture'.done = picture.done
      BY <1>1, <1>2, <1>3, <1>7, <2>2, SetModeFacts
    <2>4. PathsAreFresh'
      BY <1>1, <2>3 DEF DrawingInv, PathsAreFresh
    <2>5. ArtistsMode'
      BY <1>1, <1>5, <1>6, <1>7, <2>3 DEF ArtistsMode
    <2>6. ASSUME NEW d \in AnyPicture, Matches(d)
          PROVE  Matches(Applied(d, ModeMessage(mode)))'
      <3> DEFINE e == SetMode(d, mode)
      <3>1. e.mode = mode /\ e.current = d.current /\ e.done = d.done
        BY <2>2, SetModeFacts
      <3>2. Shown' = picture' /\ Shown = picture
        BY <1>1 DEF Shown
      <3> HIDE DEF e
      <3>3. Matches(e)'
        BY <1>1, <1>5, <2>3, <2>6, <3>1, <3>2 DEF Matches
      <3> QED BY <1>4, <3>3 DEF e
    <2>7. tab' \in Tabs /\ persist' \in BOOLEAN /\ offTab' \in BOOLEAN /\ path' \in Nat
      BY <1>1, <1>2 DEF DrawingTypes
    <2> QED BY <1>1, <1>4, <1>5, <2>1, <2>3, <2>4, <2>5, <2>6, <2>7, MessageKeeps
  <1>8. CASE t # "draw"
    <2> DEFINE m == PathMessage("clearAll", 0)
    <2>1. m \in DrawMessage /\ \A d : Applied(d, m) = ClearPaths(d)
      BY MessageTypes
    <2> HIDE DEF m
    <2>2. Published(<<m, ModeMessage(mode)>>)
      <3>1. <<m>> \o <<ModeMessage(mode)>> = <<m, ModeMessage(mode)>>
        BY <1>4, <2>1, TwoMessages
      <3> QED BY <1>1, <1>3, <1>8, <3>1 DEF m
    <2>3. ASSUME NEW d \in AnyPicture
          PROVE  /\ SetMode(ClearPaths(d), mode) \in AnyPicture
                 /\ SetMode(ClearPaths(d), mode).mode = mode
                 /\ SetMode(ClearPaths(d), mode).current = 0
                 /\ SetMode(ClearPaths(d), mode).done = {}
      <3> DEFINE e == ClearPaths(d)
      <3>1. e \in AnyPicture /\ e.current = 0 /\ e.done = {}
        BY EndFacts
      <3> HIDE DEF e
      <3>2. /\ SetMode(e, mode) \in AnyPicture /\ SetMode(e, mode).mode = mode
            /\ SetMode(e, mode).current = 0 /\ SetMode(e, mode).done = {}
        BY <3>1 DEF SetMode, Blank, AnyPicture
      <3> QED BY <3>2 DEF e
    <2>4. /\ picture' \in AnyPicture /\ picture'.mode = mode
          /\ picture'.current = 0 /\ picture'.done = {}
      BY <1>1, <1>2, <1>3, <1>8, <2>3
    <2>5. PathsAreFresh'
      BY <2>4 DEF PathsAreFresh
    <2>6. ArtistsMode'
      BY <1>1, <1>5, <1>6, <2>4 DEF ArtistsMode, Empty
    <2>7. DrawingTypes'
      <3>1. wire' = Append(Append(wire, Sent(m)), Sent(ModeMessage(mode)))
        BY <1>2, <1>4, <2>1, <2>2, PublishedTwo
      <3>2. Sent(m) \in DrawMessage /\ Sent(ModeMessage(mode)) \in DrawMessage
        BY <1>2, <1>4, <2>1, SentMessage
      <3>3. wire \in Seq(DrawMessage)
        BY <1>2 DEF DrawingTypes
      <3>4. wire' \in Seq(DrawMessage)
        BY <3>1, <3>2, <3>3, AppendProperties
      <3> QED BY <1>1, <1>2, <2>4, <3>4 DEF DrawingTypes
    <2>8. ASSUME NEW d \in AnyPicture
          PROVE  Matches(Applied(Applied(d, m), ModeMessage(mode)))'
      <3> DEFINE e == SetMode(ClearPaths(d), mode)
      <3>1. e.mode = mode /\ e.current = 0 /\ e.done = {}
        BY <2>3
      <3>2. Shown' = picture'
        BY <1>1 DEF Shown
      <3> HIDE DEF e
      <3>3. Matches(e)'
        BY <1>1, <1>5, <2>4, <3>1, <3>2 DEF Matches
      <3> QED BY <1>4, <2>1, <3>3 DEF e
    <2>9. WillMatch' /\ ModeWillMatch'
      BY <1>1, <1>4, <1>5, <2>1, <2>2, <2>7, <2>8, TwoArePublished
    <2> QED BY <2>5, <2>6, <2>7, <2>9 DEF DrawingInv
  <1> QED BY <1>7, <1>8

LEMMA DropdownKeeps ==
  ASSUME DrawingInv, NEW permanent \in BOOLEAN, DropdownItemClicked(permanent)
  PROVE  DrawingInv'
  <1>1. /\ artist = "watcher" /\ persist' = permanent /\ path' = path /\ tab' = tab
        /\ UNCHANGED <<artist, share, shares, view, board, toggles, seen, astray>>
        /\ offTab' = (offTab \/ tab # "draw")
        /\ picture' = SetMode(picture, DrawMode(permanent))
        /\ Published(<<ModeMessage(DrawMode(permanent))>>)
    BY DEF DropdownItemClicked, AtWatcher, shareVars
  <1>2. DrawingTypes /\ picture \in AnyPicture
    BY DEF DrawingInv, DrawingTypes
  <1>3. PICK mode \in DrawModes \ {"Disabled"} : mode = DrawMode(permanent)
    BY DEF DrawMode, DrawModes
  <1>4. /\ ModeMessage(mode) \in DrawMessage
        /\ ModeMessage(mode).type = "mode" /\ ModeMessage(mode).mode = mode
        /\ \A d : Applied(d, ModeMessage(mode)) = SetMode(d, mode)
    BY MessageTypes
  <1>5. tab = "draw" => ModeOf(tab)' = mode
    BY <1>1, <1>3 DEF ModeOf, DrawMode
  <1>6. /\ picture' \in AnyPicture /\ picture'.mode = mode
        /\ picture'.current = picture.current /\ picture'.done = picture.done
    BY <1>1, <1>2, <1>3, SetModeFacts
  <1>7. PathsAreFresh'
    BY <1>1, <1>6 DEF DrawingInv, PathsAreFresh
  <1>8. ArtistsMode' /\ (~offTab' => ~offTab /\ tab = "draw" /\ ModeOf(tab)' = mode)
    BY <1>1, <1>5, <1>6 DEF DrawingInv, ArtistsMode, Empty
  <1>9. ASSUME NEW d \in AnyPicture, Matches(d)
        PROVE  Matches(Applied(d, ModeMessage(mode)))'
    <2> DEFINE e == SetMode(d, mode)
    <2>1. e.mode = mode /\ e.current = d.current /\ e.done = d.done
      BY SetModeFacts
    <2>2. Shown' = picture' /\ Shown = picture
      BY <1>1 DEF Shown
    <2> HIDE DEF e
    <2>3. Matches(e)'
      BY <1>1, <1>6, <1>8, <1>9, <2>1, <2>2 DEF Matches
    <2> QED BY <1>4, <2>3 DEF e
  <1>10. /\ tab' \in Tabs /\ persist' \in BOOLEAN /\ offTab' \in BOOLEAN /\ path' \in Nat
         /\ Published(<<ModeMessage(mode)>>)
    BY <1>1, <1>2, <1>3 DEF DrawingTypes
  <1> QED BY <1>1, <1>4, <1>6, <1>7, <1>8, <1>9, <1>10, MessageKeeps

\* The artist's hand does the same to both pictures, which are not disabled.
LEMMA HandKeeps ==
  ASSUME DrawingInv, Hand, NEW m \in DrawMessage, m.type # "mode", Published(<<m>>),
         path' \in Nat, picture' \in AnyPicture, picture'.mode = picture.mode, PathsAreFresh',
         \A d \in AnyPicture :
             /\ d.mode # "Disabled" /\ picture.mode # "Disabled"
             /\ d.current = picture.current /\ d.done = picture.done
             => LET e == Applied(d, m) IN
                /\ e.mode = d.mode
                /\ e.current = picture'.current /\ e.done = picture'.done
  PROVE  DrawingInv'
  <1>1. /\ UNCHANGED <<artist, share, shares, view, board, toggles, tab, persist, seen,
                       astray, offTab>>
        /\ artist = "sharer" => board = "shown"
        /\ artist # "sharer" => tab = "draw"
    BY DEF Hand, CanDraw, shareVars, boardVars
  <1>2. DrawingTypes /\ artist \in {"sharer", "watcher"}
    BY DEF DrawingInv, DrawingTypes
  <1>3. /\ artist = "watcher" => ~offTab /\ picture.mode = ModeOf(tab) /\ toggles = 0
        /\ picture.mode # "Disabled"
        /\ artist = "watcher" => ModeOf(tab) # "Disabled"
    BY <1>1, <1>2 DEF DrawingInv, ArtistsMode, ModeOf, DrawMode
  <1>4. ModeOf(tab)' = ModeOf(tab) /\ Shown' = picture' /\ Shown = picture
    BY <1>1 DEF ModeOf, DrawMode, Shown
  <1>5. ArtistsMode'
    BY <1>1, <1>2, <1>3, <1>4 DEF ArtistsMode
  <1>6. ASSUME NEW d \in AnyPicture, Matches(d)
        PROVE  Matches(Applied(d, m))'
    <2>1. /\ d.current = picture.current /\ d.done = picture.done /\ d.mode # "Disabled"
          /\ artist = "watcher" => d.mode = ModeOf(tab)
      BY <1>1, <1>2, <1>3, <1>4, <1>6 DEF Matches
    <2> DEFINE e == Applied(d, m)
    <2>2. e.mode = d.mode /\ e.current = picture'.current /\ e.done = picture'.done
      BY <1>3, <2>1
    <2> HIDE DEF e
    <2>3. Matches(e)'
      BY <1>1, <1>4, <2>1, <2>2 DEF Matches
    <2> QED BY <2>3 DEF e
  <1>7. tab' \in Tabs /\ persist' \in BOOLEAN /\ offTab' \in BOOLEAN
    BY <1>1, <1>2 DEF DrawingTypes
  <1> QED BY <1>1, <1>3, <1>4, <1>5, <1>6, <1>7, MessageKeeps

LEMMA PressLeftKeeps ==
  ASSUME DrawingInv, PressLeft
  PROVE  DrawingInv'
  <1>1. /\ Hand /\ path' = path + 1 /\ path \in Nat /\ path + 1 \in Nat
        /\ picture \in AnyPicture /\ picture' = StartPath(picture, path + 1)
        /\ Published(<<PathMessage("start", path + 1)>>)
    BY DEF PressLeft, DrawingInv, DrawingTypes
  <1> DEFINE m == PathMessage("start", path + 1)
  <1>2. /\ m \in DrawMessage /\ m.type # "mode"
        /\ \A d : Applied(d, m) = StartPath(d, path + 1)
    BY <1>1, MessageTypes
  <1>3. /\ picture' \in AnyPicture /\ picture'.mode = picture.mode
        /\ picture'.done = picture.done
        /\ picture'.current = picture.current \/ picture'.current = path + 1
        /\ picture.mode # "Disabled" => picture'.current = path + 1
    BY <1>1 DEF StartPath, AnyPicture
  <1>4. PathsAreFresh'
    <2>1. picture.done \subseteq 1..path /\ path \in Nat
          /\ (picture.current = 0 \/ picture.current \in (1..path) \ picture.done)
      BY <1>1 DEF DrawingInv, PathsAreFresh
    <2>2. 1..path \subseteq 1..(path + 1) /\ path + 1 \notin 1..path
          /\ path + 1 \in 1..(path + 1)
      BY <1>1
    <2>3. picture'.done \subseteq 1..path'
      BY <1>1, <1>3, <2>1, <2>2
    <2>4. picture'.current = 0 \/ picture'.current \in (1..path') \ picture'.done
      BY <1>1, <1>3, <2>1, <2>2
    <2> QED BY <2>3, <2>4 DEF PathsAreFresh
  <1>5. ASSUME NEW d \in AnyPicture, d.mode # "Disabled", picture.mode # "Disabled",
               d.current = picture.current, d.done = picture.done
        PROVE  /\ StartPath(d, path + 1).mode = d.mode
               /\ StartPath(d, path + 1).current = picture'.current
               /\ StartPath(d, path + 1).done = picture'.done
    BY <1>1, <1>3, <1>5, StartFacts
  <1> HIDE DEF m
  <1>6. Published(<<m>>) /\ path' \in Nat
    BY <1>1 DEF m
  <1> QED BY <1>1, <1>2, <1>3, <1>4, <1>5, <1>6, HandKeeps

LEMMA StrokeEndsKeeps ==
  ASSUME DrawingInv, StrokeEnds
  PROVE  DrawingInv'
  <1>1. /\ Hand /\ path' = path /\ path \in Nat
        /\ picture \in AnyPicture /\ picture' = FinishPath(picture)
        /\ Published(<<PathMessage("end", 0)>>)
    BY DEF StrokeEnds, DrawingInv, DrawingTypes
  <1> DEFINE m == PathMessage("end", 0)
  <1>2. /\ m \in DrawMessage /\ m.type # "mode"
        /\ \A d : Applied(d, m) = FinishPath(d)
    BY MessageTypes
  <1>3. /\ picture' \in AnyPicture /\ picture'.mode = picture.mode
        /\ \/ picture'.current = 0 /\ picture'.done \subseteq picture.done \cup {picture.current}
              /\ (picture.current = 0 => picture'.done = picture.done)
           \/ picture' = picture
    BY <1>1 DEF FinishPath, AnyPicture
  <1>4. PathsAreFresh'
    BY <1>1, <1>3 DEF DrawingInv, PathsAreFresh
  <1>5. ASSUME NEW d \in AnyPicture, d.mode # "Disabled", picture.mode # "Disabled",
               d.current = picture.current, d.done = picture.done
        PROVE  /\ FinishPath(d).mode = d.mode
               /\ FinishPath(d).current = picture'.current
               /\ FinishPath(d).done = picture'.done
    BY <1>1, <1>5, EndFacts
  <1> HIDE DEF m
  <1>6. Published(<<m>>) /\ path' \in Nat
    BY <1>1 DEF m
  <1> QED BY <1>1, <1>2, <1>3, <1>4, <1>5, <1>6, HandKeeps

LEMMA PressRightKeeps ==
  ASSUME DrawingInv, PressRight
  PROVE  DrawingInv'
  <1>1. /\ Hand /\ path' = path /\ path \in Nat
        /\ picture \in AnyPicture /\ picture' = ClearPaths(picture)
        /\ Published(<<PathMessage("clearAll", 0)>>)
    BY DEF PressRight, DrawingInv, DrawingTypes
  <1> DEFINE m == PathMessage("clearAll", 0)
  <1>2. /\ m \in DrawMessage /\ m.type # "mode"
        /\ \A d : Applied(d, m) = ClearPaths(d)
    BY MessageTypes
  <1>3. /\ picture' \in AnyPicture /\ picture'.mode = picture.mode
        /\ picture'.current = 0 /\ picture'.done = {}
    BY <1>1, EndFacts
  <1>4. PathsAreFresh'
    BY <1>3 DEF PathsAreFresh
  <1>5. ASSUME NEW d \in AnyPicture
        PROVE  /\ ClearPaths(d).mode = d.mode
               /\ ClearPaths(d).current = picture'.current
               /\ ClearPaths(d).done = picture'.done
    BY <1>3, EndFacts
  <1> HIDE DEF m
  <1>6. Published(<<m>>) /\ path' \in Nat
    BY <1>1 DEF m
  <1> QED BY <1>1, <1>2, <1>3, <1>4, <1>5, <1>6, HandKeeps

LEMMA OldestIsDone ==
  ASSUME picture.done \subseteq Nat, picture.done # {}
  PROVE  Oldest \in picture.done
  <1>1. PICK x \in picture.done :
          \A y \in picture.done : ~(<<y, x>> \in OpToRel(<, Nat))
    BY NatLessThanWellFounded, WFMin
  <1>2. ASSUME NEW y \in picture.done PROVE x <= y
    <2>1. x \in Nat /\ y \in Nat
      OBVIOUS
    <2>2. ~(y < x)
      <3>1. y < x => <<y, x>> \in OpToRel(<, Nat)
        BY <2>1 DEF OpToRel
      <3> QED BY <1>1, <3>1
    <2> QED BY <2>1, <2>2
  <1> QED BY <1>2 DEF Oldest

\* A path that has expired is completed, on either side if it is shown at all.
LEMMA PathsExpireKeeps ==
  ASSUME DrawingInv, PathsExpire
  PROVE  DrawingInv'
  <1>1. /\ UNCHANGED <<artist, share, shares, view, board, toggles, tab, persist, path, seen,
                       astray, offTab>>
        /\ picture \in AnyPicture /\ picture.done # {} /\ path \in Nat
        /\ picture' = [picture EXCEPT !.done = @ \ {Oldest}]
        /\ Published(<<PathMessage("clear", Oldest)>>)
    BY DEF PathsExpire, Expired, shareVars, boardVars, DrawingInv, DrawingTypes
  <1>2. /\ picture.done \subseteq 1..path
        /\ picture.current = 0 \/ picture.current \in (1..path) \ picture.done
    BY DEF DrawingInv, PathsAreFresh
  <1>3. PICK id \in picture.done : id = Oldest
    <2>1. picture.done \subseteq Nat
      BY <1>1 DEF AnyPicture
    <2> QED BY <1>1, <2>1, OldestIsDone
  <1>4. id \in Nat /\ id # 0 /\ picture.current # id
    BY <1>1, <1>2, <1>3
  <1> DEFINE m == PathMessage("clear", id)
  <1>5. /\ m \in DrawMessage /\ m.type # "mode"
        /\ \A d : Applied(d, m) = ClearPath(d, id)
    BY <1>4, MessageTypes
  <1> HIDE DEF m
  <1>6. /\ picture' \in AnyPicture /\ picture'.mode = picture.mode
        /\ picture'.current = picture.current /\ picture'.done = picture.done \ {id}
    BY <1>1, <1>3 DEF AnyPicture
  <1>7. PathsAreFresh'
    BY <1>1, <1>2, <1>6 DEF PathsAreFresh
  <1>8. ArtistsMode' /\ ModeOf(tab)' = ModeOf(tab)
    BY <1>1, <1>6 DEF DrawingInv, ArtistsMode, Empty, ModeOf, DrawMode
  <1>9. ASSUME NEW d \in AnyPicture, Matches(d)
        PROVE  Matches(Applied(d, m))'
    <2> DEFINE e == ClearPath(d, id)
    <2>1. /\ e.mode = d.mode /\ e.done = d.done \ {id}
          /\ e.current = IF d.current = id THEN 0 ELSE d.current
      BY DEF ClearPath, AnyPicture
    <2> HIDE DEF e
    <2>2. d.current = Shown.current /\ d.done = Shown.done
      BY <1>9 DEF Matches
    <2>3. e.current = Shown'.current /\ e.done = Shown'.done
      <3>1. CASE artist = "sharer" /\ board # "shown"
        <4>1. Shown = Blank(picture.mode) /\ Shown' = Blank(picture.mode)
          BY <1>1, <1>6, <3>1 DEF Shown
        <4>2. Shown.current = 0 /\ Shown.done = {}
          BY <4>1 DEF Blank
        <4> QED BY <1>4, <2>1, <2>2, <4>1, <4>2
      <3>2. CASE ~(artist = "sharer" /\ board # "shown")
        <4>1. Shown = picture /\ Shown' = picture'
          BY <1>1, <3>2 DEF Shown
        <4> QED BY <1>4, <1>6, <2>1, <2>2, <4>1
      <3> QED BY <3>1, <3>2
    <2>4. Matches(e)'
      BY <1>1, <1>8, <1>9, <2>1, <2>3 DEF Matches
    <2> QED BY <1>5, <2>4 DEF e
  <1>10. artist = "watcher" /\ ~offTab' => ~offTab
    BY <1>1
  <1>11. tab' \in Tabs /\ persist' \in BOOLEAN /\ offTab' \in BOOLEAN /\ path' \in Nat
         /\ Published(<<m>>)
    BY <1>1, <1>3 DEF DrawingInv, DrawingTypes, m
  <1> QED BY <1>1, <1>5, <1>6, <1>7, <1>8, <1>9, <1>10, <1>11, MessageKeeps

LEMMA DrawingNextInv == DrawingInv /\ [DrawingNext]_drawingVars => DrawingInv'
  <1> SUFFICES ASSUME DrawingInv, [DrawingNext]_drawingVars PROVE DrawingInv'
    OBVIOUS
  <1>1. CASE BeginShare \/ EndShare
    BY <1>1, SharesKeep
  <1>2. CASE OverlayRepaired
    BY <1>2, OverlayRepairedKeeps
  <1>3. CASE WatcherHides \/ AskToggle \/ ToggleWithoutShare \/ BoardCloses
    BY <1>3, WindowsKeep
  <1>4. CASE WatcherReopens
    BY <1>4, WatcherReopensKeeps
  <1>5. CASE DrawingEnds
    BY <1>5, DrawingEndsKeeps
  <1>6. CASE PressLeft \/ StrokeEnds \/ PressRight
    BY <1>6, PressLeftKeeps, StrokeEndsKeeps, PressRightKeeps
  <1>7. CASE PathsExpire
    BY <1>7, PathsExpireKeeps
  <1>8. CASE HandleDrawing
    BY <1>8, HandleDrawingKeeps
  <1>9. ASSUME NEW permanent \in BOOLEAN,
               \/ DrawingBegins(permanent) \/ DrawingCannotBegin(permanent)
               \/ SharerPersists(permanent) \/ DropdownItemClicked(permanent)
        PROVE  DrawingInv'
    BY <1>9, DrawingBeginsKeeps, DrawingEndsKeeps, SharerPersistsKeeps, DropdownKeeps
  <1>10. ASSUME NEW t \in Tabs, TabSelected(t) PROVE DrawingInv'
    BY <1>10, TabSelectedKeeps
  <1>11. ASSUME NEW t \in Tabs, NEW permanent \in BOOLEAN, WatchNewShare(t, permanent)
         PROVE  DrawingInv'
    BY <1>11, WatchNewShareKeeps
  <1>12. CASE UNCHANGED drawingVars
    <2>1. UNCHANGED <<artist, share, shares, view, board, toggles, tab, persist, path, picture,
                      seen, wire, astray, offTab>>
      BY <1>12 DEF drawingVars, shareVars, boardVars
    <2>2. DrawingTypes' /\ PathsAreFresh'
      BY <2>1 DEF DrawingInv, DrawingTypes, PathsAreFresh
    <2>3. ModeOf(tab)' = ModeOf(tab) /\ Shown' = Shown
      BY <2>1 DEF ModeOf, DrawMode, Shown
    <2>4. ArtistsMode' /\ ModeWillMatch'
      BY <2>1, <2>3 DEF DrawingInv, ArtistsMode, ModeWillMatch, Viewed
    <2>5. WillMatch'
      <3> SUFFICES ASSUME Viewed', ~astray'
                   PROVE  \E d : Replays(seen', wire', d) /\ Matches(d)'
        BY DEF WillMatch
      <3>1. PICK d : Replays(seen, wire, d) /\ Matches(d)
        BY <2>1 DEF DrawingInv, WillMatch, Viewed
      <3>2. Matches(d)'
        BY <2>1, <2>3, <3>1 DEF Matches
      <3> QED BY <2>1, <3>1, <3>2
    <2> QED BY <2>2, <2>4, <2>5 DEF DrawingInv
  <1> QED
    BY <1>1, <1>2, <1>3, <1>4, <1>5, <1>6, <1>7, <1>8, <1>9, <1>10, <1>11, <1>12
    DEF DrawingNext

\* Once everything published has been handled, the other side shows what the artist's
\* window shows: through strokes, expiry, clearing, changes of mode, windows hidden and
\* opened again, and further shares, for any number of each.
THEOREM ThePictureArrives == DrawingSpec => []PictureArrives
  <1>1. DrawingSpec => []DrawingInv
    BY DrawingInitInv, DrawingNextInv, PTL DEF DrawingSpec
  <1> QED BY <1>1, DrawingInvArrives, PTL

--------------------------------------------------------------------------------
(* Words: numbers that follow one another in a queue. *)

LEMMA NothingIsConsecutive ==
  ASSUME NEW n \in Nat, NEW f, DOMAIN f = {}
  PROVE  Consecutive(f, n, n)
  <1>1. (n + 1)..n = {}
    OBVIOUS
  <1> QED BY <1>1 DEF Consecutive

LEMMA OneMoreNumber ==
  ASSUME NEW f, NEW g, NEW a \in Nat, NEW b \in Nat, NEW k \in Nat,
         Consecutive(f, a, b), DOMAIN f \subseteq 1..k,
         DOMAIN g = DOMAIN f \cup {k + 1},
         \A i \in DOMAIN f : g[i] = f[i], g[k + 1] = b + 1
  PROVE  Consecutive(g, a, b + 1)
  <1>1. \A i \in DOMAIN f : i \in Int /\ i < k + 1 /\ ~(i > k) /\ f[i] \in (a + 1)..b
    BY DEF Consecutive
  <1>2. a <= b + 1 /\ a <= b
    BY DEF Consecutive
  <1>3. (a + 1)..(b + 1) = ((a + 1)..b) \cup {b + 1}
    BY <1>2
  <1>4. {g[i] : i \in DOMAIN g} = {f[i] : i \in DOMAIN f} \cup {b + 1}
    OBVIOUS
  <1>5. ASSUME NEW i \in DOMAIN g, NEW j \in DOMAIN g, i < j PROVE g[i] < g[j]
    <2>1. CASE i \in DOMAIN f /\ j \in DOMAIN f
      BY <1>5, <2>1 DEF Consecutive
    <2>2. CASE i \in DOMAIN f /\ j = k + 1
      BY <1>1, <2>2
    <2>3. CASE i = k + 1
      <3>1. j \in Int /\ (j = k + 1 \/ j < k + 1)
        BY <1>1
      <3> QED BY <1>5, <2>3, <3>1
    <2> QED BY <2>1, <2>2, <2>3
  <1> QED BY <1>2, <1>3, <1>4, <1>5 DEF Consecutive

\* The queue without its first element: what stood at i + 1 stands at i.
LEMMA OneNumberLess ==
  ASSUME NEW f, NEW g, NEW a \in Nat, NEW b \in Nat,
         Consecutive(f, a, b), DOMAIN f \subseteq Nat \ {0},
         DOMAIN g = {i \in Nat \ {0} : i + 1 \in DOMAIN f},
         \A i \in DOMAIN g : g[i] = f[i + 1]
  PROVE  /\ 1 \notin DOMAIN f => Consecutive(g, a, b)
         /\ 1 \in DOMAIN f => f[1] = a + 1 /\ Consecutive(g, a + 1, b)
  <1>1. /\ \A i \in DOMAIN f : /\ i \in Nat \ {0} /\ f[i] \in (a + 1)..b
                               /\ i # 1 => i - 1 \in DOMAIN g /\ g[i - 1] = f[i] /\ i > 1
        /\ \A i \in DOMAIN g : i \in Nat \ {0} /\ i + 1 \in DOMAIN f /\ i + 1 > 1
        /\ a <= b
    BY DEF Consecutive
  <1>2. \A i, j \in DOMAIN g : i < j => g[i] < g[j]
    <2>1. ASSUME NEW i \in DOMAIN g, NEW j \in DOMAIN g, i < j PROVE g[i] < g[j]
      <3>1. i + 1 \in DOMAIN f /\ j + 1 \in DOMAIN f /\ i + 1 < j + 1
        BY <1>1, <2>1
      <3> QED BY <3>1 DEF Consecutive
    <2> QED BY <2>1
  <1>3. ASSUME 1 \notin DOMAIN f PROVE Consecutive(g, a, b)
    <2>1. {g[i] : i \in DOMAIN g} = {f[i] : i \in DOMAIN f}
      BY <1>1, <1>3
    <2> QED BY <1>1, <1>2, <2>1 DEF Consecutive
  <1>4. ASSUME 1 \in DOMAIN f PROVE f[1] = a + 1 /\ Consecutive(g, a + 1, b)
    <2>1. f[1] \in (a + 1)..b /\ a + 1 \in (a + 1)..b
      BY <1>1, <1>4
    <2>2. PICK k \in DOMAIN f : f[k] = a + 1
      BY <2>1 DEF Consecutive
    <2>3. k = 1
      <3> SUFFICES ASSUME k # 1 PROVE FALSE
        OBVIOUS
      <3>1. 1 < k
        BY <1>1
      <3>2. f[1] < f[k]
        BY <1>4, <3>1 DEF Consecutive
      <3> QED BY <2>1, <2>2, <3>2
    <2>4. {g[i] : i \in DOMAIN g} = {f[i] : i \in DOMAIN f \ {1}}
      BY <1>1
    <2>5. \A i \in DOMAIN f \ {1} : f[i] \in (a + 2)..b
      <3> SUFFICES ASSUME NEW i \in DOMAIN f \ {1} PROVE f[i] \in (a + 2)..b
        OBVIOUS
      <3>1. 1 < i /\ f[i] \in (a + 1)..b
        BY <1>1
      <3>2. f[1] < f[i]
        BY <1>4, <3>1 DEF Consecutive
      <3> QED BY <2>2, <2>3, <3>1, <3>2
    <2>6. ASSUME NEW n \in (a + 2)..b PROVE \E i \in DOMAIN f \ {1} : f[i] = n
      <3>1. n \in (a + 1)..b /\ n # a + 1
        OBVIOUS
      <3>2. PICK i \in DOMAIN f : f[i] = n
        BY <3>1 DEF Consecutive
      <3> QED BY <2>2, <2>3, <3>1, <3>2
    <2>7. {f[i] : i \in DOMAIN f \ {1}} = (a + 2)..b
      BY <2>5, <2>6
    <2>8. a + 1 <= b /\ (a + 1) + 1 = a + 2
      BY <2>1
    <2> QED BY <1>2, <2>2, <2>3, <2>4, <2>7, <2>8 DEF Consecutive
  <1> QED BY <1>3, <1>4

--------------------------------------------------------------------------------
(* Words: the inductive invariant. *)

RoomCommand == [what : CommandKinds, room : Nat, n : Nat]
RoomData == [command : RoomCommand, from : Speakers, sent : Nat, got : Nat, room : Nat]

\* The room the service has or connects to is the one a command is about.
InRoom(c, r) == joining[c] \in {0, r} /\ roomOf[c] \in {0, r}

\* Each message is about the call that the command before it was about, the first about the
\* service's room, and the next will be about the last command's.
CallsFollow(c) ==
    /\ \A i \in DOMAIN waiting[c] :
         waiting[c][i].what \in MessageKinds =>
             IF i = 1 THEN InRoom(c, waiting[c][i].room)
             ELSE waiting[c][i].room = waiting[c][i - 1].room
    /\ IF waiting[c] = <<>> THEN InRoom(c, callOf[c])
       ELSE waiting[c][Len(waiting[c])].room = callOf[c]

\* Data is of these visits or of earlier ones.
DataFits(d) ==
    \A i \in DOMAIN post[d] :
        /\ post[d][i].command.room = post[d][i].room
        /\ post[d][i].got <= visit[d] /\ post[d][i].sent <= visit[post[d][i].from]

Throttled(c) == roomOf[c] # 0 => sinceSent[c] <= sinceTaken[c]

MessagesTypes ==
    /\ callOf \in [Peers -> Nat] /\ joining \in [Peers -> Nat] /\ roomOf \in [Peers -> Nat]
    /\ visit \in [Peers -> Nat]
    /\ waiting \in [Peers -> Seq(RoomCommand)] /\ post \in [Peers -> Seq(RoomData)]
    /\ sinceTaken \in [Peers -> 0..Throttle] /\ sinceSent \in [Peers -> 0..Throttle]
    /\ wordsSaid \in [Speakers -> Nat] /\ wordsTaken \in [Speakers -> Nat]
    /\ wordsHeard \in [Peers -> [Speakers -> Nat]] /\ unsent \in BOOLEAN

MessagesInv ==
    /\ MessagesTypes
    /\ \A c \in Peers : CallsFollow(c) /\ DataFits(c) /\ Throttled(c)
    /\ SaidIsHeard

LEMMA MessagesInitInv == MessagesInit => MessagesInv
  <1> SUFFICES ASSUME MessagesInit PROVE MessagesInv
    OBVIOUS
  <1>1. MessagesTypes
    <2>1. waiting \in [Peers -> Seq(RoomCommand)] /\ post \in [Peers -> Seq(RoomData)]
      BY DEF MessagesInit
    <2>2. sinceTaken \in [Peers -> 0..Throttle] /\ sinceSent \in [Peers -> 0..Throttle]
      BY RoomMessagesAssumption DEF MessagesInit
    <2>3. wordsHeard \in [Peers -> [Speakers -> Nat]]
      BY DEF MessagesInit
    <2> QED BY <2>1, <2>2, <2>3 DEF MessagesInit, MessagesTypes
  <1>2. ASSUME NEW c \in Peers PROVE CallsFollow(c) /\ DataFits(c) /\ Throttled(c)
    BY DEF MessagesInit, CallsFollow, DataFits, Throttled, InRoom
  <1>3. \A s \in Speakers : Consecutive(Waiting(s), wordsTaken[s], wordsSaid[s])
    <2> SUFFICES ASSUME NEW s \in Speakers
                 PROVE  Consecutive(Waiting(s), wordsTaken[s], wordsSaid[s])
      OBVIOUS
    <2>1. s \in Peers
      BY RoomMessagesAssumption
    <2>2. DOMAIN Waiting(s) = {} /\ wordsTaken[s] = 0 /\ wordsSaid[s] = 0
      BY <2>1 DEF Waiting, MessagesInit
    <2> QED BY <2>2, NothingIsConsecutive
  <1>4. SaidIsHeard
    BY <1>3, RoomMessagesAssumption DEF MessagesInit, SaidIsHeard, Together
  <1> QED BY <1>1, <1>2, <1>4 DEF MessagesInv

--------------------------------------------------------------------------------
(* Words: the application's commands. *)

LEMMA SendCommandKeeps ==
  ASSUME MessagesInv, NEW c \in Peers, NEW command \in RoomCommand, SendCommand(c, command),
         callOf' \in [Peers -> Nat], callOf'[c] = command.room,
         \A d \in Peers \ {c} : callOf'[d] = callOf[d],
         command.what \in MessageKinds => command.room = callOf[c],
         IF command.what = "word"
         THEN /\ c \in Speakers /\ command.n = wordsSaid[c] + 1
              /\ wordsSaid' = [wordsSaid EXCEPT ![c] = @ + 1]
         ELSE wordsSaid' = wordsSaid
  PROVE  MessagesInv'
  <1> DEFINE q == waiting[c]
             a == Append(q, command)
  <1>1. /\ waiting' = [waiting EXCEPT ![c] = a]
        /\ UNCHANGED <<joining, roomOf, sinceTaken, visit, wordsTaken, sinceSent, unsent, post,
                       wordsHeard>>
    BY DEF SendCommand, serviceVars
  <1>2. MessagesTypes /\ q \in Seq(RoomCommand) /\ Speakers \subseteq Peers
    BY RoomMessagesAssumption DEF MessagesInv, MessagesTypes
  <1>3. /\ Len(q) \in Nat /\ DOMAIN q = 1..Len(q) /\ DOMAIN a = 1..(Len(q) + 1)
        /\ Len(a) = Len(q) + 1 /\ \A i \in 1..Len(q) : a[i] = q[i]
        /\ a[Len(q) + 1] = command /\ a \in Seq(RoomCommand) /\ a # <<>>
        /\ q = <<>> <=> Len(q) = 0
    BY <1>2, AppendProperties, LenProperties, EmptySeq
  <1> HIDE DEF a, q
  <1>4. /\ waiting' \in [Peers -> Seq(RoomCommand)] /\ waiting'[c] = a
        /\ \A d \in Peers \ {c} : waiting'[d] = waiting[d]
        /\ q = waiting[c]
    BY <1>1, <1>2, <1>3 DEF MessagesTypes, q
  <1>5. MessagesTypes'
    <2>1. wordsSaid' \in [Speakers -> Nat]
      <3>1. CASE command.what = "word"
        <4>1. wordsSaid[c] + 1 \in Nat /\ wordsSaid' = [wordsSaid EXCEPT ![c] = @ + 1]
          BY <1>2, <3>1 DEF MessagesTypes
        <4> QED BY <1>2, <4>1 DEF MessagesTypes
      <3>2. CASE command.what # "word"
        BY <1>2, <3>2 DEF MessagesTypes
      <3> QED BY <3>1, <3>2
    <2> QED BY <1>1, <1>2, <1>4, <2>1 DEF MessagesTypes
  <1>6. \A d \in Peers : DataFits(d)' /\ Throttled(d)'
    BY <1>1 DEF MessagesInv, DataFits, Throttled
  <1>7. ASSUME NEW d \in Peers PROVE CallsFollow(d)'
    <2>1. CASE d # c
      BY <1>1, <1>4, <2>1 DEF MessagesInv, CallsFollow, InRoom
    <2>2. CASE d = c
      <3>1. CallsFollow(c)
        BY DEF MessagesInv
      <3>2. a[Len(a)].room = callOf'[c]
        BY <1>3
      <3>3. ASSUME NEW i \in 1..(Len(q) + 1), a[i].what \in MessageKinds
            PROVE  IF i = 1 THEN InRoom(c, a[i].room) ELSE a[i].room = a[i - 1].room
        <4>1. CASE i \in 1..Len(q)
          <5>1. a[i] = q[i] /\ (i # 1 => i - 1 \in 1..Len(q) /\ a[i - 1] = q[i - 1])
            BY <1>3, <4>1
          <5>2. q[i].what \in MessageKinds =>
                  IF i = 1 THEN InRoom(c, q[i].room) ELSE q[i].room = q[i - 1].room
            BY <1>3, <1>4, <3>1, <4>1 DEF CallsFollow
          <5> QED BY <3>3, <5>1, <5>2
        <4>2. CASE i = Len(q) + 1
          <5>1. a[i] = command /\ command.room = callOf[c]
            BY <1>3, <3>3, <4>2
          <5>2. CASE q = <<>>
            BY <1>3, <1>4, <3>1, <4>2, <5>1, <5>2 DEF CallsFollow
          <5>3. CASE q # <<>>
            <6>1. i # 1 /\ i - 1 = Len(q) /\ Len(q) \in 1..Len(q)
              BY <1>3, <4>2, <5>3
            <6> QED BY <1>3, <1>4, <3>1, <5>1, <5>3, <6>1 DEF CallsFollow
          <5> QED BY <5>2, <5>3
        <4> QED BY <1>3, <4>1, <4>2
      <3> QED BY <1>1, <1>3, <1>4, <2>2, <3>2, <3>3 DEF CallsFollow, InRoom
    <2> QED BY <2>1, <2>2
  <1>8. SaidIsHeard'
    <2>1. SaidIsHeard
      BY DEF MessagesInv
    <2>2. ASSUME NEW s \in Speakers
          PROVE  Consecutive(Waiting(s), wordsTaken[s], wordsSaid[s])'
      <3>1. s \in Peers /\ Consecutive(Waiting(s), wordsTaken[s], wordsSaid[s])
        BY <1>2, <2>1 DEF SaidIsHeard
      <3>2. wordsTaken[s] \in Nat /\ wordsSaid[s] \in Nat
        BY <1>2 DEF MessagesTypes
      <3>3. CASE s # c
        <4>1. Waiting(s)' = Waiting(s)
          BY <1>4, <3>1, <3>3 DEF Waiting
        <4>2. wordsSaid'[s] = wordsSaid[s]
          BY <1>2, <3>3 DEF MessagesTypes
        <4> QED BY <1>1, <3>1, <4>1, <4>2
      <3>4. CASE s = c
        <4> DEFINE f == Waiting(c)
                   g == [i \in {i \in DOMAIN a : a[i].what = "word"} |-> a[i].n]
        <4>1. Waiting(c)' = g
          BY <1>4 DEF Waiting
        <4>2. /\ DOMAIN f = {i \in 1..Len(q) : q[i].what = "word"}
              /\ \A i \in DOMAIN f : f[i] = q[i].n
              /\ DOMAIN g = {i \in 1..(Len(q) + 1) : a[i].what = "word"}
              /\ \A i \in DOMAIN g : g[i] = a[i].n
          BY <1>3, <1>4 DEF Waiting
        <4>3. \A i \in 1..(Len(q) + 1) : i \in 1..Len(q) \/ i = Len(q) + 1
          BY <1>3
        <4>4. \A i \in 1..Len(q) : i \in 1..(Len(q) + 1) /\ i # Len(q) + 1
          BY <1>3
        <4>5. Len(q) + 1 \in 1..(Len(q) + 1)
          BY <1>3
        <4>6. f = Waiting(c) /\ f = [i \in DOMAIN f |-> f[i]] /\ g = [i \in DOMAIN g |-> g[i]]
          BY DEF Waiting
        <4> HIDE DEF f, g
        <4>7. CASE command.what = "word"
          <5>1. DOMAIN g = DOMAIN f \cup {Len(q) + 1}
            BY <1>3, <4>2, <4>3, <4>4, <4>5, <4>7
          <5>2. \A i \in DOMAIN f : g[i] = f[i]
            BY <1>3, <4>2, <5>1
          <5>3. g[Len(q) + 1] = wordsSaid[s] + 1
            BY <1>3, <3>4, <4>2, <4>7, <5>1
          <5>4. DOMAIN f \subseteq 1..Len(q)
            BY <4>2
          <5>5. wordsSaid'[s] = wordsSaid[s] + 1
            BY <1>2, <3>4, <4>7 DEF MessagesTypes
          <5>6. Consecutive(g, wordsTaken[s], wordsSaid[s] + 1)
            <6>1. Consecutive(f, wordsTaken[s], wordsSaid[s]) /\ Len(q) \in Nat
              BY <1>3, <3>1, <3>4, <4>6
            <6> QED BY <3>2, <5>1, <5>2, <5>3, <5>4, <6>1, OneMoreNumber
          <5> QED BY <1>1, <3>4, <4>1, <5>5, <5>6
        <4>8. CASE command.what # "word"
          <5>1. DOMAIN g = DOMAIN f
            BY <1>3, <4>2, <4>3, <4>4, <4>8
          <5>2. \A i \in DOMAIN f : g[i] = f[i]
            BY <1>3, <4>2, <5>1
          <5>3. g = f
            BY <4>6, <5>1, <5>2
          <5> QED BY <1>1, <3>1, <3>4, <4>1, <4>6, <4>8, <5>3
        <4> QED BY <4>7, <4>8
      <3> QED BY <3>3, <3>4
    <2>3. \A s \in Speakers, d \in Peers :
            /\ UnderWay(s, d)' = UnderWay(s, d) /\ Together(s, d)' = Together(s, d)
      BY <1>1 DEF UnderWay, Together, Current
    <2> QED BY <1>1, <2>1, <2>2, <2>3 DEF SaidIsHeard
  <1> QED BY <1>5, <1>6, <1>7, <1>8 DEF MessagesInv

--------------------------------------------------------------------------------
(* Words: the service takes a command. *)

LEMMA TakesNextFacts ==
  ASSUME MessagesInv, NEW c \in Peers, NEW what, TakesNext(c, what)
  PROVE  /\ Foremost(c) \in RoomCommand /\ Foremost(c).what = what
         /\ waiting' \in [Peers -> Seq(RoomCommand)]
         /\ \A d \in Peers \ {c} : waiting'[d] = waiting[d]
         /\ UNCHANGED <<callOf, wordsSaid>>
         /\ what \in MessageKinds => InRoom(c, Foremost(c).room)
         /\ joining'[c] \in {0, Foremost(c).room} /\ roomOf'[c] \in {0, Foremost(c).room}
              => CallsFollow(c)'
         /\ \A s \in Speakers :
              IF s = c /\ what = "word"
              THEN /\ Foremost(c).n = wordsTaken[c] + 1
                   /\ Consecutive(Waiting(c)', wordsTaken[c] + 1, wordsSaid[c])
              ELSE Consecutive(Waiting(s)', wordsTaken[s], wordsSaid[s])
  <1> DEFINE q == waiting[c]
             t == Tail(q)
             h == Head(q)
  <1>1. MessagesTypes /\ q \in Seq(RoomCommand) /\ q # <<>> /\ Speakers \subseteq Peers
    BY RoomMessagesAssumption DEF MessagesInv, MessagesTypes, TakesNext
  <1>2. /\ waiting' = [waiting EXCEPT ![c] = t] /\ UNCHANGED <<callOf, wordsSaid>>
        /\ h.what = what /\ h = Foremost(c)
    BY DEF TakesNext, appVars, Foremost
  <1>3. /\ h \in RoomCommand /\ t \in Seq(RoomCommand) /\ h = q[1]
        /\ Len(q) \in Nat \ {0} /\ Len(t) = Len(q) - 1
        /\ DOMAIN q = 1..Len(q) /\ DOMAIN t = 1..Len(t)
        /\ \A i \in 1..Len(t) : i \in Nat /\ t[i] = q[i + 1] /\ i + 1 \in 1..Len(q)
        /\ t = <<>> <=> Len(t) = 0
    <2>1. h \in RoomCommand /\ t \in Seq(RoomCommand) /\ h = q[1]
      BY <1>1
    <2>2. /\ Len(t) = Len(q) - 1 /\ \A i \in 1..Len(t) : t[i] = q[i + 1]
      BY <1>1, HeadTailProperties
    <2>3. Len(q) \in Nat \ {0} /\ DOMAIN q = 1..Len(q) /\ DOMAIN t = 1..Len(t)
          /\ (t = <<>> <=> Len(t) = 0)
      BY <1>1, <2>1, LenProperties, EmptySeq
    <2> QED BY <2>1, <2>2, <2>3
  <1>4. q = waiting[c] /\ waiting'[c] = t /\ \A d \in Peers \ {c} : waiting'[d] = waiting[d]
    BY <1>1, <1>2 DEF MessagesTypes
  <1>5. waiting' \in [Peers -> Seq(RoomCommand)]
    BY <1>1, <1>2, <1>3 DEF MessagesTypes
  <1> HIDE DEF q, t, h
  <1>6. CallsFollow(c)
    BY DEF MessagesInv
  <1>7. what \in MessageKinds => InRoom(c, h.room)
    <2>1. 1 \in DOMAIN q
      BY <1>3
    <2> QED BY <1>2, <1>3, <1>4, <1>6, <2>1 DEF CallsFollow
  <1>8. ASSUME joining'[c] \in {0, h.room}, roomOf'[c] \in {0, h.room}
        PROVE  CallsFollow(c)'
    <2>1. ASSUME NEW i \in 1..Len(t), t[i].what \in MessageKinds
          PROVE  IF i = 1 THEN t[i].room = h.room ELSE t[i].room = t[i - 1].room
      <3>1. q[i + 1].room = q[i].room /\ t[i] = q[i + 1]
        <4>1. /\ i + 1 \in DOMAIN q /\ i + 1 # 1 /\ (i + 1) - 1 = i
              /\ t[i] = q[i + 1]
          BY <1>3
        <4>2. \A k \in DOMAIN q : q[k].what \in MessageKinds /\ k # 1 => q[k].room = q[k - 1].room
          BY <1>4, <1>6 DEF CallsFollow
        <4>3. q[i + 1].room = q[(i + 1) - 1].room
          BY <2>1, <4>1, <4>2
        <4> QED BY <4>1, <4>3
      <3>2. CASE i = 1
        BY <1>3, <3>1, <3>2
      <3>3. CASE i # 1
        <4>1. i - 1 \in 1..Len(t) /\ (i - 1) + 1 = i
          BY <1>3, <3>3
        <4>2. t[i - 1] = q[i]
          BY <1>3, <4>1
        <4> QED BY <3>1, <3>3, <4>2
      <3> QED BY <3>2, <3>3
    <2>2. IF t = <<>> THEN h.room = callOf[c] ELSE t[Len(t)].room = callOf[c]
      <3>1. q[Len(q)].room = callOf[c]
        BY <1>3, <1>4, <1>6 DEF CallsFollow
      <3>2. CASE t = <<>>
        BY <1>3, <3>1, <3>2
      <3>3. CASE t # <<>>
        <4>1. Len(t) \in 1..Len(t) /\ Len(t) + 1 = Len(q)
          BY <1>3, <3>3
        <4> QED BY <1>3, <3>1, <3>3, <4>1
      <3> QED BY <3>2, <3>3
    <2>3. \A r : r = h.room =>
            (joining'[c] \in {0, r} /\ roomOf'[c] \in {0, r})
      BY <1>8
    <2> QED BY <1>2, <1>3, <1>4, <2>1, <2>2, <2>3 DEF CallsFollow, InRoom
  <1>9. ASSUME NEW s \in Speakers
        PROVE  IF s = c /\ what = "word"
               THEN /\ h.n = wordsTaken[c] + 1
                    /\ Consecutive(Waiting(c)', wordsTaken[c] + 1, wordsSaid[c])
               ELSE Consecutive(Waiting(s)', wordsTaken[s], wordsSaid[s])
    <2>1. /\ s \in Peers /\ Consecutive(Waiting(s), wordsTaken[s], wordsSaid[s])
          /\ wordsTaken[s] \in Nat /\ wordsSaid[s] \in Nat
      BY <1>1 DEF MessagesInv, SaidIsHeard, MessagesTypes
    <2>2. CASE s # c
      <3>1. Waiting(s)' = Waiting(s)
        BY <1>4, <2>1, <2>2 DEF Waiting
      <3> QED BY <2>1, <2>2, <3>1
    <2>3. CASE s = c
      <3> DEFINE f == [i \in {i \in DOMAIN q : q[i].what = "word"} |-> q[i].n]
                 g == [i \in {i \in DOMAIN t : t[i].what = "word"} |-> t[i].n]
      <3>1. Waiting(c)' = g /\ Waiting(c) = f
        BY <1>4 DEF Waiting
      <3>2. /\ DOMAIN f = {i \in 1..Len(q) : q[i].what = "word"}
            /\ \A i \in DOMAIN f : f[i] = q[i].n
            /\ DOMAIN g = {i \in 1..Len(t) : t[i].what = "word"}
            /\ \A i \in DOMAIN g : g[i] = t[i].n
        BY <1>3
      <3> HIDE DEF f, g
      <3>3. DOMAIN f \subseteq Nat \ {0} /\ (1 \in DOMAIN f <=> what = "word")
        BY <1>2, <1>3, <3>2
      <3>4. DOMAIN g = {i \in Nat \ {0} : i + 1 \in DOMAIN f}
        <4>1. ASSUME NEW i \in DOMAIN g PROVE i \in Nat \ {0} /\ i + 1 \in DOMAIN f
          BY <1>3, <3>2
        <4>2. ASSUME NEW i \in Nat \ {0}, i + 1 \in DOMAIN f PROVE i \in DOMAIN g
          <5>1. i + 1 \in 1..Len(q) /\ q[i + 1].what = "word"
            BY <3>2, <4>2
          <5>2. i \in 1..Len(t)
            BY <1>3, <5>1
          <5> QED BY <1>3, <3>2, <5>1, <5>2
        <4> QED BY <4>1, <4>2
      <3>5. \A i \in DOMAIN g : g[i] = f[i + 1]
        BY <1>3, <3>2, <3>4
      <3>6. Consecutive(f, wordsTaken[s], wordsSaid[s])
        BY <2>1, <2>3, <3>1
      <3>7. /\ 1 \notin DOMAIN f => Consecutive(g, wordsTaken[s], wordsSaid[s])
            /\ 1 \in DOMAIN f =>
                 f[1] = wordsTaken[s] + 1 /\ Consecutive(g, wordsTaken[s] + 1, wordsSaid[s])
        BY <2>1, <3>3, <3>4, <3>5, <3>6, OneNumberLess
      <3>8. 1 \in DOMAIN f => f[1] = h.n
        BY <1>3, <3>2
      <3> QED BY <2>3, <3>1, <3>3, <3>7, <3>8
    <2> QED BY <2>2, <2>3
  <1> QED BY <1>2, <1>3, <1>4, <1>5, <1>7, <1>8, <1>9

--------------------------------------------------------------------------------
(* Words: data goes out, and arrives. *)

LEMMA PublishDataFacts ==
  ASSUME MessagesInv, NEW c \in Speakers, NEW command \in RoomCommand, PublishData(c, command),
         InRoom(c, command.room), UNCHANGED <<visit, roomOf>>
  PROVE  /\ post' \in [Peers -> Seq(RoomData)] /\ \A d \in Peers : DataFits(d)'
         /\ \A s \in Speakers, d \in Peers : Together(s, d) =>
              IF s = c /\ command.what = "word"
              THEN command.n = wordsTaken[c] + 1 =>
                     Consecutive(UnderWay(s, d)', wordsHeard[d][s], wordsTaken[c] + 1)
              ELSE UnderWay(s, d)' = UnderWay(s, d)
  <1> DEFINE data(d) == [command |-> command, from |-> c, sent |-> visit[c], got |-> visit[d],
                         room |-> roomOf[c]]
  <1>1. MessagesTypes /\ Speakers \subseteq Peers /\ c \in Peers
    BY RoomMessagesAssumption DEF MessagesInv
  <1>2. post' = [d \in Peers |-> IF Together(c, d) THEN Append(post[d], data(d)) ELSE post[d]]
    BY DEF PublishData
  <1>3. ASSUME NEW d \in Peers PROVE data(d) \in RoomData
    BY <1>1 DEF MessagesTypes, RoomData
  <1>4. ASSUME NEW d \in Peers
        PROVE  /\ data(d).command = command /\ data(d).from = c /\ data(d).sent = visit[c]
               /\ data(d).got = visit[d] /\ data(d).room = roomOf[c]
    OBVIOUS
  <1>5. ASSUME NEW d \in Peers
        PROVE  /\ post[d] \in Seq(RoomData) /\ Len(post[d]) \in Nat
               /\ DOMAIN post[d] = 1..Len(post[d])
    <2>1. post[d] \in Seq(RoomData)
      BY <1>1 DEF MessagesTypes
    <2> QED BY <2>1, LenProperties
  <1>6. ASSUME NEW d \in Peers, Together(c, d)
        PROVE  /\ post'[d] \in Seq(RoomData) /\ DOMAIN post'[d] = 1..(Len(post[d]) + 1)
               /\ \A i \in 1..Len(post[d]) : post'[d][i] = post[d][i]
               /\ post'[d][Len(post[d]) + 1] = data(d)
    <2> DEFINE e == data(d)
    <2>1. post'[d] = Append(post[d], e) /\ e \in RoomData /\ post[d] \in Seq(RoomData)
      BY <1>2, <1>3, <1>5, <1>6
    <2> HIDE DEF e
    <2>2. /\ Append(post[d], e) \in Seq(RoomData) /\ Len(Append(post[d], e)) = Len(post[d]) + 1
          /\ \A i \in 1..Len(post[d]) : Append(post[d], e)[i] = post[d][i]
          /\ Append(post[d], e)[Len(post[d]) + 1] = e
      BY <2>1, AppendProperties
    <2>3. DOMAIN Append(post[d], e) = 1..Len(Append(post[d], e))
      BY <2>2, LenProperties
    <2> QED BY <2>1, <2>2, <2>3 DEF e
  <1>7. ASSUME NEW d \in Peers, ~Together(c, d) PROVE post'[d] = post[d]
    BY <1>2, <1>7
  <1>8. post' \in [Peers -> Seq(RoomData)]
    <2>1. \A d \in Peers : post'[d] \in Seq(RoomData)
      BY <1>5, <1>6, <1>7
    <2>2. post' = [d \in Peers |-> post'[d]]
      BY <1>2
    <2> HIDE DEF data
    <2> QED BY <2>1, <2>2
  <1> HIDE DEF data
  <1>9. ASSUME NEW d \in Peers PROVE DataFits(d)'
    <2>1. DataFits(d)
      BY DEF MessagesInv
    <2>2. CASE ~Together(c, d)
      BY <1>7, <2>1, <2>2 DEF DataFits
    <2>3. CASE Together(c, d)
      <3> SUFFICES ASSUME NEW i \in 1..(Len(post[d]) + 1)
                   PROVE  /\ post'[d][i].command.room = post'[d][i].room
                          /\ post'[d][i].got <= visit[d]
                          /\ post'[d][i].sent <= visit[post'[d][i].from]
        BY <1>6, <2>3 DEF DataFits
      <3>1. CASE i \in 1..Len(post[d])
        BY <1>5, <1>6, <2>1, <2>3, <3>1 DEF DataFits
      <3>2. CASE i = Len(post[d]) + 1
        <4>1. command.room = roomOf[c]
          BY <2>3 DEF InRoom, Together
        <4>2. visit[c] <= visit[c] /\ visit[d] <= visit[d]
          <5>1. visit[c] \in Nat /\ visit[d] \in Nat
            BY <1>1 DEF MessagesTypes
          <5> QED BY <5>1
        <4> QED BY <1>4, <1>6, <2>3, <3>2, <4>1, <4>2
      <3> QED BY <1>5, <3>1, <3>2
    <2> QED BY <2>2, <2>3
  <1>10. ASSUME NEW s \in Speakers, NEW d \in Peers, Together(s, d)
         PROVE  IF s = c /\ command.what = "word"
                THEN command.n = wordsTaken[c] + 1 =>
                       Consecutive(UnderWay(s, d)', wordsHeard[d][s], wordsTaken[c] + 1)
                ELSE UnderWay(s, d)' = UnderWay(s, d)
    <2> DEFINE IsWord(e) == /\ e.command.what = "word" /\ e.from = s
                            /\ e.got = visit[d] /\ e.sent = visit[e.from]
               f == UnderWay(s, d)
               g == UnderWay(s, d)'
               k == Len(post[d])
    <2>1. /\ f = [i \in {i \in 1..k : IsWord(post[d][i])} |-> post[d][i].command.n]
          /\ g = [i \in {i \in DOMAIN post'[d] : IsWord(post'[d][i])} |-> post'[d][i].command.n]
      BY <1>5 DEF UnderWay, Current
    <2>2. /\ DOMAIN f = {i \in 1..k : IsWord(post[d][i])}
          /\ \A i \in DOMAIN f : f[i] = post[d][i].command.n
          /\ DOMAIN g = {i \in DOMAIN post'[d] : IsWord(post'[d][i])}
          /\ \A i \in DOMAIN g : g[i] = post'[d][i].command.n
          /\ f = [i \in DOMAIN f |-> f[i]] /\ g = [i \in DOMAIN g |-> g[i]]
      BY <2>1
    <2> HIDE DEF f, g
    <2>3. CASE ~Together(c, d)
      <3>1. s # c
        BY <1>10, <2>3
      <3>2. g = f
        BY <1>7, <1>5, <2>1, <2>3
      <3> QED BY <3>1, <3>2 DEF f, g
    <2>4. CASE Together(c, d)
      <3>1. IsWord(data(d)) <=> command.what = "word" /\ s = c
        BY <1>4
      <3>2. /\ DOMAIN post'[d] = 1..(k + 1) /\ \A i \in 1..k : post'[d][i] = post[d][i]
            /\ post'[d][k + 1] = data(d) /\ k \in Nat /\ data(d).command = command
        BY <1>4, <1>5, <1>6, <2>4
      <3> HIDE DEF k, IsWord
      <3>3. /\ 1..(k + 1) = (1..k) \cup {k + 1} /\ k + 1 \notin 1..k
        BY <3>2
      <3>4. ~IsWord(data(d)) => g = f
        <4> SUFFICES ASSUME ~IsWord(data(d)) PROVE g = f
          OBVIOUS
        <4>1. DOMAIN g = DOMAIN f
          BY <2>2, <3>2, <3>3
        <4>2. \A i \in DOMAIN f : g[i] = f[i]
          BY <2>2, <3>2, <4>1
        <4> QED BY <2>2, <4>1, <4>2
      <3>5. ASSUME IsWord(data(d)), command.n = wordsTaken[c] + 1
            PROVE  Consecutive(g, wordsHeard[d][c], wordsTaken[c] + 1)
        <4>1. DOMAIN g = DOMAIN f \cup {k + 1} /\ DOMAIN f \subseteq 1..k
          BY <2>2, <3>2, <3>3, <3>5
        <4>2. \A i \in DOMAIN f : g[i] = f[i]
          BY <2>2, <3>2, <4>1
        <4>3. g[k + 1] = wordsTaken[c] + 1
          BY <2>2, <3>2, <3>5, <4>1
        <4>4. Consecutive(f, wordsHeard[d][c], wordsTaken[c])
          BY <1>10, <3>1, <3>5 DEF f, MessagesInv, SaidIsHeard
        <4>5. wordsHeard[d][c] \in Nat /\ wordsTaken[c] \in Nat
          BY <1>1 DEF MessagesTypes
        <4> QED BY <3>2, <4>1, <4>2, <4>3, <4>4, <4>5, OneMoreNumber
      <3> QED BY <3>1, <3>4, <3>5 DEF f, g
    <2> QED BY <2>3, <2>4
  <1> QED BY <1>8, <1>9, <1>10

LEMMA DataReceivedKeeps ==
  ASSUME MessagesInv, NEW d \in Peers, DataReceived(d)
  PROVE  MessagesInv'
  <1> DEFINE q == post[d]
             t == Tail(q)
             h == Head(q)
  <1>1. MessagesTypes /\ q \in Seq(RoomData) /\ q # <<>> /\ Speakers \subseteq Peers
    BY RoomMessagesAssumption DEF MessagesInv, MessagesTypes, DataReceived
  <1>2. /\ post' = [post EXCEPT ![d] = t]
        /\ wordsHeard' = IF h.command.what = "word" /\ Current(d, h)
                         THEN [wordsHeard EXCEPT ![d][h.from] = h.command.n] ELSE wordsHeard
        /\ UNCHANGED <<callOf, wordsSaid, waiting, joining, roomOf, sinceTaken, visit, wordsTaken,
                       sinceSent, unsent>>
    BY DEF DataReceived, appVars, serviceVars
  <1>3. /\ h \in RoomData /\ t \in Seq(RoomData) /\ h = q[1]
        /\ Len(q) \in Nat \ {0} /\ Len(t) = Len(q) - 1
        /\ DOMAIN q = 1..Len(q) /\ DOMAIN t = 1..Len(t)
        /\ \A i \in 1..Len(t) : i \in Nat /\ t[i] = q[i + 1] /\ i + 1 \in 1..Len(q)
    <2>1. h \in RoomData /\ t \in Seq(RoomData) /\ h = q[1]
      BY <1>1
    <2>2. /\ Len(t) = Len(q) - 1 /\ \A i \in 1..Len(t) : t[i] = q[i + 1]
      BY <1>1, HeadTailProperties
    <2>3. Len(q) \in Nat \ {0} /\ DOMAIN q = 1..Len(q) /\ DOMAIN t = 1..Len(t)
      BY <1>1, <2>1, LenProperties, EmptySeq
    <2> QED BY <2>1, <2>2, <2>3
  <1>4. q = post[d] /\ post'[d] = t /\ \A e \in Peers \ {d} : post'[e] = post[e]
    BY <1>1, <1>2 DEF MessagesTypes
  <1>5. post' \in [Peers -> Seq(RoomData)]
    BY <1>1, <1>2, <1>3 DEF MessagesTypes
  <1> HIDE DEF q, t, h
  <1>6. h.from \in Speakers /\ h.command.n \in Nat
    BY <1>3 DEF RoomData, RoomCommand
  <1>7. /\ wordsHeard' \in [Peers -> [Speakers -> Nat]]
        /\ \A e \in Peers, s \in Speakers :
             wordsHeard'[e][s] = IF /\ e = d /\ s = h.from
                                    /\ h.command.what = "word" /\ Current(d, h)
                                 THEN h.command.n ELSE wordsHeard[e][s]
    <2>1. wordsHeard \in [Peers -> [Speakers -> Nat]]
      BY <1>1 DEF MessagesTypes
    <2>2. CASE h.command.what = "word" /\ Current(d, h)
      <3>1. wordsHeard' = [wordsHeard EXCEPT ![d] = [wordsHeard[d] EXCEPT ![h.from] = h.command.n]]
        BY <1>2, <2>2
      <3>2. [wordsHeard[d] EXCEPT ![h.from] = h.command.n] \in [Speakers -> Nat]
        BY <1>6, <2>1
      <3> QED BY <1>6, <2>1, <2>2, <3>1, <3>2
    <2>3. CASE ~(h.command.what = "word" /\ Current(d, h))
      BY <1>2, <2>1, <2>3
    <2> QED BY <2>2, <2>3
  <1>8. MessagesTypes'
    BY <1>1, <1>2, <1>5, <1>7 DEF MessagesTypes
  <1>9. ASSUME NEW c \in Peers PROVE CallsFollow(c)' /\ DataFits(c)' /\ Throttled(c)'
    <2>1. CallsFollow(c) /\ DataFits(c) /\ Throttled(c)
      BY DEF MessagesInv
    <2>2. CallsFollow(c)' /\ Throttled(c)'
      BY <1>2, <2>1 DEF CallsFollow, InRoom, Throttled
    <2>3. CASE c # d
      BY <1>2, <1>4, <2>1, <2>2, <2>3 DEF DataFits
    <2>4. CASE c = d
      BY <1>2, <1>3, <1>4, <2>1, <2>2, <2>4 DEF DataFits
    <2> QED BY <2>3, <2>4
  <1>10. \A e \in Peers : \A i \in DOMAIN post'[e] : post'[e][i].command.room = post'[e][i].room
    BY <1>9 DEF DataFits
  <1>11. ASSUME NEW s \in Speakers, NEW e \in Peers, Together(s, e)
         PROVE  Consecutive(UnderWay(s, e)', wordsHeard'[e][s], wordsTaken[s])
    <2>1. /\ Consecutive(UnderWay(s, e), wordsHeard[e][s], wordsTaken[s])
          /\ wordsHeard[e][s] \in Nat /\ wordsTaken[s] \in Nat
      BY <1>1, <1>11 DEF MessagesInv, SaidIsHeard, MessagesTypes
    <2>2. CASE e # d
      <3>1. UnderWay(s, e)' = UnderWay(s, e)
        BY <1>2, <1>4, <2>2 DEF UnderWay, Current
      <3> QED BY <1>7, <2>1, <2>2, <3>1
    <2>3. CASE e = d
      <3> DEFINE IsWord(x) == /\ x.command.what = "word" /\ x.from = s
                              /\ x.got = visit[d] /\ x.sent = visit[x.from]
                 f == [i \in {i \in DOMAIN q : IsWord(q[i])} |-> q[i].command.n]
                 g == [i \in {i \in DOMAIN t : IsWord(t[i])} |-> t[i].command.n]
      <3>1. UnderWay(s, d)' = g /\ UnderWay(s, d) = f
        BY <1>2, <1>4 DEF UnderWay, Current
      <3>2. /\ DOMAIN f = {i \in 1..Len(q) : IsWord(q[i])}
            /\ \A i \in DOMAIN f : f[i] = q[i].command.n
            /\ DOMAIN g = {i \in 1..Len(t) : IsWord(t[i])}
            /\ \A i \in DOMAIN g : g[i] = t[i].command.n
        BY <1>3
      <3>3. IsWord(h) <=> s = h.from /\ h.command.what = "word" /\ Current(d, h)
        BY DEF Current
      <3> HIDE DEF f, g, IsWord
      <3>4. DOMAIN f \subseteq Nat \ {0} /\ (1 \in DOMAIN f <=> IsWord(h))
        BY <1>3, <3>2
      <3>5. DOMAIN g = {i \in Nat \ {0} : i + 1 \in DOMAIN f}
        <4>1. ASSUME NEW i \in DOMAIN g PROVE i \in Nat \ {0} /\ i + 1 \in DOMAIN f
          BY <1>3, <3>2
        <4>2. ASSUME NEW i \in Nat \ {0}, i + 1 \in DOMAIN f PROVE i \in DOMAIN g
          <5>1. i + 1 \in 1..Len(q) /\ IsWord(q[i + 1])
            BY <3>2, <4>2
          <5>2. i \in 1..Len(t)
            BY <1>3, <5>1
          <5> QED BY <1>3, <3>2, <5>1, <5>2
        <4> QED BY <4>1, <4>2
      <3>6. \A i \in DOMAIN g : g[i] = f[i + 1]
        BY <1>3, <3>2, <3>5
      <3>7. Consecutive(f, wordsHeard[d][s], wordsTaken[s])
        BY <2>1, <2>3, <3>1
      <3>8. /\ 1 \notin DOMAIN f => Consecutive(g, wordsHeard[d][s], wordsTaken[s])
            /\ 1 \in DOMAIN f =>
                 f[1] = wordsHeard[d][s] + 1 /\ Consecutive(g, wordsHeard[d][s] + 1, wordsTaken[s])
        BY <2>1, <2>3, <3>4, <3>5, <3>6, <3>7, OneNumberLess
      <3>9. 1 \in DOMAIN f => f[1] = h.command.n
        BY <1>3, <3>2
      <3>10. CASE IsWord(h)
        <4>1. wordsHeard'[d][s] = wordsHeard[d][s] + 1
          BY <1>7, <3>3, <3>4, <3>8, <3>9, <3>10
        <4> QED BY <2>3, <3>1, <3>4, <3>8, <3>10, <4>1
      <3>11. CASE ~IsWord(h)
        <4>1. wordsHeard'[d][s] = wordsHeard[d][s]
          BY <1>7, <3>3, <3>11
        <4> QED BY <2>3, <3>1, <3>4, <3>8, <3>11, <4>1
      <3> QED BY <3>10, <3>11
    <2> QED BY <2>2, <2>3
  <1>12. \A s \in Speakers, e \in Peers : Together(s, e)' = Together(s, e)
    BY <1>2 DEF Together
  <1>13. \A s \in Speakers : Waiting(s)' = Waiting(s)
    BY <1>2 DEF Waiting
  <1>14. SaidIsHeard'
    BY <1>2, <1>10, <1>11, <1>12, <1>13 DEF MessagesInv, SaidIsHeard
  <1> QED BY <1>8, <1>9, <1>14 DEF MessagesInv

--------------------------------------------------------------------------------
(* Words: the steps of the service. *)

LEMMA RoomIsLeft ==
  ASSUME MessagesInv, NEW c \in Peers, NEW what, what # "word", TakesNext(c, what),
         roomOf' = [roomOf EXCEPT ![c] = 0],
         joining' \in [Peers -> Nat], joining'[c] \in {0, Foremost(c).room},
         \A d \in Peers \ {c} : joining'[d] = joining[d],
         UNCHANGED <<sinceTaken, visit, wordsTaken, sinceSent, unsent, post, wordsHeard>>
  PROVE  MessagesInv'
  <1>1. MessagesTypes /\ Speakers \subseteq Peers
    BY RoomMessagesAssumption DEF MessagesInv
  <1>2. /\ roomOf' \in [Peers -> Nat] /\ roomOf'[c] = 0
        /\ \A d \in Peers \ {c} : roomOf'[d] = roomOf[d]
    BY <1>1 DEF MessagesTypes
  <1>3. /\ waiting' \in [Peers -> Seq(RoomCommand)]
        /\ \A d \in Peers \ {c} : waiting'[d] = waiting[d]
        /\ UNCHANGED <<callOf, wordsSaid>> /\ CallsFollow(c)'
        /\ \A s \in Speakers : Consecutive(Waiting(s)', wordsTaken[s], wordsSaid[s])
    BY <1>2, TakesNextFacts
  <1>4. MessagesTypes'
    BY <1>1, <1>2, <1>3 DEF MessagesTypes
  <1>5. ASSUME NEW d \in Peers PROVE CallsFollow(d)' /\ DataFits(d)' /\ Throttled(d)'
    <2>1. CallsFollow(d) /\ DataFits(d) /\ Throttled(d)
      BY DEF MessagesInv
    <2>2. DataFits(d)' /\ Throttled(d)'
      BY <1>2, <2>1 DEF DataFits, Throttled
    <2>3. CallsFollow(d)'
      <3>1. CASE d # c
        BY <1>2, <1>3, <2>1, <3>1 DEF CallsFollow, InRoom
      <3> QED BY <1>3, <3>1
    <2> QED BY <2>2, <2>3
  <1>6. SaidIsHeard'
    <2>1. \A s \in Speakers, d \in Peers :
            UnderWay(s, d)' = UnderWay(s, d) /\ (Together(s, d)' => Together(s, d))
      BY <1>1, <1>2 DEF UnderWay, Current, Together
    <2>2. SaidIsHeard
      BY DEF MessagesInv
    <2> QED BY <1>3, <2>1, <2>2 DEF SaidIsHeard
  <1> QED BY <1>4, <1>5, <1>6 DEF MessagesInv

\* A message is taken: whoever is in the room gets it.
LEMMA MessageIsTaken ==
  ASSUME MessagesInv, NEW c \in Speakers, NEW what \in MessageKinds, TakesNext(c, what),
         UNCHANGED <<joining, roomOf, visit, wordsHeard>>,
         PublishData(c, Foremost(c)) \/ (what = "position" /\ UNCHANGED post),
         wordsTaken' = IF what = "word" THEN [wordsTaken EXCEPT ![c] = Foremost(c).n]
                       ELSE wordsTaken,
         sinceTaken' \in [Peers -> 0..Throttle], sinceSent' \in [Peers -> 0..Throttle],
         \A d \in Peers : Throttled(d)', unsent' = FALSE
  PROVE  MessagesInv'
  <1>1. MessagesTypes /\ Speakers \subseteq Peers /\ c \in Peers
    BY RoomMessagesAssumption DEF MessagesInv
  <1>2. /\ Foremost(c) \in RoomCommand /\ Foremost(c).what = what
        /\ waiting' \in [Peers -> Seq(RoomCommand)]
        /\ \A d \in Peers \ {c} : waiting'[d] = waiting[d]
        /\ UNCHANGED <<callOf, wordsSaid>> /\ InRoom(c, Foremost(c).room)
    BY <1>1, TakesNextFacts
  <1>3. /\ CallsFollow(c)'
        /\ \A s \in Speakers :
             IF s = c /\ what = "word"
             THEN /\ Foremost(c).n = wordsTaken[c] + 1
                  /\ Consecutive(Waiting(c)', wordsTaken[c] + 1, wordsSaid[c])
             ELSE Consecutive(Waiting(s)', wordsTaken[s], wordsSaid[s])
    <2>1. joining'[c] \in {0, Foremost(c).room} /\ roomOf'[c] \in {0, Foremost(c).room}
      BY <1>2 DEF InRoom
    <2> QED BY <1>1, <2>1, TakesNextFacts
  <1>4. /\ wordsTaken' \in [Speakers -> Nat]
        /\ \A s \in Speakers : wordsTaken'[s] = IF s = c /\ what = "word" THEN wordsTaken[c] + 1
                                                ELSE wordsTaken[s]
    <2>1. CASE what = "word"
      <3>1. Foremost(c).n = wordsTaken[c] + 1 /\ wordsTaken[c] + 1 \in Nat
        BY <1>1, <1>3, <2>1 DEF MessagesTypes
      <3> QED BY <1>1, <2>1, <3>1 DEF MessagesTypes
    <2>2. CASE what # "word"
      BY <1>1, <2>2 DEF MessagesTypes
    <2> QED BY <2>1, <2>2
  <1>5. /\ post' \in [Peers -> Seq(RoomData)] /\ \A d \in Peers : DataFits(d)'
        /\ \A s \in Speakers, d \in Peers : Together(s, d) =>
             Consecutive(UnderWay(s, d)', wordsHeard[d][s], wordsTaken'[s])
    <2>1. \A s \in Speakers, d \in Peers : Together(s, d) =>
            Consecutive(UnderWay(s, d), wordsHeard[d][s], wordsTaken[s])
      BY DEF MessagesInv, SaidIsHeard
    <2>2. CASE PublishData(c, Foremost(c))
      <3>1. /\ post' \in [Peers -> Seq(RoomData)] /\ \A d \in Peers : DataFits(d)'
            /\ \A s \in Speakers, d \in Peers : Together(s, d) =>
                 IF s = c /\ what = "word"
                 THEN Foremost(c).n = wordsTaken[c] + 1 =>
                        Consecutive(UnderWay(s, d)', wordsHeard[d][s], wordsTaken[c] + 1)
                 ELSE UnderWay(s, d)' = UnderWay(s, d)
        BY <1>2, <2>2, PublishDataFacts
      <3>2. ASSUME NEW s \in Speakers, NEW d \in Peers, Together(s, d)
            PROVE  Consecutive(UnderWay(s, d)', wordsHeard[d][s], wordsTaken'[s])
        <4>1. CASE s = c /\ what = "word"
          BY <1>3, <1>4, <3>1, <3>2, <4>1
        <4>2. CASE ~(s = c /\ what = "word")
          <5>1. UnderWay(s, d)' = UnderWay(s, d) /\ wordsTaken'[s] = wordsTaken[s]
            BY <1>4, <3>1, <3>2, <4>2
          <5> QED BY <2>1, <3>2, <5>1
        <4> QED BY <4>1, <4>2
      <3> QED BY <3>1, <3>2
    <2>3. CASE what = "position" /\ UNCHANGED post
      <3>1. \A d \in Peers : DataFits(d)'
        BY <2>3 DEF MessagesInv, DataFits
      <3>2. \A s \in Speakers, d \in Peers : UnderWay(s, d)' = UnderWay(s, d)
        BY <2>3 DEF UnderWay, Current
      <3>3. \A s \in Speakers : wordsTaken'[s] = wordsTaken[s]
        BY <1>4, <2>3
      <3> QED BY <1>1, <2>1, <2>3, <3>1, <3>2, <3>3 DEF MessagesTypes
    <2> QED BY <2>2, <2>3
  <1>6. MessagesTypes'
    BY <1>1, <1>2, <1>4, <1>5 DEF MessagesTypes
  <1>7. ASSUME NEW d \in Peers PROVE CallsFollow(d)' /\ DataFits(d)' /\ Throttled(d)'
    <2>1. CallsFollow(d)
      BY DEF MessagesInv
    <2>2. CASE d # c
      BY <1>2, <1>5, <2>1, <2>2 DEF CallsFollow, InRoom
    <2> QED BY <1>3, <1>5, <2>2
  <1>8. SaidIsHeard'
    <2>1. \A d \in Peers : \A i \in DOMAIN post'[d] :
            post'[d][i].command.room = post'[d][i].room
      BY <1>5 DEF DataFits
    <2>2. ASSUME NEW s \in Speakers PROVE Consecutive(Waiting(s)', wordsTaken'[s], wordsSaid'[s])
      BY <1>2, <1>3, <1>4
    <2>3. \A s \in Speakers, d \in Peers : Together(s, d)' = Together(s, d)
      BY DEF Together
    <2> QED BY <1>5, <2>1, <2>2, <2>3 DEF SaidIsHeard
  <1> QED BY <1>6, <1>7, <1>8 DEF MessagesInv

LEMMA PublishesWordKeeps ==
  ASSUME MessagesInv, NEW c \in Speakers, PublishesWord(c)
  PROVE  MessagesInv'
  <1>1. \A d \in Peers : Throttled(d)'
    BY DEF MessagesInv, Throttled, PublishesWord
  <1>2. "word" \in MessageKinds
    BY DEF MessageKinds
  <1>3. sinceTaken' \in [Peers -> 0..Throttle] /\ sinceSent' \in [Peers -> 0..Throttle]
        /\ unsent' = FALSE
    BY DEF MessagesInv, MessagesTypes, SaidIsHeard, PublishesWord
  <1> QED BY <1>1, <1>2, <1>3, MessageIsTaken DEF PublishesWord

LEMMA PublishesPositionKeeps ==
  ASSUME MessagesInv, NEW c \in Speakers, PublishesCursorPosition(c)
  PROVE  MessagesInv'
  <1>1. /\ MessagesTypes /\ c \in Peers /\ Throttle \in Nat \ {0} /\ unsent = FALSE
        /\ \A d \in Peers : Throttled(d) /\ roomOf'[d] = roomOf[d]
    BY RoomMessagesAssumption DEF MessagesInv, SaidIsHeard, PublishesCursorPosition, MessagesTypes
  <1>2. \A d \in Peers : sinceTaken[d] \in 0..Throttle /\ sinceSent[d] \in 0..Throttle
    BY <1>1 DEF MessagesTypes
  <1>3. /\ TakesNext(c, "position") /\ "position" \in MessageKinds
        /\ UNCHANGED <<joining, roomOf, visit, wordsTaken, wordsHeard>>
    BY DEF PublishesCursorPosition, MessageKinds
  <1>4. CASE /\ LeavesOut(c) /\ UNCHANGED <<sinceSent, post>>
             /\ unsent' = (unsent \/ (roomOf[c] # 0 /\ sinceSent[c] >= Throttle))
    <2>1. unsent' = FALSE
      <3>1. ~(roomOf[c] # 0 /\ sinceSent[c] >= Throttle)
        BY <1>1, <1>2, <1>4 DEF LeavesOut, Throttled
      <3> QED BY <1>1, <1>4, <3>1
    <2>2. \A d \in Peers : Throttled(d)'
      BY <1>1, <1>4 DEF LeavesOut, Throttled
    <2>3. sinceTaken' \in [Peers -> 0..Throttle] /\ sinceSent' \in [Peers -> 0..Throttle]
      BY <1>1, <1>4 DEF LeavesOut, MessagesTypes
    <2> QED BY <1>3, <1>4, <2>1, <2>2, <2>3, MessageIsTaken
  <1>5. CASE /\ sinceTaken' = [sinceTaken EXCEPT ![c] = 0] /\ PublishData(c, Foremost(c))
             /\ sinceSent' = [sinceSent EXCEPT ![c] = IF roomOf[c] # 0 THEN 0 ELSE @]
             /\ UNCHANGED unsent
    <2>1. 0 \in 0..Throttle /\ 0 <= 0
      BY <1>1
    <2>2. sinceTaken' \in [Peers -> 0..Throttle] /\ sinceSent' \in [Peers -> 0..Throttle]
      BY <1>1, <1>2, <1>5, <2>1 DEF MessagesTypes
    <2>3. ASSUME NEW d \in Peers PROVE Throttled(d)'
      <3>1. CASE d = c
        BY <1>1, <1>5, <2>1, <3>1 DEF Throttled, MessagesTypes
      <3>2. CASE d # c
        BY <1>1, <1>5, <3>2 DEF Throttled, MessagesTypes
      <3> QED BY <3>1, <3>2
    <2> QED BY <1>1, <1>3, <1>5, <2>2, <2>3, MessageIsTaken
  <1> QED BY <1>4, <1>5 DEF PublishesCursorPosition

LEMMA ConnectsKeeps ==
  ASSUME MessagesInv, NEW c \in Peers, Connects(c)
  PROVE  MessagesInv'
  <1>1. MessagesTypes /\ Speakers \subseteq Peers /\ Throttle \in Nat \ {0}
    BY RoomMessagesAssumption DEF MessagesInv
  <1>2. /\ joining[c] # 0 /\ sinceTaken[c] = Throttle
        /\ roomOf' = [roomOf EXCEPT ![c] = joining[c]] /\ joining' = [joining EXCEPT ![c] = 0]
        /\ visit' = [visit EXCEPT ![c] = @ + 1]
        /\ wordsHeard' = [d \in Peers |-> [s \in Speakers |->
                            IF c \in {d, s} THEN wordsTaken[s] ELSE wordsHeard[d][s]]]
        /\ UNCHANGED <<callOf, wordsSaid, waiting, sinceTaken, wordsTaken, sinceSent, unsent, post>>
    BY DEF Connects, appVars
  <1>3. /\ joining[c] \in Nat /\ visit[c] \in Nat
        /\ roomOf'[c] = joining[c] /\ joining'[c] = 0 /\ visit'[c] = visit[c] + 1
        /\ \A d \in Peers \ {c} : /\ roomOf'[d] = roomOf[d] /\ joining'[d] = joining[d]
                                  /\ visit'[d] = visit[d]
    BY <1>1, <1>2 DEF MessagesTypes
  <1>4. roomOf' \in [Peers -> Nat] /\ joining' \in [Peers -> Nat] /\ visit' \in [Peers -> Nat]
    BY <1>1, <1>2, <1>3 DEF MessagesTypes
  <1>5. wordsHeard' \in [Peers -> [Speakers -> Nat]]
    <2>1. \A d \in Peers, s \in Speakers : wordsTaken[s] \in Nat /\ wordsHeard[d][s] \in Nat
      BY <1>1 DEF MessagesTypes
    <2> QED BY <1>2, <2>1
  <1>6. MessagesTypes'
    BY <1>1, <1>2, <1>4, <1>5 DEF MessagesTypes
  <1>7. \A d \in Peers : visit[d] \in Nat /\ visit[d] <= visit'[d] /\ visit'[d] \in Nat
    <2>1. \A d \in Peers : visit[d] \in Nat
      BY <1>1 DEF MessagesTypes
    <2> QED BY <1>3, <2>1
  <1>8. \A d \in Peers : \A i \in DOMAIN post[d] :
          /\ post[d][i].got \in Nat /\ post[d][i].sent \in Nat /\ post[d][i].from \in Peers
          /\ post[d][i].got <= visit[d] /\ post[d][i].sent <= visit[post[d][i].from]
          /\ post[d][i].command.room = post[d][i].room
    <2> SUFFICES ASSUME NEW d \in Peers, NEW i \in DOMAIN post[d]
                 PROVE  /\ post[d][i].got \in Nat /\ post[d][i].sent \in Nat
                        /\ post[d][i].from \in Peers
                        /\ post[d][i].got <= visit[d] /\ post[d][i].sent <= visit[post[d][i].from]
                        /\ post[d][i].command.room = post[d][i].room
      OBVIOUS
    <2>1. post[d][i] \in RoomData
      <3>1. post[d] \in Seq(RoomData)
        BY <1>1 DEF MessagesTypes
      <3> QED BY <3>1, ElementOfSeq, LenProperties
    <2> QED BY <1>1, <2>1 DEF RoomData, MessagesInv, DataFits
  <1>9. ASSUME NEW d \in Peers PROVE CallsFollow(d)' /\ DataFits(d)' /\ Throttled(d)'
    <2>1. CallsFollow(d) /\ Throttled(d)
      BY DEF MessagesInv
    <2>2. CallsFollow(d)'
      <3>1. CASE d = c
        <4>1. \A r : InRoom(c, r) => InRoom(c, r)'
          BY <1>2, <1>3 DEF InRoom
        <4> QED BY <1>2, <2>1, <3>1, <4>1 DEF CallsFollow
      <3>2. CASE d # c
        BY <1>2, <1>3, <2>1, <3>2 DEF CallsFollow, InRoom
      <3> QED BY <3>1, <3>2
    <2>3. Throttled(d)'
      <3>1. CASE d = c
        <4>1. sinceSent[c] <= Throttle
          BY <1>1 DEF MessagesTypes
        <4> QED BY <1>2, <3>1, <4>1 DEF Throttled
      <3>2. CASE d # c
        BY <1>2, <1>3, <2>1, <3>2 DEF Throttled
      <3> QED BY <3>1, <3>2
    <2>4. DataFits(d)'
      <3> SUFFICES ASSUME NEW i \in DOMAIN post[d]
                   PROVE  /\ post[d][i].command.room = post[d][i].room
                          /\ post[d][i].got <= visit'[d]
                          /\ post[d][i].sent <= visit'[post[d][i].from]
        BY <1>2 DEF DataFits
      <3> QED BY <1>7, <1>8
    <2> QED BY <2>2, <2>3, <2>4
  <1>10. ASSUME NEW s \in Speakers, NEW d \in Peers, Together(s, d)'
         PROVE  Consecutive(UnderWay(s, d), wordsHeard[d][s], wordsTaken[s])'
    <2>1. s \in Peers /\ s # d /\ wordsTaken[s] \in Nat
      BY <1>1, <1>10 DEF Together, MessagesTypes
    <2>2. CASE c \in {d, s}
      <3>1. wordsHeard'[d][s] = wordsTaken[s]
        BY <1>2, <2>2
      <3>2. ASSUME NEW i \in DOMAIN post[d], post[d][i].from = s
            PROVE  ~(post[d][i].got = visit'[d] /\ post[d][i].sent = visit'[s])
        BY <1>3, <1>8, <2>2, <3>2
      <3>3. DOMAIN UnderWay(s, d)' = {}
        BY <1>2, <3>2 DEF UnderWay, Current
      <3>4. Consecutive(UnderWay(s, d)', wordsTaken[s], wordsTaken[s])
        <4> DEFINE f == UnderWay(s, d)'
        <4>1. DOMAIN f = {}
          BY <3>3
        <4> HIDE DEF f
        <4>2. Consecutive(f, wordsTaken[s], wordsTaken[s])
          BY <2>1, <4>1, NothingIsConsecutive
        <4> QED BY <4>2 DEF f
      <3> QED BY <1>2, <3>1, <3>4
    <2>3. CASE c \notin {d, s}
      <3>1. wordsHeard'[d][s] = wordsHeard[d][s] /\ visit'[d] = visit[d] /\ visit'[s] = visit[s]
        BY <1>2, <1>3, <2>1, <2>3
      <3>2. Together(s, d)
        BY <1>3, <1>10, <2>1, <2>3 DEF Together
      <3>3. UnderWay(s, d)' = UnderWay(s, d)
        <4>1. \A i \in DOMAIN post[d] :
                /\ post[d][i].command.what = "word" /\ post[d][i].from = s
                /\ post[d][i].got = visit'[d] /\ post[d][i].sent = visit'[post[d][i].from]
                <=> /\ post[d][i].command.what = "word" /\ post[d][i].from = s
                    /\ post[d][i].got = visit[d] /\ post[d][i].sent = visit[post[d][i].from]
          BY <3>1
        <4> QED BY <1>2, <4>1 DEF UnderWay, Current
      <3> QED BY <1>2, <3>1, <3>2, <3>3 DEF MessagesInv, SaidIsHeard
    <2> QED BY <2>2, <2>3
  <1>11. SaidIsHeard'
    <2>1. \A s \in Speakers : Waiting(s)' = Waiting(s)
      BY <1>2 DEF Waiting
    <2> QED BY <1>2, <1>10, <2>1 DEF MessagesInv, SaidIsHeard
  <1> QED BY <1>6, <1>9, <1>11 DEF MessagesInv

LEMMA ConnectFailsKeeps ==
  ASSUME MessagesInv, NEW c \in Peers, ConnectFails(c)
  PROVE  MessagesInv'
  <1>1. /\ MessagesTypes /\ joining' = [joining EXCEPT ![c] = 0]
        /\ UNCHANGED <<callOf, wordsSaid, waiting, roomOf, sinceTaken, visit, wordsTaken, sinceSent,
                       unsent, post, wordsHeard>>
    BY DEF MessagesInv, ConnectFails, appVars
  <1>2. /\ joining' \in [Peers -> Nat] /\ joining'[c] = 0
        /\ \A d \in Peers \ {c} : joining'[d] = joining[d]
    BY <1>1 DEF MessagesTypes
  <1>3. MessagesTypes'
    BY <1>1, <1>2 DEF MessagesTypes
  <1>4. ASSUME NEW d \in Peers PROVE CallsFollow(d)' /\ DataFits(d)' /\ Throttled(d)'
    <2>1. CallsFollow(d) /\ DataFits(d) /\ Throttled(d)
      BY DEF MessagesInv
    <2>2. \A r : InRoom(d, r) => InRoom(d, r)'
      BY <1>1, <1>2 DEF InRoom
    <2> QED BY <1>1, <2>1, <2>2 DEF CallsFollow, DataFits, Throttled
  <1>5. SaidIsHeard'
    <2>1. /\ \A s \in Speakers : Waiting(s)' = Waiting(s)
          /\ \A s \in Speakers, d \in Peers :
               UnderWay(s, d)' = UnderWay(s, d) /\ Together(s, d)' = Together(s, d)
      BY <1>1 DEF Waiting, UnderWay, Current, Together
    <2> QED BY <1>1, <2>1 DEF MessagesInv, SaidIsHeard
  <1> QED BY <1>3, <1>4, <1>5 DEF MessagesInv

LEMMA MessagesTimeKeeps ==
  ASSUME MessagesInv, TimePasses
  PROVE  MessagesInv'
  <1>1. /\ MessagesTypes /\ Throttle \in Nat \ {0}
        /\ sinceTaken' = Older(sinceTaken) /\ sinceSent' = Older(sinceSent)
        /\ UNCHANGED <<callOf, wordsSaid, waiting, joining, roomOf, visit, wordsTaken, unsent, post,
                       wordsHeard>>
    BY RoomMessagesAssumption DEF MessagesInv, TimePasses, appVars
  <1>2. \A d \in Peers : sinceTaken[d] \in 0..Throttle /\ sinceSent[d] \in 0..Throttle
    BY <1>1 DEF MessagesTypes
  <1>3. /\ sinceTaken' \in [Peers -> 0..Throttle] /\ sinceSent' \in [Peers -> 0..Throttle]
        /\ \A d \in Peers : Throttled(d)'
    BY <1>1, <1>2 DEF Older, MessagesInv, Throttled
  <1>4. MessagesTypes'
    BY <1>1, <1>3 DEF MessagesTypes
  <1>5. \A d \in Peers : CallsFollow(d)' /\ DataFits(d)'
    BY <1>1 DEF MessagesInv, CallsFollow, InRoom, DataFits
  <1>6. SaidIsHeard'
    <2>1. /\ \A s \in Speakers : Waiting(s)' = Waiting(s)
          /\ \A s \in Speakers, d \in Peers :
               UnderWay(s, d)' = UnderWay(s, d) /\ Together(s, d)' = Together(s, d)
      BY <1>1 DEF Waiting, UnderWay, Current, Together
    <2> QED BY <1>1, <2>1 DEF MessagesInv, SaidIsHeard
  <1> QED BY <1>3, <1>4, <1>5, <1>6 DEF MessagesInv

LEMMA MessagesNextInv == MessagesInv /\ [MessagesNext]_messageVars => MessagesInv'
  <1> SUFFICES ASSUME MessagesInv, [MessagesNext]_messageVars
               PROVE  MessagesInv'
    OBVIOUS
  <1>1. MessagesTypes /\ Speakers \subseteq Peers /\ RoomIds \subseteq Nat \ {0}
    BY RoomMessagesAssumption DEF MessagesInv
  <1>2. \A c \in Peers : callOf[c] \in Nat
    BY <1>1 DEF MessagesTypes
  <1>3. ASSUME NEW c \in Peers, NEW r \in RoomIds, CreateRoom(c, r) PROVE MessagesInv'
    <2> DEFINE command == Command("create", r, 0)
    <2>1. /\ command \in RoomCommand /\ command.what = "create" /\ command.room = r
      BY <1>1 DEF RoomCommand, CommandKinds, Command
    <2>2. /\ SendCommand(c, command) /\ wordsSaid' = wordsSaid
          /\ callOf' = [callOf EXCEPT ![c] = r]
      BY <1>3 DEF CreateRoom
    <2> HIDE DEF command
    <2>3. /\ callOf' \in [Peers -> Nat] /\ callOf'[c] = r
          /\ \A d \in Peers \ {c} : callOf'[d] = callOf[d]
      BY <1>1, <2>2 DEF MessagesTypes
    <2> QED BY <2>1, <2>2, <2>3, SendCommandKeeps DEF MessageKinds
  <1>4. ASSUME NEW c \in Peers, LeaveCall(c) PROVE MessagesInv'
    <2> DEFINE command == Command("destroy", 0, 0)
    <2>1. /\ command \in RoomCommand /\ command.what = "destroy" /\ command.room = 0
      BY DEF RoomCommand, CommandKinds, Command
    <2>2. /\ SendCommand(c, command) /\ wordsSaid' = wordsSaid
          /\ callOf' = [callOf EXCEPT ![c] = 0]
      BY <1>4 DEF LeaveCall
    <2> HIDE DEF command
    <2>3. /\ callOf' \in [Peers -> Nat] /\ callOf'[c] = 0
          /\ \A d \in Peers \ {c} : callOf'[d] = callOf[d]
      BY <1>1, <2>2 DEF MessagesTypes
    <2> QED BY <2>1, <2>2, <2>3, SendCommandKeeps DEF MessageKinds
  <1>5. ASSUME NEW c \in Speakers, PublishWord(c) PROVE MessagesInv'
    <2> DEFINE command == Command("word", callOf[c], wordsSaid[c] + 1)
    <2>1. c \in Peers /\ wordsSaid[c] \in Nat /\ callOf' = callOf /\ callOf \in [Peers -> Nat]
      BY <1>1, <1>5 DEF MessagesTypes, PublishWord
    <2>2. /\ command \in RoomCommand /\ command.what = "word" /\ command.room = callOf[c]
          /\ command.n = wordsSaid[c] + 1
      BY <1>2, <2>1 DEF RoomCommand, CommandKinds, Command
    <2>3. SendCommand(c, command) /\ wordsSaid' = [wordsSaid EXCEPT ![c] = @ + 1]
      BY <1>5 DEF PublishWord
    <2> HIDE DEF command
    <2> QED BY <2>1, <2>2, <2>3, SendCommandKeeps
  <1>6. ASSUME NEW c \in Speakers, PublishPosition(c) PROVE MessagesInv'
    <2> DEFINE command == Command("position", callOf[c], 0)
    <2>1. c \in Peers /\ callOf' = callOf /\ callOf \in [Peers -> Nat]
      BY <1>1, <1>6 DEF MessagesTypes, PublishPosition
    <2>2. command \in RoomCommand /\ command.what = "position" /\ command.room = callOf[c]
      BY <1>2, <2>1 DEF RoomCommand, CommandKinds, Command
    <2>3. SendCommand(c, command) /\ wordsSaid' = wordsSaid
      BY <1>6 DEF PublishPosition
    <2> HIDE DEF command
    <2> QED BY <2>1, <2>2, <2>3, SendCommandKeeps
  <1>7. ASSUME NEW c \in Peers, StartsConnecting(c) PROVE MessagesInv'
    <2>1. /\ TakesNext(c, "create") /\ roomOf' = [roomOf EXCEPT ![c] = 0]
          /\ joining' = [joining EXCEPT ![c] = Foremost(c).room]
          /\ UNCHANGED <<sinceTaken, visit, wordsTaken, sinceSent, unsent, post, wordsHeard>>
      BY <1>7 DEF StartsConnecting, ClearedRoom
    <2>2. Foremost(c).room \in Nat
      <3>1. Foremost(c) \in RoomCommand
        BY <2>1, TakesNextFacts
      <3> QED BY <3>1 DEF RoomCommand
    <2>3. /\ joining' \in [Peers -> Nat] /\ joining'[c] = Foremost(c).room
          /\ \A d \in Peers \ {c} : joining'[d] = joining[d]
      BY <1>1, <2>1, <2>2 DEF MessagesTypes
    <2> QED BY <2>1, <2>3, RoomIsLeft
  <1>8. ASSUME NEW c \in Peers, DestroysRoom(c) PROVE MessagesInv'
    <2>1. /\ TakesNext(c, "destroy") /\ roomOf' = [roomOf EXCEPT ![c] = 0] /\ joining[c] = 0
          /\ UNCHANGED <<joining, sinceTaken, visit, wordsTaken, sinceSent, unsent, post, wordsHeard>>
      BY <1>8 DEF DestroysRoom, TakesNext
    <2>2. joining' \in [Peers -> Nat] /\ \A d \in Peers : joining'[d] = joining[d]
      BY <1>1, <2>1 DEF MessagesTypes
    <2> QED BY <2>1, <2>2, RoomIsLeft
  <1>9. CASE UNCHANGED messageVars
    <2>1. UNCHANGED <<callOf, wordsSaid, waiting, joining, roomOf, sinceTaken, visit, wordsTaken,
                      sinceSent, unsent, post, wordsHeard>>
      BY <1>9 DEF messageVars, appVars, serviceVars
    <2>2. \A d \in Peers : CallsFollow(d)' /\ DataFits(d)' /\ Throttled(d)'
      BY <2>1 DEF MessagesInv, CallsFollow, InRoom, DataFits, Throttled
    <2>3. SaidIsHeard'
      <3>1. /\ \A s \in Speakers : Waiting(s)' = Waiting(s)
            /\ \A s \in Speakers, d \in Peers :
                 UnderWay(s, d)' = UnderWay(s, d) /\ Together(s, d)' = Together(s, d)
        BY <2>1 DEF Waiting, UnderWay, Current, Together
      <3> QED BY <2>1, <3>1 DEF MessagesInv, SaidIsHeard
    <2> QED BY <1>1, <2>1, <2>2, <2>3 DEF MessagesInv, MessagesTypes
  <1> QED BY <1>3, <1>4, <1>5, <1>6, <1>7, <1>8, <1>9, ConnectsKeeps, ConnectFailsKeeps,
             DataReceivedKeeps, PublishesWordKeeps, PublishesPositionKeeps, MessagesTimeKeeps
          DEF MessagesNext

\* What an application says in a call is heard in that call only, its words are taken in the
\* order in which they were said and none is left out, two who stay in a room hear all of each
\* other's words in order, and a pointer that moves is published in every interval
\* (room_service.rs, room_service_commands and DataReceived).
THEOREM WordsAreHeardInOrder == MessagesSpec => []SaidIsHeard
  <1>1. MessagesInv => SaidIsHeard
    BY DEF MessagesInv
  <1> QED BY <1>1, MessagesInitInv, MessagesNextInv, PTL DEF MessagesSpec

--------------------------------------------------------------------------------
(* Texts: pieces in a queue, and in their order. *)

\* A piece of a text, as it may be asked for or sent.
AnyPiece == [text : Nat, id : Nat, total : Nat]
RealPiece == {piece \in AnyPiece : piece.text \in 1..MaxTexts /\ piece.id < piece.total}

\* The places of n pieces are different ones of 1..n, and so all of them.
LEMMA EveryPlaceIsTaken ==
  ASSUME NEW S, NEW q \in Seq(S), \A i \in DOMAIN q : q[i].id \in Nat,
         NEW n \in DOMAIN q
  PROVE  \E i \in DOMAIN q : Place(q, i) = n
  <1> DEFINE size == Len(q)
             Earlier(i) == {j \in 1..size : Before(q, j, i)}
             place == [i \in 1..size |-> Cardinality(Earlier(i)) + 1]
  <1>1. size \in Nat /\ DOMAIN q = 1..size /\ \A i \in 1..size : q[i].id \in Nat
    <2>1. Len(q) \in Nat /\ DOMAIN q = 1..Len(q)
      BY LenProperties
    <2> QED BY <2>1
  <1>2. IsFiniteSet(1..size) /\ Cardinality(1..size) = size
    <2>1. size \in Nat /\ 1 \in Nat /\ size - 1 + 1 = size
      BY <1>1
    <2> HIDE DEF size
    <2> QED BY <2>1, FS_Interval
  <1>3. \A i \in 1..size : place[i] = Place(q, i)
    BY <1>1 DEF Place
  <1>4. ASSUME NEW i \in 1..size, NEW j \in 1..size, NEW k \in 1..size
        PROVE  /\ ~Before(q, i, i)
               /\ i # j => Before(q, i, j) \/ Before(q, j, i)
               /\ Before(q, i, j) /\ Before(q, j, k) => Before(q, i, k)
    <2>1. /\ q[i].id \in Nat /\ q[j].id \in Nat /\ q[k].id \in Nat
          /\ i \in Nat /\ j \in Nat /\ k \in Nat
      <3>1. \A x \in 1..size : x \in Nat
        OBVIOUS
      <3> QED BY <1>1, <3>1
    <2>2. /\ ~(q[i].id < q[i].id) /\ ~(i < i)
          /\ q[i].id < q[j].id \/ q[i].id = q[j].id \/ q[j].id < q[i].id
          /\ i # j => i < j \/ j < i
          /\ q[i].id < q[j].id /\ q[j].id < q[k].id => q[i].id < q[k].id
          /\ i < j /\ j < k => i < k
      BY <2>1
    <2>3. Before(q, i, j) /\ Before(q, j, k) => Before(q, i, k)
      BY <2>2 DEF Before
    <2> QED BY <2>2, <2>3 DEF Before
  <1> HIDE DEF size
  <1>5. ASSUME NEW i \in 1..size
        PROVE  /\ IsFiniteSet(Earlier(i)) /\ Cardinality(Earlier(i)) \in Nat
               /\ Cardinality(Earlier(i)) < size
    <2>1. Earlier(i) \subseteq (1..size) \ {i}
      BY <1>4
    <2>2. IsFiniteSet((1..size) \ {i}) /\ Cardinality((1..size) \ {i}) = size - 1
      BY <1>2, FS_RemoveElement
    <2>3. IsFiniteSet(Earlier(i)) /\ Cardinality(Earlier(i)) <= size - 1
      BY <2>1, <2>2, FS_Subset
    <2>4. Cardinality(Earlier(i)) \in Nat
      BY <2>3, FS_CardinalityType
    <2> QED BY <1>1, <2>3, <2>4
  <1>6. ASSUME NEW i \in 1..size, NEW j \in 1..size, Before(q, i, j)
        PROVE  Cardinality(Earlier(i)) # Cardinality(Earlier(j))
    <2>1. Earlier(i) \subseteq Earlier(j)
      BY <1>4, <1>6
    <2>2. i \in Earlier(j) /\ i \notin Earlier(i)
      BY <1>4, <1>6
    <2> HIDE DEF Earlier
    <2>3. Earlier(i) # Earlier(j)
      BY <2>2
    <2> QED BY <1>5, <2>1, <2>3, FS_Subset
  <1>7. \A i, j \in 1..size : i # j => place[i] # place[j]
    <2>1. ASSUME NEW i \in 1..size, NEW j \in 1..size, i # j PROVE place[i] # place[j]
      <3>1. Cardinality(Earlier(i)) # Cardinality(Earlier(j))
        BY <1>4, <1>6, <2>1
      <3> HIDE DEF Earlier
      <3> QED BY <1>5, <3>1
    <2> QED BY <2>1
  <1>8. \A i \in 1..size : place[i] \in 1..size
    <2> SUFFICES ASSUME NEW i \in 1..size PROVE place[i] \in 1..size
      OBVIOUS
    <2> HIDE DEF Earlier
    <2> QED BY <1>1, <1>5
  <1>9. place = [i \in 1..size |-> place[i]]
    OBVIOUS
  <1> HIDE DEF place
  <1>10. ASSUME \A i \in 1..size : place[i] # n PROVE FALSE
    <2>1. n \in 1..size
      BY <1>1
    <2>2. IsFiniteSet((1..size) \ {n}) /\ Cardinality((1..size) \ {n}) = size - 1
      BY <1>2, <2>1, FS_RemoveElement
    <2>3. place \in [1..size -> (1..size) \ {n}]
      BY <1>8, <1>9, <1>10
    <2>4. \E i, j \in 1..size : i # j /\ place[i] = place[j]
      <3> DEFINE A == 1..size
                 B == A \ {n}
      <3>1. /\ IsFiniteSet(A) /\ IsFiniteSet(B) /\ place \in [A -> B]
            /\ Cardinality(B) < Cardinality(A)
        BY <1>1, <1>2, <2>2, <2>3
      <3> HIDE DEF A, B
      <3>2. \E i, j \in A : i # j /\ place[i] = place[j]
        BY <3>1, FS_PigeonHole
      <3> QED BY <3>2 DEF A
    <2> QED BY <1>7, <2>4
  <1> QED BY <1>1, <1>3, <1>10

\* Sorting moves pieces, and none of those that are in their order.
LEMMA ConstructedFacts ==
  ASSUME NEW S, NEW q \in Seq(S), \A i \in DOMAIN q : q[i].id \in Nat
  PROVE  /\ Constructed(q) \in Seq(S)
         /\ (\A i, j \in DOMAIN q : i < j => q[i].id < q[j].id) => Constructed(q) = q
  <1> DEFINE At(n) == CHOOSE i \in DOMAIN q : Place(q, i) = n
  <1>1. Len(q) \in Nat /\ DOMAIN q = 1..Len(q) /\ \A i \in DOMAIN q : q[i] \in S
    BY LenProperties, ElementOfSeq
  <1>2. ASSUME NEW n \in DOMAIN q PROVE At(n) \in DOMAIN q /\ Place(q, At(n)) = n
    <2>1. \E i \in DOMAIN q : Place(q, i) = n
      BY EveryPlaceIsTaken
    <2> QED BY <2>1
  <1>3. Constructed(q) = [n \in 1..Len(q) |-> q[At(n)]]
    BY <1>1 DEF Constructed
  <1> HIDE DEF At
  <1>4. Constructed(q) \in Seq(S)
    <2>1. Constructed(q) \in [1..Len(q) -> S]
      BY <1>1, <1>2, <1>3
    <2> QED BY <1>1, <2>1
  <1>5. ASSUME \A i, j \in DOMAIN q : i < j => q[i].id < q[j].id
        PROVE  Constructed(q) = q
    <2>1. ASSUME NEW i \in DOMAIN q PROVE Place(q, i) = i
      <3>1. \A j \in DOMAIN q : Before(q, j, i) <=> j < i
        <4> SUFFICES ASSUME NEW j \in DOMAIN q PROVE Before(q, j, i) <=> j < i
          OBVIOUS
        <4>1. i \in Nat /\ j \in Nat /\ q[i].id \in Nat /\ q[j].id \in Nat
          BY <1>1
        <4> QED BY <1>5, <4>1 DEF Before
      <3>2. {j \in DOMAIN q : Before(q, j, i)} = 1..(i - 1)
        BY <1>1, <3>1
      <3>3. Cardinality(1..(i - 1)) = i - 1
        <4>1. i \in Nat /\ i >= 1 /\ i - 1 \in Int
          BY <1>1
        <4> DEFINE upTo == i - 1
        <4> HIDE DEF upTo
        <4>2. Cardinality(1..upTo) = IF 1 > upTo THEN 0 ELSE upTo - 1 + 1
          <5>1. upTo \in Int
            BY <4>1 DEF upTo
          <5> QED BY <5>1, FS_Interval
        <4> QED BY <4>1, <4>2 DEF upTo
      <3>4. Place(q, i) = (i - 1) + 1
        BY <3>2, <3>3 DEF Place
      <3> QED BY <1>1, <3>4
    <2>2. \A n \in DOMAIN q : At(n) = n
      BY <1>2, <2>1
    <2>3. Constructed(q) = [n \in 1..Len(q) |-> q[n]]
      BY <1>1, <1>3, <2>2
    <2> QED BY <1>1, <2>3
  <1> QED BY <1>4, <1>5

--------------------------------------------------------------------------------
(* Texts: the inductive invariant. *)

\* What is sent is pieces of texts, and what asks for something carries none.
AnyPacket ==
    {m \in [kind : {"copy", "paste", "data"}, piece : AnyPiece] :
        m.kind = "data" \/ (m.kind = "paste" /\ m.piece # NoPacket) => m.piece \in RealPiece}

ClipboardTypes ==
    /\ texts \in 0..MaxTexts
    /\ clipboard \in [Sides -> Seq(RealPiece)] /\ payload \in [Sides -> Seq(RealPiece)]
    /\ arriving \in [Sides -> Seq(AnyPacket)] /\ last \in [Sides -> AnyPiece]
    /\ torn \in [Sides -> BOOLEAN] /\ misfit \in [Sides -> BOOLEAN]

\* As long as pieces come in turn the payload is the beginning of the text whose piece came
\* last, and not all of it; an empty one has nothing to wait for.
Begun(s) ==
    ~misfit[s] =>
        IF payload[s] = <<>> THEN IsLast(last[s])
        ELSE LET size == Len(payload[s]) IN
             /\ size < last[s].total /\ last[s].id = size - 1
             /\ payload[s] = [i \in 1..size |-> Piece(last[s].text, i - 1, last[s].total)]

ClipboardInv ==
    /\ ClipboardTypes
    /\ \A s \in Sides : Begun(s) /\ (torn[s] \/ IsWhole(clipboard[s]))

LEMMA ClipboardInitInv == ClipboardInit => ClipboardInv
  <1> SUFFICES ASSUME ClipboardInit PROVE ClipboardInv
    OBVIOUS
  <1>1. NoPacket \in AnyPiece /\ IsLast(NoPacket)
    BY DEF NoPacket, Piece, AnyPiece, IsLast
  <1>2. /\ clipboard \in [Sides -> Seq(RealPiece)] /\ payload \in [Sides -> Seq(RealPiece)]
        /\ arriving \in [Sides -> Seq(AnyPacket)]
    BY DEF ClipboardInit
  <1>3. 0 \in 0..MaxTexts
    BY ClipboardAssumption
  <1>4. ClipboardTypes
    BY <1>1, <1>2, <1>3 DEF ClipboardInit, ClipboardTypes
  <1>5. \A s \in Sides : Begun(s) /\ IsWhole(clipboard[s])
    BY <1>1 DEF ClipboardInit, Begun, IsWhole
  <1> QED BY <1>4, <1>5 DEF ClipboardInv

LEMMA ClipboardInvIsWhole == ClipboardInv => ClipboardIsWhole
  <1> SUFFICES ASSUME ClipboardInv, NEW s \in Sides, ~misfit[s], IsLast(last[s])
               PROVE  payload[s] = <<>>
    BY DEF ClipboardInv, ClipboardIsWhole
  <1>1. /\ Begun(s) /\ last[s].id \in Nat /\ last[s].total \in Nat /\ Len(payload[s]) \in Nat
    <2>1. last[s] \in AnyPiece /\ payload[s] \in Seq(RealPiece)
      BY DEF ClipboardInv, ClipboardTypes
    <2> QED BY <2>1, LenProperties DEF ClipboardInv, AnyPiece
  <1> QED BY <1>1 DEF Begun, IsLast

--------------------------------------------------------------------------------
(* Texts: what is copied, sent and put together. *)

LEMMA PiecesFacts ==
  ASSUME NEW text \in 1..MaxTexts, NEW total \in Nat
  PROVE  /\ Pieces(text, total) \in Seq(RealPiece) /\ Len(Pieces(text, total)) = total
         /\ IsWhole(Pieces(text, total))
  <1>1. \A i \in 1..total : Piece(text, i - 1, total) \in RealPiece
    <2> SUFFICES ASSUME NEW i \in 1..total PROVE Piece(text, i - 1, total) \in RealPiece
      OBVIOUS
    <2>1. text \in Nat /\ i - 1 \in Nat /\ i - 1 < total
      BY ClipboardAssumption
    <2> QED BY <2>1 DEF Piece, RealPiece, AnyPiece
  <1>2. Pieces(text, total) \in [1..total -> RealPiece]
    BY <1>1 DEF Pieces
  <1>3. Pieces(text, total) \in Seq(RealPiece) /\ Len(Pieces(text, total)) = total
    BY <1>2
  <1> QED BY <1>3 DEF IsWhole

LEMMA PacketsFacts ==
  ASSUME NEW kind \in {"paste", "data"}, NEW q \in Seq(RealPiece)
  PROVE  Packets(kind, q) \in Seq(AnyPacket)
  <1>1. Len(q) \in Nat /\ DOMAIN q = 1..Len(q) /\ \A i \in 1..Len(q) : q[i] \in RealPiece
    BY LenProperties, ElementOfSeq
  <1>2. ASSUME NEW i \in 1..Len(q)
        PROVE  Packet(kind, [q[i] EXCEPT !.id = i - 1, !.total = Len(q)]) \in AnyPacket
    <2> DEFINE piece == [q[i] EXCEPT !.id = i - 1, !.total = Len(q)]
    <2>1. q[i] \in RealPiece /\ i - 1 \in Nat /\ i - 1 < Len(q)
      BY <1>1
    <2>2. piece \in RealPiece
      BY <1>1, <2>1 DEF RealPiece, AnyPiece
    <2> HIDE DEF piece
    <2>3. piece \in AnyPiece
      BY <2>2 DEF RealPiece
    <2>4. Packet(kind, piece) \in AnyPacket
      BY <2>2, <2>3 DEF AnyPacket, Packet
    <2> QED BY <2>4 DEF piece
  <1>3. Packets(kind, q) \in [1..Len(q) -> AnyPacket]
    BY <1>1, <1>2 DEF Packets
  <1> QED BY <1>1, <1>3

LEMMA RequestFacts ==
  ASSUME NEW kind \in {"copy", "paste"}
  PROVE  <<Packet(kind, NoPacket)>> \in Seq(AnyPacket)
  <1>1. NoPacket \in AnyPiece
    BY DEF NoPacket, Piece, AnyPiece
  <1>2. Packet(kind, NoPacket) \in AnyPacket
    BY <1>1 DEF Packet, AnyPacket
  <1> QED BY <1>2

\* Packets are added to what arrives at somebody, or at nobody.
LEMMA SentFacts ==
  ASSUME NEW f \in [Sides -> Seq(AnyPacket)], NEW t, NEW packets \in Seq(AnyPacket)
  PROVE  [f EXCEPT ![t] = @ \o packets] \in [Sides -> Seq(AnyPacket)]
  <1>1. CASE t \in Sides
    <2>1. f[t] \o packets \in Seq(AnyPacket)
      BY <1>1, ConcatProperties
    <2> QED BY <2>1
  <1>2. CASE t \notin Sides
    BY <1>2
  <1> QED BY <1>1, <1>2

LEMMA TakenFacts ==
  ASSUME ClipboardInv, NEW s \in Sides, arriving[s] # <<>>
  PROVE  Taken(s) \in [Sides -> Seq(AnyPacket)] /\ Head(arriving[s]) \in AnyPacket
  <1>1. arriving \in [Sides -> Seq(AnyPacket)]
    BY DEF ClipboardInv, ClipboardTypes
  <1>2. Head(arriving[s]) \in AnyPacket /\ Tail(arriving[s]) \in Seq(AnyPacket)
    BY <1>1, HeadTailProperties
  <1> QED BY <1>1, <1>2 DEF Taken

\* A clipboard gets a whole text, nothing, or stays; no text is being put together.
LEMMA TextIsCopied ==
  ASSUME ClipboardInv, NEW s \in Sides, arriving' \in [Sides -> Seq(AnyPacket)],
         UNCHANGED <<payload, last, misfit>>, texts' \in 0..MaxTexts,
         \/ UNCHANGED <<clipboard, torn>>
         \/ \E pieces \in Seq(RealPiece) :
              /\ IsWhole(pieces) /\ clipboard' = [clipboard EXCEPT ![s] = pieces]
              /\ torn' = [torn EXCEPT ![s] = FALSE]
  PROVE  ClipboardInv'
  <1>1. ClipboardTypes /\ \A t \in Sides : Begun(t) /\ (torn[t] \/ IsWhole(clipboard[t]))
    BY DEF ClipboardInv
  <1>2. \A t \in Sides : Begun(t)'
    BY <1>1 DEF Begun, IsLast
  <1>3. /\ clipboard' \in [Sides -> Seq(RealPiece)] /\ torn' \in [Sides -> BOOLEAN]
        /\ \A t \in Sides : torn'[t] \/ IsWhole(clipboard'[t])
    <2>1. CASE UNCHANGED <<clipboard, torn>>
      BY <1>1, <2>1 DEF ClipboardTypes
    <2>2. CASE ~UNCHANGED <<clipboard, torn>>
      <3>1. PICK pieces \in Seq(RealPiece) :
              /\ IsWhole(pieces) /\ clipboard' = [clipboard EXCEPT ![s] = pieces]
              /\ torn' = [torn EXCEPT ![s] = FALSE]
        BY <2>2
      <3>2. /\ clipboard \in [Sides -> Seq(RealPiece)] /\ torn \in [Sides -> BOOLEAN]
        BY <1>1 DEF ClipboardTypes
      <3>3. clipboard' \in [Sides -> Seq(RealPiece)] /\ torn' \in [Sides -> BOOLEAN]
        BY <3>1, <3>2
      <3>4. ASSUME NEW t \in Sides PROVE torn'[t] \/ IsWhole(clipboard'[t])
        <4>1. CASE t = s
          <5>1. clipboard'[t] = pieces
            BY <3>1, <3>2, <4>1
          <5> QED BY <3>1, <5>1
        <4>2. CASE t # s
          <5>1. clipboard'[t] = clipboard[t] /\ torn'[t] = torn[t]
            BY <3>1, <3>2, <4>2
          <5> QED BY <1>1, <5>1
        <4> QED BY <4>1, <4>2
      <3> QED BY <3>3, <3>4
    <2> QED BY <2>1, <2>2
  <1>4. ClipboardTypes'
    BY <1>1, <1>3 DEF ClipboardTypes
  <1> QED BY <1>2, <1>3, <1>4 DEF ClipboardInv, IsWhole, Pieces, Piece

LEMMA CollectKeeps ==
  ASSUME ClipboardInv, NEW s \in Sides, NEW piece \in RealPiece, Collect(s, piece),
         arriving' \in [Sides -> Seq(AnyPacket)], UNCHANGED texts
  PROVE  ClipboardInv'
  <1> DEFINE held == payload[s]
             grown == Append(held, piece)
             k == Len(held)
             out == OutOfTurn(s, piece)
  <1>1. /\ ClipboardTypes /\ held \in Seq(RealPiece) /\ last[s] \in AnyPiece
        /\ misfit[s] \in BOOLEAN
    BY DEF ClipboardInv, ClipboardTypes
  <1>2. /\ k \in Nat /\ DOMAIN held = 1..k /\ grown \in Seq(RealPiece) /\ Len(grown) = k + 1
        /\ DOMAIN grown = 1..(k + 1) /\ \A i \in 1..k : grown[i] = held[i]
        /\ grown[k + 1] = piece /\ (held = <<>> <=> k = 0) /\ grown # <<>>
    <2>1. held \in Seq(RealPiece)
      BY <1>1
    <2> HIDE DEF held
    <2>2. k \in Nat /\ DOMAIN held = 1..k /\ (held = <<>> <=> k = 0)
      BY <2>1, LenProperties, EmptySeq
    <2>3. /\ grown \in Seq(RealPiece) /\ Len(grown) = k + 1 /\ grown[k + 1] = piece
          /\ \A i \in 1..k : grown[i] = held[i]
      BY <2>1, AppendProperties
    <2> HIDE DEF grown
    <2>4. DOMAIN grown = 1..Len(grown)
      BY <2>3, LenProperties
    <2>5. grown # <<>>
      BY <2>2, <2>3, EmptySeq
    <2> QED BY <2>2, <2>3, <2>4, <2>5
  <1>3. /\ piece.text \in 1..MaxTexts /\ piece.id \in Nat /\ piece.total \in Nat
        /\ piece.id < piece.total /\ piece \in AnyPiece
        /\ last[s].id \in Nat /\ last[s].total \in Nat
    BY <1>1 DEF RealPiece, AnyPiece
  <1>4. out \in BOOLEAN
    BY <1>1 DEF OutOfTurn, InTurn, IsLast
  <1>5. /\ payload' = [payload EXCEPT ![s] = IF k + 1 = piece.total THEN <<>> ELSE grown]
        /\ last' = [last EXCEPT ![s] = piece] /\ misfit' = [misfit EXCEPT ![s] = out]
        /\ IF k + 1 = piece.total
           THEN /\ clipboard' = [clipboard EXCEPT ![s] = Constructed(grown)]
                /\ torn' = [torn EXCEPT ![s] = out]
           ELSE UNCHANGED <<clipboard, torn>>
    BY DEF Collect, Collected, Completes
  <1>6. held = payload[s]
    OBVIOUS
  \* A piece in turn is the next one of its text.
  <1>7. ASSUME ~out
        PROVE  /\ piece.id = k
               /\ \A i \in 1..(k + 1) : grown[i] = Piece(piece.text, i - 1, piece.total)
    <2>1. CASE piece.id = 0 /\ held = <<>>
      <3>1. piece = Piece(piece.text, 0, piece.total)
        BY <1>3, <2>1 DEF AnyPiece, Piece
      <3>2. \A i \in 1..(k + 1) : i = k + 1 /\ i - 1 = 0
        BY <1>2, <2>1
      <3> QED BY <1>2, <2>1, <3>1, <3>2
    <2>2. CASE ~(piece.id = 0 /\ held = <<>>)
      <3>1. ~misfit[s] /\ InTurn(s, piece) /\ Begun(s)
        BY <1>7, <2>2 DEF OutOfTurn, ClipboardInv
      <3>2. CASE held = <<>>
        <4>1. IsLast(last[s]) /\ piece.id # 0
          BY <2>2, <3>1, <3>2 DEF Begun
        <4>2. last[s] = [piece EXCEPT !.id = @ - 1]
          BY <3>1, <4>1 DEF InTurn
        <4>3. last[s].id = piece.id - 1 /\ last[s].total = piece.total
          BY <1>3, <4>2 DEF AnyPiece
        <4> QED BY <1>3, <4>1, <4>3 DEF IsLast
      <3>3. CASE held # <<>>
        <4>1. /\ k < last[s].total /\ last[s].id = k - 1
              /\ held = [i \in 1..k |-> Piece(last[s].text, i - 1, last[s].total)]
          BY <3>1, <3>3 DEF Begun
        <4>2. piece.id # 0
          BY <1>2, <1>3, <3>1, <4>1 DEF InTurn, IsLast
        <4>3. last[s] = [piece EXCEPT !.id = @ - 1]
          BY <3>1, <4>2 DEF InTurn
        <4>4. /\ last[s].id = piece.id - 1 /\ last[s].total = piece.total
              /\ last[s].text = piece.text
          BY <1>3, <4>3 DEF AnyPiece
        <4>5. piece.id = k
          BY <1>2, <1>3, <4>1, <4>4
        <4>6. piece = Piece(piece.text, k, piece.total)
          BY <1>3, <4>5 DEF AnyPiece, Piece
        <4>7. ASSUME NEW i \in 1..(k + 1) PROVE grown[i] = Piece(piece.text, i - 1, piece.total)
          <5>1. CASE i \in 1..k
            BY <1>2, <4>1, <4>4, <5>1
          <5>2. CASE i = k + 1
            <6>1. i - 1 = k
              BY <1>2, <5>2
            <6>2. grown[i] = piece
              BY <1>2, <5>2
            <6> QED BY <4>6, <6>1, <6>2
          <5>3. i \in 1..k \/ i = k + 1
            BY <1>2
          <5> QED BY <5>1, <5>2, <5>3
        <4> QED BY <4>5, <4>7
      <3> QED BY <3>2, <3>3
    <2> QED BY <2>1, <2>2
  <1> HIDE DEF held, grown, k, out
  <1>8. ASSUME ~out PROVE grown = [i \in 1..(k + 1) |-> Piece(piece.text, i - 1, piece.total)]
    BY <1>2, <1>7, <1>8
  <1>9. Constructed(grown) \in Seq(RealPiece) /\ (~out => Constructed(grown) = grown)
    <2>1. \A i \in DOMAIN grown : grown[i].id \in Nat
      <3>1. \A i \in DOMAIN grown : grown[i] \in RealPiece
        BY <1>2, ElementOfSeq
      <3> QED BY <3>1 DEF RealPiece, AnyPiece
    <2>2. ~out => \A i, j \in DOMAIN grown : i < j => grown[i].id < grown[j].id
      <3> SUFFICES ASSUME ~out, NEW i \in DOMAIN grown, NEW j \in DOMAIN grown, i < j
                   PROVE  grown[i].id < grown[j].id
        OBVIOUS
      <3>1. grown[i].id = i - 1 /\ grown[j].id = j - 1
        BY <1>2, <1>7 DEF Piece
      <3> QED BY <1>2, <3>1
    <2> QED BY <1>2, <2>1, <2>2, ConstructedFacts
  <1>10. ClipboardTypes'
    <2>1. payload' \in [Sides -> Seq(RealPiece)]
      <3>1. <<>> \in Seq(RealPiece) /\ payload \in [Sides -> Seq(RealPiece)]
        BY <1>1 DEF ClipboardTypes
      <3> QED BY <1>2, <1>5, <3>1
    <2>2. last' \in [Sides -> AnyPiece] /\ misfit' \in [Sides -> BOOLEAN]
      BY <1>1, <1>3, <1>4, <1>5 DEF ClipboardTypes
    <2>3. clipboard' \in [Sides -> Seq(RealPiece)] /\ torn' \in [Sides -> BOOLEAN]
      BY <1>1, <1>4, <1>5, <1>9 DEF ClipboardTypes
    <2> QED BY <1>1, <2>1, <2>2, <2>3 DEF ClipboardTypes
  <1>11. ASSUME NEW t \in Sides PROVE Begun(t)'
    <2>1. CASE t # s
      <3>1. payload'[t] = payload[t] /\ last'[t] = last[t] /\ misfit'[t] = misfit[t]
        BY <1>1, <1>5, <2>1 DEF ClipboardTypes
      <3> QED BY <3>1 DEF ClipboardInv, Begun, IsLast
    <2>2. CASE t = s
      <3>1. /\ payload'[s] = IF k + 1 = piece.total THEN <<>> ELSE grown
            /\ last'[s] = piece /\ misfit'[s] = out
        BY <1>1, <1>5 DEF ClipboardTypes
      <3> SUFFICES ASSUME ~out PROVE Begun(s)'
        BY <2>2, <3>1 DEF Begun
      <3>2. CASE k + 1 = piece.total
        <4>1. payload'[s] = <<>> /\ last'[s].id + 1 >= last'[s].total
          BY <1>2, <1>3, <1>7, <3>1, <3>2
        <4> QED BY <4>1 DEF Begun, IsLast
      <3>3. CASE k + 1 # piece.total
        <4>1. payload'[s] = grown /\ k + 1 < piece.total /\ piece.id = (k + 1) - 1
          BY <1>2, <1>3, <1>7, <3>1, <3>3
        <4> QED BY <1>2, <1>8, <3>1, <4>1 DEF Begun
      <3> QED BY <3>2, <3>3
    <2> QED BY <2>1, <2>2
  <1>12. ASSUME NEW t \in Sides PROVE torn'[t] \/ IsWhole(clipboard'[t])
    <2>1. torn[t] \/ IsWhole(clipboard[t])
      BY DEF ClipboardInv
    <2>2. CASE t # s \/ k + 1 # piece.total
      <3>1. torn'[t] = torn[t] /\ clipboard'[t] = clipboard[t]
        BY <1>1, <1>5, <2>2 DEF ClipboardTypes
      <3> QED BY <2>1, <3>1
    <2>3. CASE t = s /\ k + 1 = piece.total
      <3>1. torn'[t] = out /\ clipboard'[t] = Constructed(grown)
        BY <1>1, <1>5, <2>3 DEF ClipboardTypes
      <3>2. ~out => grown = Pieces(piece.text, Len(grown))
        BY <1>2, <1>8, <2>3 DEF Pieces
      <3> QED BY <1>3, <1>9, <3>1, <3>2 DEF IsWhole
    <2> QED BY <2>2, <2>3
  <1> QED BY <1>10, <1>11, <1>12 DEF ClipboardInv, IsWhole, Pieces, Piece

--------------------------------------------------------------------------------
(* Texts: one step. *)

LEMMA AddToClipboardKeeps ==
  ASSUME ClipboardInv, NEW s \in Sides, NEW selected \in 0..MaxPackets, AddToClipboard(s, selected)
  PROVE  ClipboardInv'
  <1>1. /\ ClipboardTypes /\ arriving[s] # <<>> /\ UNCHANGED <<payload, last, misfit>>
        /\ MaxTexts \in Nat /\ MaxPackets \in Nat
    BY ClipboardAssumption DEF ClipboardInv, AddToClipboard, Receives
  <1>2. /\ texts' \in 0..MaxTexts /\ clipboard'[s] \in Seq(RealPiece)
        /\ \/ UNCHANGED <<clipboard, torn>>
           \/ \E pieces \in Seq(RealPiece) :
                /\ IsWhole(pieces) /\ clipboard' = [clipboard EXCEPT ![s] = pieces]
                /\ torn' = [torn EXCEPT ![s] = FALSE]
    <2>1. clipboard \in [Sides -> Seq(RealPiece)] /\ texts \in 0..MaxTexts
      BY <1>1 DEF ClipboardTypes
    <2>2. CASE obeys /\ selected # 0 /\ texts < MaxTexts
      <3> DEFINE pieces == Pieces(texts + 1, selected)
      <3>1. texts + 1 \in 1..MaxTexts /\ selected \in Nat
        BY <1>1, <2>1, <2>2
      <3>2. pieces \in Seq(RealPiece) /\ IsWhole(pieces)
        BY <3>1, PiecesFacts
      <3>3. /\ clipboard' = [clipboard EXCEPT ![s] = pieces] /\ texts' = texts + 1
            /\ torn' = [torn EXCEPT ![s] = FALSE]
        BY <2>2 DEF AddToClipboard
      <3> HIDE DEF pieces
      <3>4. clipboard'[s] = pieces /\ texts' \in 0..MaxTexts
        BY <1>1, <2>1, <3>1, <3>3
      <3>5. \E p \in Seq(RealPiece) :
              /\ IsWhole(p) /\ clipboard' = [clipboard EXCEPT ![s] = p]
              /\ torn' = [torn EXCEPT ![s] = FALSE]
        BY <3>2, <3>3
      <3> QED BY <3>2, <3>4, <3>5
    <2>3. CASE ~(obeys /\ selected # 0 /\ texts < MaxTexts)
      <3>1. UNCHANGED <<texts, clipboard, torn>>
        BY <2>3 DEF AddToClipboard
      <3> QED BY <2>1, <3>1
    <2> QED BY <2>2, <2>3
  <1>3. arriving' \in [Sides -> Seq(AnyPacket)]
    <2>1. Packets("data", clipboard'[s]) \in Seq(AnyPacket)
      BY <1>2, PacketsFacts
    <2>2. Taken(s) \in [Sides -> Seq(AnyPacket)]
      BY <1>1, TakenFacts
    <2>3. arriving' = [Taken(s) EXCEPT ![Other(s)] = @ \o Packets("data", clipboard'[s])]
      BY DEF AddToClipboard
    <2> QED BY <2>1, <2>2, <2>3, SentFacts
  <1> QED BY <1>1, <1>2, <1>3, TextIsCopied

LEMMA AskKeeps ==
  ASSUME ClipboardInv, NEW s \in Sides, AskForCopy(s) \/ AskForPaste(s)
  PROVE  ClipboardInv'
  <1>1. /\ ClipboardTypes /\ UNCHANGED <<payload, last, misfit, texts>>
        /\ arriving \in [Sides -> Seq(AnyPacket)] /\ clipboard[s] \in Seq(RealPiece)
        /\ texts' \in 0..MaxTexts
    BY DEF ClipboardInv, ClipboardTypes, AskForCopy, AskForPaste, Asks
  <1>2. CASE AskForCopy(s)
    <2>1. <<Packet("copy", NoPacket)>> \in Seq(AnyPacket)
      BY RequestFacts
    <2>2. /\ arriving' = [arriving EXCEPT ![host] = @ \o <<Packet("copy", NoPacket)>>]
          /\ UNCHANGED <<clipboard, torn>>
      BY <1>2 DEF AskForCopy, Send
    <2>3. arriving' \in [Sides -> Seq(AnyPacket)]
      BY <1>1, <2>1, <2>2, SentFacts
    <2> QED BY <1>1, <2>2, <2>3, TextIsCopied
  <1>3. CASE AskForPaste(s)
    <2> DEFINE packets == IF clipboard[s] = <<>> THEN <<Packet("paste", NoPacket)>>
                          ELSE Packets("paste", clipboard[s])
    <2>1. packets \in Seq(AnyPacket)
      <3>1. <<Packet("paste", NoPacket)>> \in Seq(AnyPacket)
        BY RequestFacts
      <3>2. Packets("paste", clipboard[s]) \in Seq(AnyPacket)
        BY <1>1, PacketsFacts
      <3> QED BY <3>1, <3>2
    <2>2. /\ arriving' = [arriving EXCEPT ![host] = @ \o packets]
          /\ clipboard' = [clipboard EXCEPT ![s] = <<>>] /\ torn' = [torn EXCEPT ![s] = FALSE]
      BY <1>3 DEF AskForPaste, Send
    <2> HIDE DEF packets
    <2>3. arriving' \in [Sides -> Seq(AnyPacket)]
      BY <1>1, <2>1, <2>2, SentFacts
    <2>4. <<>> \in Seq(RealPiece) /\ IsWhole(<<>>)
      BY DEF IsWhole
    <2> QED BY <1>1, <2>2, <2>3, <2>4, TextIsCopied
  <1> QED BY <1>2, <1>3

LEMMA PacketKeeps ==
  ASSUME ClipboardInv, NEW s \in Sides,
         PasteFromClipboard(s) \/ NoRemoteControlToAsk(s) \/ SetClipboard(s)
  PROVE  ClipboardInv'
  <1> DEFINE m == Head(arriving[s])
  <1>1. ClipboardTypes /\ arriving[s] # <<>> /\ arriving' = Taken(s) /\ UNCHANGED texts
    BY DEF ClipboardInv, PasteFromClipboard, NoRemoteControlToAsk, SetClipboard, Receives
  <1>2. arriving' \in [Sides -> Seq(AnyPacket)] /\ m \in AnyPacket /\ texts' \in 0..MaxTexts
    BY <1>1, TakenFacts DEF ClipboardTypes
  <1>3. CASE UNCHANGED <<payload, last, misfit, clipboard, torn>>
    BY <1>2, <1>3, TextIsCopied
  <1>4. CASE Collect(s, m.piece) /\ (m.kind = "data" \/ (m.kind = "paste" /\ m.piece # NoPacket))
    <2>1. m.piece \in RealPiece
      BY <1>2, <1>4 DEF AnyPacket
    <2> QED BY <1>1, <1>2, <1>4, <2>1, CollectKeeps
  <1>5. \/ UNCHANGED <<payload, last, misfit, clipboard, torn>>
        \/ Collect(s, m.piece) /\ (m.kind = "data" \/ (m.kind = "paste" /\ m.piece # NoPacket))
    BY DEF PasteFromClipboard, NoRemoteControlToAsk, SetClipboard, Receives
  <1> QED BY <1>3, <1>4, <1>5

LEMMA ClipboardNextInv == ClipboardInv /\ [ClipboardNext]_clipboardVars => ClipboardInv'
  <1> SUFFICES ASSUME ClipboardInv, [ClipboardNext]_clipboardVars
               PROVE  ClipboardInv'
    OBVIOUS
  <1>1. /\ ClipboardTypes /\ arriving \in [Sides -> Seq(AnyPacket)] /\ texts \in 0..MaxTexts
        /\ MaxTexts \in Nat /\ MaxPackets \in Nat
    BY ClipboardAssumption DEF ClipboardInv, ClipboardTypes
  <1>2. ASSUME NEW s \in Sides, NEW total \in 1..MaxPackets, CopyHere(s, total)
        PROVE  ClipboardInv'
    <2> DEFINE pieces == Pieces(texts + 1, total)
    <2>1. texts + 1 \in 1..MaxTexts /\ total \in Nat /\ texts' = texts + 1
      BY <1>1, <1>2 DEF CopyHere
    <2>2. pieces \in Seq(RealPiece) /\ IsWhole(pieces)
      BY <2>1, PiecesFacts
    <2>3. /\ clipboard' = [clipboard EXCEPT ![s] = pieces] /\ torn' = [torn EXCEPT ![s] = FALSE]
          /\ UNCHANGED <<payload, last, misfit, arriving>>
      BY <1>2 DEF CopyHere
    <2> HIDE DEF pieces
    <2>4. \E p \in Seq(RealPiece) :
            /\ IsWhole(p) /\ clipboard' = [clipboard EXCEPT ![s] = p]
            /\ torn' = [torn EXCEPT ![s] = FALSE]
      BY <2>2, <2>3
    <2>5. arriving' \in [Sides -> Seq(AnyPacket)] /\ texts' \in 0..MaxTexts
      BY <1>1, <2>1, <2>3
    <2> QED BY <2>3, <2>4, <2>5, TextIsCopied
  <1>3. CASE UNCHANGED <<clipboard, payload, arriving, torn, last, misfit, texts>>
    BY <1>3 DEF ClipboardInv, ClipboardTypes, Begun, IsLast, IsWhole, Pieces, Piece
  <1>4. ASSUME ObeysChanges \/ (\E s \in Sides \cup {NoSide} : TurnChanges(s)) \/ UNCHANGED clipboardVars
        PROVE  UNCHANGED <<clipboard, payload, arriving, torn, last, misfit, texts>>
    BY <1>4 DEF ObeysChanges, TurnChanges, clipboardVars, counts
  <1> QED BY <1>2, <1>3, <1>4, AddToClipboardKeeps, AskKeeps, PacketKeeps DEF ClipboardNext

\* What is on a clipboard is nothing or one whole text, and nothing of a text that has come
\* to its end stays in the payload, unless pieces have come out of turn (AddToClipboard,
\* PasteFromClipboard and set_clipboard of clipboard.rs).
THEOREM TextsAreWhole == ClipboardSpec => []ClipboardIsWhole
  <1> QED BY ClipboardInvIsWhole, ClipboardInitInv, ClipboardNextInv, PTL DEF ClipboardSpec

--------------------------------------------------------------------------------
(* Queues and their types. *)

LEMMA OneMore ==
  ASSUME NEW M, NEW q \in Seq(M), NEW m \in M
  PROVE  Append(q, m) \in Seq(M) /\ Len(Append(q, m)) = Len(q) + 1 /\ Len(q) \in Nat
  BY AppendProperties, LenProperties

LEMMA OneLess ==
  ASSUME NEW M, NEW q \in Seq(M), q # <<>>
  PROVE  /\ Head(q) \in M /\ Tail(q) \in Seq(M)
         /\ Len(Tail(q)) = Len(q) - 1 /\ Len(q) \in Nat \ {0}
  BY HeadTailProperties, LenProperties, EmptySeq

LEMMA Joined ==
  ASSUME NEW M, NEW q \in Seq(M), NEW r \in Seq(M)
  PROVE  q \o r \in Seq(M) /\ Len(q \o r) = Len(q) + Len(r) /\ Len(q) \in Nat /\ Len(r) \in Nat
  BY ConcatProperties, LenProperties

--------------------------------------------------------------------------------
(* Types: keys and buttons. *)

AnyNotices == {"allowed", "forbidden", "begun", "ended"}

\* No more presses wait than there were.
InputTypes ==
    /\ InputTypeOK
    /\ line \in Seq(AnyMessage) /\ notices \in Seq(AnyNotices) /\ queued <= presses

\* What happens in the watcher's window.
LEMMA WatcherTypes ==
  ASSUME InputTypes, Acts,
         hands' \in SUBSET Inputs, unheard' \in SUBSET Inputs,
         over' \in BOOLEAN, onControl' \in BOOLEAN, queued' \in {0, queued, queued + 1},
         line' = line \/ \E messages \in Seq(AnyMessage) : Publish(messages)
  PROVE  InputTypes'
  <1>1. line' \in Seq(AnyMessage) /\ Len(line') <= MaxInFlight
    <2>1. line \in Seq(AnyMessage) /\ Len(line) <= MaxInFlight
      BY DEF InputTypes, InputTypeOK
    <2>2. ASSUME NEW messages \in Seq(AnyMessage), Publish(messages)
          PROVE  line' \in Seq(AnyMessage) /\ Len(line') <= MaxInFlight
      BY <2>1, <2>2, Joined DEF Publish
    <2> QED BY <2>1, <2>2
  <1>2. /\ presses' \in 0..MaxPresses /\ queued' \in 0..MaxPresses /\ queued' <= presses'
        /\ UNCHANGED <<modFirst, inView, allowed, notices, sharerVars>>
    BY RemoteInputAssumption DEF InputTypes, InputTypeOK, Acts
  <1>3. /\ \A i \in 1..Len(line') : line'[i].type \in {"key", "click", "chord", "mode"}
        /\ \A i \in 1..Len(notices') : notices'[i] \in AnyNotices
    <2>1. \A i \in 1..Len(line') : line'[i] \in AnyMessage
      BY <1>1, ElementOfSeq
    <2>2. \A i \in 1..Len(notices') : notices'[i] \in AnyNotices
      BY <1>2, ElementOfSeq DEF InputTypes
    <2> QED BY <2>1, <2>2 DEF AnyMessage
  <1> QED BY <1>1, <1>2, <1>3 DEF InputTypes, InputTypeOK, sharerVars, Inputs, AnyNotices

LEMMA EventsAreMessages ==
  \A type \in {"key", "click", "chord", "mode"}, k \in Inputs, d \in BOOLEAN :
    /\ Event(type, k, d) \in AnyMessage /\ <<Event(type, k, d)>> \in Seq(AnyMessage)
  BY DEF Event, AnyMessage

\* What the sharer hears and decides.
LEMMA SharerTypes ==
  ASSUME InputTypes, UNCHANGED <<modFirst, hands, unheard, presses>>,
         inView' \in BOOLEAN, over' \in BOOLEAN, onControl' \in BOOLEAN, allowed' \in BOOLEAN,
         queued' \in {0, queued},
         \/ line' = line
         \/ line # <<>> /\ line' = Tail(line)
         \/ \E messages \in Seq(AnyMessage) : Publish(messages),
         \/ notices' = notices
         \/ notices # <<>> /\ notices' = Tail(notices)
         \/ \E notice \in AnyNotices : notices' = Append(notices, notice),
         controlled' \in BOOLEAN, simulates' \in BOOLEAN, pointing' \in BOOLEAN,
         pressed' \in SUBSET Inputs, ignored' \in SUBSET Inputs, decisions' \in 0..MaxDecisions
  PROVE  InputTypes'
  <1>1. line' \in Seq(AnyMessage) /\ Len(line') <= MaxInFlight
    <2>1. line \in Seq(AnyMessage) /\ Len(line) <= MaxInFlight /\ MaxInFlight \in Nat
      BY RemoteInputAssumption DEF InputTypes, InputTypeOK
    <2>2. ASSUME NEW messages \in Seq(AnyMessage), Publish(messages)
          PROVE  line' \in Seq(AnyMessage) /\ Len(line') <= MaxInFlight
      BY <2>1, <2>2, Joined DEF Publish
    <2>3. CASE line # <<>> /\ line' = Tail(line)
      BY <2>1, <2>3, OneLess
    <2> QED BY <2>1, <2>2, <2>3
  <1>2. notices' \in Seq(AnyNotices)
    <2>1. notices \in Seq(AnyNotices)
      BY DEF InputTypes
    <2>2. CASE notices # <<>> /\ notices' = Tail(notices)
      BY <2>1, <2>2, OneLess
    <2>3. ASSUME NEW notice \in AnyNotices, notices' = Append(notices, notice)
          PROVE  notices' \in Seq(AnyNotices)
      BY <2>1, <2>3, OneMore
    <2> QED BY <2>1, <2>2, <2>3
  <1>3. /\ \A i \in 1..Len(line') : line'[i].type \in {"key", "click", "chord", "mode"}
        /\ \A i \in 1..Len(notices') : notices'[i] \in AnyNotices
    <2>1. \A i \in 1..Len(line') : line'[i] \in AnyMessage
      BY <1>1, ElementOfSeq
    <2>2. \A i \in 1..Len(notices') : notices'[i] \in AnyNotices
      BY <1>2, ElementOfSeq
    <2> QED BY <2>1, <2>2 DEF AnyMessage
  <1>4. queued' \in 0..MaxPresses /\ presses' \in 0..MaxPresses /\ queued' <= presses'
    BY RemoteInputAssumption DEF InputTypes, InputTypeOK
  <1> QED BY <1>1, <1>2, <1>3, <1>4 DEF InputTypes, InputTypeOK, Inputs, AnyNotices

LEMMA InputTypesStep == InputTypes /\ [InputNext]_inputVars => InputTypes'
  <1> SUFFICES ASSUME InputTypes, [InputNext]_inputVars PROVE InputTypes'
    OBVIOUS
  <1>0. /\ {modFirst, inView, over, onControl, allowed, controlled, simulates, pointing} \subseteq BOOLEAN
        /\ hands \in SUBSET Inputs /\ pressed \in SUBSET Inputs
        /\ unheard \in SUBSET Inputs /\ ignored \in SUBSET Inputs
        /\ queued \in Nat /\ line \in Seq(AnyMessage) /\ decisions \in 0..MaxDecisions
        /\ MaxDecisions \in Nat
    BY RemoteInputAssumption DEF InputTypes, InputTypeOK, Inputs
  <1>1. ASSUME NEW k \in Keys, NEW down \in BOOLEAN, KeyboardInput(k, down) PROVE InputTypes'
    <2>1. k \in Inputs /\ Mod \in Inputs
      BY DEF Inputs, Keys
    <2>2. /\ Acts /\ hands' \in SUBSET Inputs /\ unheard' \in SUBSET Inputs
          /\ UNCHANGED <<over, onControl>>
      BY <1>0, <1>1, <2>1 DEF KeyboardInput, Moved
    <2>3. Append(Drained, KeyInput(k, down)) \in Seq(AnyMessage)
      <3>1. KeyInput(k, down) \in AnyMessage /\ KeyInput(Mod, TRUE) \in AnyMessage
        BY <2>1, EventsAreMessages DEF KeyInput
      <3>2. Drained \in Seq(AnyMessage)
        <4>1. Drained \in [1..queued -> AnyMessage]
          BY <3>1 DEF Drained
        <4> QED BY <1>0, <4>1
      <3> QED BY <3>1, <3>2, OneMore
    <2>4. <<Event("chord", k, TRUE)>> \in Seq(AnyMessage)
      BY <2>1, EventsAreMessages
    <2>5. /\ queued' \in {0, queued, queued + 1}
          /\ line' = line \/ \E messages \in Seq(AnyMessage) : Publish(messages)
      BY <1>1, <2>3, <2>4 DEF KeyboardInput
    <2> QED BY <1>0, <2>2, <2>5, WatcherTypes
  <1>2. ASSUME NEW down \in BOOLEAN, MouseInput(down) PROVE InputTypes'
    <2>1. Button \in Inputs
      BY DEF Inputs
    <2>2. /\ Acts /\ hands' \in SUBSET Inputs /\ unheard' \in SUBSET Inputs
          /\ UNCHANGED <<over, onControl, queued>>
      BY <1>0, <1>2, <2>1 DEF MouseInput, Moved
    <2>3. Publish(<<Event("click", Button, down)>>) /\ <<Event("click", Button, down)>> \in Seq(AnyMessage)
      BY <1>2, <2>1, EventsAreMessages DEF MouseInput
    <2> QED BY <1>0, <2>2, <2>3, WatcherTypes
  <1>3. ASSUME NEW k \in Keys \cup {Button}, NotForTheSharer(k) PROVE InputTypes'
    <2>1. /\ Acts /\ hands' \in SUBSET Inputs /\ unheard' \in SUBSET Inputs
          /\ UNCHANGED <<over, onControl, queued, line>>
      BY <1>0, <1>3 DEF NotForTheSharer, Moved, Inputs
    <2> QED BY <1>0, <2>1, WatcherTypes
  <1>4. CASE CursorEnters
    <2>1. Acts /\ over' = TRUE /\ UNCHANGED <<hands, onControl, queued, line, unheard>>
      BY <1>4 DEF CursorEnters
    <2> QED BY <1>0, <2>1, WatcherTypes
  <1>5. CASE CursorLeaves
    <2>1. Acts /\ over' = FALSE /\ queued' = 0 /\ UNCHANGED <<hands, onControl, line, unheard>>
      BY <1>5 DEF CursorLeaves
    <2> QED BY <1>0, <2>1, WatcherTypes
  <1>6. CASE SelectTab
    <2>1. /\ Acts /\ onControl' = ~onControl /\ queued' = 0 /\ UNCHANGED <<hands, over, unheard>>
          /\ Publish(<<Event("mode", Button, onControl')>>)
      BY <1>6 DEF SelectTab
    <2>2. <<Event("mode", Button, onControl')>> \in Seq(AnyMessage)
      BY <1>0, <2>1, EventsAreMessages DEF Inputs
    <2> QED BY <1>0, <2>1, <2>2, WatcherTypes
  <1>7. CASE CloseScreenShareWindow
    <2>1. /\ notices # <<>> /\ notices' = Tail(notices) /\ inView' = FALSE /\ over' = FALSE
          /\ queued' = 0 /\ UNCHANGED <<modFirst, hands, unheard, presses, onControl, allowed, line>>
          /\ UNCHANGED <<controlled, simulates, pointing, pressed, ignored, decisions>>
      BY <1>7 DEF CloseScreenShareWindow, Noticed, sharerVars
    <2> QED BY <1>0, <2>1, SharerTypes
  <1>8. CASE OpenScreenShareWindow
    <2>1. /\ notices # <<>> /\ notices' = Tail(notices) /\ inView' = TRUE /\ over' = FALSE
          /\ queued' = 0 /\ allowed' = TRUE /\ onControl' \in BOOLEAN
          /\ UNCHANGED <<modFirst, hands, unheard, presses>>
          /\ UNCHANGED <<controlled, simulates, pointing, pressed, ignored, decisions>>
          /\ Publish(<<Event("mode", Button, onControl')>>)
      BY <1>8 DEF OpenScreenShareWindow, Noticed, sharerVars
    <2>2. <<Event("mode", Button, onControl')>> \in Seq(AnyMessage)
      BY <2>1, EventsAreMessages DEF Inputs
    <2> QED BY <1>0, <2>1, <2>2, SharerTypes
  <1>9. ASSUME NEW e \in BOOLEAN, SharerControlEnabled(e) PROVE InputTypes'
    <2>1. /\ notices # <<>> /\ notices' = Tail(notices) /\ allowed' \in BOOLEAN
          /\ UNCHANGED <<modFirst, hands, unheard, presses, inView, over, onControl, queued, line>>
          /\ UNCHANGED <<controlled, simulates, pointing, pressed, ignored, decisions>>
      BY <1>0, <1>9 DEF SharerControlEnabled, Noticed, sharerVars
    <2> QED BY <1>0, <2>1, SharerTypes
  <1>10. CASE Keystroke \/ MouseClick \/ CopyOrPaste \/ DrawingMode
    <2>1. /\ line # <<>> /\ line' = Tail(line)
          /\ UNCHANGED <<modFirst, hands, inView, over, onControl, allowed, queued, unheard, presses>>
          /\ UNCHANGED <<notices, controlled, simulates, decisions>>
      BY <1>10 DEF Keystroke, MouseClick, CopyOrPaste, DrawingMode, Handles, watcherVars
    <2>2. Head(line) \in AnyMessage
      BY <1>0, <2>1, OneLess
    <2>3. pressed' \in SUBSET Inputs /\ ignored' \in SUBSET Inputs /\ pointing' \in BOOLEAN
      BY <1>0, <1>10, <2>2 DEF Keystroke, MouseClick, CopyOrPaste, DrawingMode, Simulated, Dropped,
                               ShortcutKeySequence, AnyMessage
    <2> QED BY <1>0, <2>1, <2>3, SharerTypes
  <1>11. ASSUME NEW notice \in AnyNotices, Changes(notice),
                controlled' \in BOOLEAN, simulates' \in BOOLEAN, pointing' \in BOOLEAN
         PROVE  InputTypes'
    <2>1. /\ decisions' \in 0..MaxDecisions /\ notices' = Append(notices, notice)
          /\ UNCHANGED <<modFirst, hands, inView, over, onControl, allowed, queued, unheard, presses>>
          /\ UNCHANGED <<line, pressed, ignored>>
      BY <1>0, <1>11 DEF Changes, watcherVars
    <2> QED BY <1>0, <1>11, <2>1, SharerTypes
  <1>12. ASSUME ControlEnds \/ ControlBegins \/ (\E e \in BOOLEAN : ControllerCursorEnabled(e))
         PROVE  InputTypes'
    <2>1. \E notice \in AnyNotices : Changes(notice)
      BY <1>12 DEF ControlEnds, ControlBegins, ControllerCursorEnabled, AnyNotices
    <2>2. controlled' \in BOOLEAN /\ simulates' \in BOOLEAN /\ pointing' \in BOOLEAN
      BY <1>0, <1>12 DEF ControlEnds, ControlBegins, ControllerCursorEnabled
    <2> QED BY <1>11, <2>1, <2>2
  <1>13. CASE UNCHANGED inputVars
    BY <1>13 DEF inputVars, watcherVars, sharerVars, InputTypes, InputTypeOK
  <1> QED BY <1>1, <1>2, <1>3, <1>4, <1>5, <1>6, <1>7, <1>8, <1>9, <1>10, <1>12, <1>13 DEF InputNext

LEMMA InputTypesBegin == InputInit => InputTypes
  <1> SUFFICES ASSUME InputInit PROVE InputTypes
    OBVIOUS
  <1>1. /\ line = <<>> /\ notices = <<>> /\ Len(line) = 0 /\ Len(notices) = 0
        /\ line \in Seq(AnyMessage) /\ notices \in Seq(AnyNotices)
    BY DEF InputInit
  <1>2. 1..Len(line) = {} /\ 1..Len(notices) = {}
    BY <1>1
  <1>3. /\ {modFirst, inView, over, onControl, allowed, controlled, simulates, pointing} \subseteq BOOLEAN
        /\ {hands, pressed, unheard, ignored} \subseteq SUBSET (Keys \cup {Button})
    BY DEF InputInit
  <1>4. /\ queued = 0 /\ presses = 0 /\ decisions = 0 /\ 0 \in 0..MaxPresses /\ 0 \in 0..MaxDecisions
        /\ 0 <= MaxInFlight
    BY RemoteInputAssumption DEF InputInit
  <1> QED BY <1>1, <1>2, <1>3, <1>4 DEF InputTypes, InputTypeOK

--------------------------------------------------------------------------------
(* Types: drawing. *)

\* A path was begun by a stroke, and so was a toggle asked for; what is on its way is about
\* such paths and such shares.
WireMessage ==
    [type : {"mode", "start", "end", "clear", "clearAll"}, id : 0..MaxStrokes,
     mode : DrawModes, share : Nat]
SmallPicture == [mode : DrawModes, current : 0..MaxStrokes, done : SUBSET (1..MaxStrokes)]
WireTypes ==
    /\ DrawingTypeOK /\ path + toggles <= strokes
    /\ wire \in Seq(WireMessage) /\ \A i \in DOMAIN wire : wire[i].share <= shares

LEMMA PathsOfPictures ==
  ASSUME NEW d \in Pictures
  PROVE  /\ \A mode \in DrawModes : Blank(mode) \in Pictures /\ SetMode(d, mode) \in Pictures
         /\ \A id \in 0..MaxStrokes : StartPath(d, id) \in Pictures /\ ClearPath(d, id) \in Pictures
         /\ FinishPath(d) \in Pictures /\ ClearPaths(d) \in Pictures
         /\ \A m \in WireMessage : Applied(d, m) \in Pictures
         /\ \A set : [d EXCEPT !.done = @ \ set] \in Pictures
  <1>0. MaxStrokes \in Nat
    BY DrawingAssumption
  <1>1. \A mode \in DrawModes : Blank(mode) \in Pictures /\ SetMode(d, mode) \in Pictures
    BY <1>0 DEF Pictures, Blank, SetMode
  <1>a. /\ d.mode \in DrawModes /\ d.current \in 0..MaxStrokes /\ d.done \subseteq 1..MaxStrokes
    BY DEF Pictures
  <1>b. \A current \in 0..MaxStrokes, done \in SUBSET (1..MaxStrokes) :
          /\ [d EXCEPT !.current = current] \in Pictures
          /\ [d EXCEPT !.current = current, !.done = done] \in Pictures
    BY DEF Pictures
  <1>2. ASSUME NEW id \in 0..MaxStrokes
        PROVE  StartPath(d, id) \in Pictures /\ ClearPath(d, id) \in Pictures
    <2> DEFINE left == IF d.current = id THEN 0 ELSE d.current
    <2>1. left \in 0..MaxStrokes /\ d.done \ {id} \in SUBSET (1..MaxStrokes)
      BY <1>0, <1>a
    <2>2. [d EXCEPT !.current = left, !.done = d.done \ {id}] \in Pictures
      <3> HIDE DEF left
      <3> QED BY <1>b, <2>1
    <2> QED BY <1>b, <2>2 DEF StartPath, ClearPath
  <1>3. FinishPath(d) \in Pictures
    <2>1. d.current # 0 => d.done \cup {d.current} \in SUBSET (1..MaxStrokes)
      BY <1>0, <1>a
    <2>2. d.current # 0 => [d EXCEPT !.current = 0, !.done = d.done \cup {d.current}] \in Pictures
      <3> DEFINE none == 0
                 more == d.done \cup {d.current}
      <3>1. none \in 0..MaxStrokes /\ (d.current # 0 => more \in SUBSET (1..MaxStrokes))
        BY <1>0, <2>1
      <3> HIDE DEF none, more
      <3>2. d.current # 0 => [d EXCEPT !.current = none, !.done = more] \in Pictures
        BY <1>b, <3>1
      <3> QED BY <3>2 DEF none, more
    <2> QED BY <2>2 DEF FinishPath
  <1>4. ClearPaths(d) \in Pictures
    BY <1>0 DEF Pictures, ClearPaths, Blank
  <1>5. \A m \in WireMessage : Applied(d, m) \in Pictures
    BY <1>1, <1>2, <1>3, <1>4 DEF Applied, WireMessage
  <1>6. \A set : [d EXCEPT !.done = @ \ set] \in Pictures
    BY DEF Pictures
  <1> QED BY <1>1, <1>2, <1>3, <1>4, <1>5, <1>6

\* What is published is about the shares there were.
LEMMA PublishedTypes ==
  ASSUME WireTypes, NEW messages \in Seq(WireMessage), Published(messages),
         shares' \in Nat, shares <= shares'
  PROVE  /\ wire' \in Seq(WireMessage) /\ \A i \in DOMAIN wire' : wire'[i].share <= shares'
  <1> DEFINE sent == [i \in 1..Len(messages) |-> [messages[i] EXCEPT !.share = About]]
  <1>1. About \in Nat /\ About <= shares /\ shares \in Nat
    BY DEF WireTypes, DrawingTypeOK, About
  <1>2. sent \in Seq(WireMessage) /\ \A i \in DOMAIN sent : sent[i].share = About
    <2>1. \A i \in 1..Len(messages) : messages[i] \in WireMessage
      BY ElementOfSeq
    <2>2. \A i \in 1..Len(messages) :
            [messages[i] EXCEPT !.share = About] \in WireMessage
            /\ [messages[i] EXCEPT !.share = About].share = About
      BY <1>1, <2>1 DEF WireMessage
    <2>3. sent \in [1..Len(messages) -> WireMessage] /\ Len(messages) \in Nat
      BY <2>2, LenProperties
    <2>4. \A i \in DOMAIN sent : sent[i].share = About
      BY <2>2
    <2> HIDE DEF sent
    <2> QED BY <2>3, <2>4
  <1>3. wire' = wire \o sent
    BY DEF Published
  <1> HIDE DEF sent
  <1>4. /\ wire' \in Seq(WireMessage) /\ Len(wire') = Len(wire) + Len(sent)
        /\ Len(wire) \in Nat /\ Len(sent) \in Nat
        /\ DOMAIN wire = 1..Len(wire) /\ DOMAIN sent = 1..Len(sent) /\ DOMAIN wire' = 1..Len(wire')
        /\ \A i \in 1..Len(wire') :
             wire'[i] = IF i <= Len(wire) THEN wire[i] ELSE sent[i - Len(wire)]
    BY <1>2, <1>3, ConcatProperties, LenProperties DEF WireTypes
  <1>5. ASSUME NEW i \in DOMAIN wire' PROVE wire'[i].share <= shares'
    <2>1. wire'[i].share \in Nat
      <3>1. wire'[i] \in WireMessage
        BY <1>4, ElementOfSeq
      <3> QED BY <3>1 DEF WireMessage
    <2>2. CASE i <= Len(wire)
      <3>1. i \in DOMAIN wire /\ wire'[i] = wire[i]
        BY <1>4, <2>2
      <3> QED BY <1>1, <2>1, <3>1 DEF WireTypes
    <2>3. CASE i > Len(wire)
      <3>1. i - Len(wire) \in DOMAIN sent /\ wire'[i] = sent[i - Len(wire)]
        BY <1>4, <2>3
      <3> QED BY <1>1, <1>2, <3>1
    <2> QED BY <1>4, <2>2, <2>3
  <1> QED BY <1>4, <1>5

\* A step of the artist or of a share that publishes something, or nothing.
LEMMA DrawingTypesKept ==
  ASSUME WireTypes, artist' = artist,
         \/ wire' = wire
         \/ \E messages \in Seq(WireMessage) : Published(messages)
         \/ wire' \in Seq(WireMessage) /\ \A i \in DOMAIN wire' : wire'[i].share <= shares',
         shares' \in 0..MaxShares, shares <= shares', share' \in {0, shares'}, view' \in 0..shares',
         watching' \in BOOLEAN, view' = 0 => ~watching',
         board' \in {"absent", "hidden", "shown"}, board' = "shown" => share' # 0,
         toggles' \in Nat, path' \in Nat, path' + toggles' <= strokes', strokes' \in 0..MaxStrokes,
         tab' \in Tabs, persist' \in BOOLEAN, astray' \in BOOLEAN, offTab' \in BOOLEAN,
         picture' \in Pictures, picture'.current \in {0, path'}, seen' \in Pictures
  PROVE  WireTypes'
  <1>1. wire' \in Seq(WireMessage) /\ \A i \in DOMAIN wire' : wire'[i].share <= shares'
    <2>1. CASE wire' = wire
      <3>1. \A i \in DOMAIN wire : wire[i] \in WireMessage
        BY ElementOfSeq, LenProperties DEF WireTypes
      <3>2. \A i \in DOMAIN wire : wire[i].share \in Nat /\ wire[i].share <= shares /\ shares \in Nat
        BY <3>1 DEF WireMessage, WireTypes, DrawingTypeOK
      <3> QED BY <2>1, <3>2 DEF WireTypes
    <2> QED BY <2>1, PublishedTypes
  <1>2. \A i \in 1..Len(wire') : wire'[i].mode \in DrawModes /\ wire'[i].share \in 0..shares'
    <2>1. \A i \in 1..Len(wire') : wire'[i] \in WireMessage /\ i \in DOMAIN wire'
      BY <1>1, ElementOfSeq, LenProperties
    <2> QED BY <1>1, <2>1 DEF WireMessage
  <1>3. toggles' \in 0..MaxStrokes /\ path' \in 0..MaxStrokes
    BY DrawingAssumption
  <1> QED BY <1>1, <1>2, <1>3 DEF WireTypes, DrawingTypeOK

LEMMA DrawMessages ==
  ASSUME NEW mode \in DrawModes, NEW id \in 0..MaxStrokes
  PROVE  /\ ModeMessage(mode) \in WireMessage /\ <<ModeMessage(mode)>> \in Seq(WireMessage)
         /\ \A type \in {"start", "end", "clear", "clearAll"} :
              /\ PathMessage(type, id) \in WireMessage
              /\ <<PathMessage(type, id)>> \in Seq(WireMessage)
         /\ <<ModeMessage(mode), ModeMessage("Disabled")>> \in Seq(WireMessage)
         /\ LastWords \in Seq(WireMessage)
         /\ <<PathMessage("clearAll", 0)>> \o <<ModeMessage(mode)>> \in Seq(WireMessage)
         /\ <<>> \o <<ModeMessage(mode)>> \in Seq(WireMessage)
  <1>1. /\ \A any \in DrawModes : ModeMessage(any) \in WireMessage
        /\ \A type \in {"start", "end", "clear", "clearAll"}, n \in 0..MaxStrokes :
             PathMessage(type, n) \in WireMessage
    BY DrawingAssumption DEF ModeMessage, PathMessage, Message, WireMessage, DrawModes
  <1>2. "Disabled" \in DrawModes /\ 0 \in 0..MaxStrokes
    BY DrawingAssumption DEF DrawModes
  <1>3. <<ModeMessage(mode)>> \in Seq(WireMessage) /\ <<PathMessage("clearAll", 0)>> \in Seq(WireMessage)
    BY <1>1, <1>2
  <1>4. <<>> \in Seq(WireMessage)
    OBVIOUS
  <1>5. /\ <<PathMessage("clearAll", 0)>> \o <<ModeMessage(mode)>> \in Seq(WireMessage)
        /\ <<>> \o <<ModeMessage(mode)>> \in Seq(WireMessage)
    BY <1>3, <1>4, ConcatProperties
  <1>6. /\ <<ModeMessage(mode), ModeMessage("Disabled")>> \in Seq(WireMessage)
        /\ LastWords \in Seq(WireMessage)
    BY <1>1, <1>2 DEF LastWords
  <1> QED BY <1>1, <1>3, <1>5, <1>6

LEMMA WireTypesStep == WireTypes /\ DrawingInv /\ [DrawingNext]_drawingVars => WireTypes'
  <1> SUFFICES ASSUME WireTypes, DrawingInv, [DrawingNext]_drawingVars PROVE WireTypes'
    OBVIOUS
  <1>0. /\ DrawingTypeOK /\ path + toggles <= strokes
        /\ shares \in 0..MaxShares /\ share \in {0, shares} /\ view \in 0..shares
        /\ watching \in BOOLEAN /\ (view = 0 => ~watching)
        /\ board \in {"absent", "hidden", "shown"} /\ (board = "shown" => share # 0)
        /\ toggles \in Nat /\ tab \in Tabs /\ persist \in BOOLEAN /\ path \in Nat
        /\ picture \in Pictures /\ picture.current \in {0, path} /\ seen \in Pictures
        /\ astray \in BOOLEAN /\ offTab \in BOOLEAN /\ strokes \in 0..MaxStrokes
        /\ wire \in Seq(WireMessage) /\ MaxShares \in Nat /\ MaxStrokes \in Nat
        /\ shares <= shares /\ path \in 0..MaxStrokes
    BY DrawingAssumption DEF WireTypes, DrawingTypeOK
  <1>a. ASSUME NEW t \in Tabs, NEW permanent \in BOOLEAN
        PROVE  /\ DrawMode(permanent) \in DrawModes /\ ModeOf(t) \in DrawModes
               /\ (CASE t = "draw" -> DrawMode(permanent) [] t = "point" -> "ClickAnimation"
                     [] t = "control" -> "Disabled") \in DrawModes
    BY <1>0 DEF DrawMode, ModeOf, DrawModes, Tabs
  <1>b. "Disabled" \in DrawModes /\ "Any" \in DrawModes /\ 0 \in 0..MaxStrokes /\ seen.mode \in DrawModes
    BY <1>0 DEF DrawModes, Pictures
  <1>c. ASSUME NEW mode \in DrawModes, Published(<<ModeMessage(mode)>>)
        PROVE  \E messages \in Seq(WireMessage) : Published(messages)
    BY <1>b, <1>c, DrawMessages
  <1>d. \A mode \in DrawModes :
          /\ Blank(mode) \in Pictures /\ Blank(mode).current = 0
          /\ SetMode(picture, mode) \in Pictures /\ SetMode(picture, mode).current \in {0, picture.current}
    <2> SUFFICES ASSUME NEW mode \in DrawModes
                 PROVE  /\ Blank(mode) \in Pictures /\ Blank(mode).current = 0
                        /\ SetMode(picture, mode) \in Pictures
                        /\ SetMode(picture, mode).current \in {0, picture.current}
      OBVIOUS
    <2>1. Blank(mode) \in Pictures /\ SetMode(picture, mode) \in Pictures
      BY <1>0, PathsOfPictures
    <2>2. Blank(mode).current = 0
      BY DEF Blank
    <2>3. [picture EXCEPT !.mode = mode].current = picture.current
      BY <1>0 DEF Pictures
    <2> QED BY <2>1, <2>2, <2>3 DEF SetMode
  <1>e. /\ ClearPaths(picture) \in Pictures /\ ClearPaths(picture).current = 0
        /\ FinishPath(picture) \in Pictures /\ FinishPath(picture).current \in {0, picture.current}
    <2>1. ClearPaths(picture) \in Pictures /\ FinishPath(picture) \in Pictures
      BY <1>0, PathsOfPictures
    <2>2. ClearPaths(picture).current = 0
      BY DEF ClearPaths, Blank
    <2>3. FinishPath(picture).current \in {0, picture.current}
      BY <1>0 DEF FinishPath, Pictures
    <2> QED BY <2>1, <2>2, <2>3
  <1>1. CASE BeginShare
    <2>1. /\ shares' = shares + 1 /\ share' = shares' /\ shares' \in 0..MaxShares /\ shares <= shares'
          /\ board' \in {"absent", "hidden"} /\ view' \in 0..shares' /\ share' # 0
      BY <1>0, <1>1 DEF BeginShare, BoardHidden
    <2>2. seen' \in Pictures /\ astray' \in BOOLEAN
      BY <1>0, <1>1, <1>b, <1>d DEF BeginShare, NewOverlay
    <2>3. UNCHANGED <<artist, view, watching, toggles, tab, persist, path, picture, wire, offTab, strokes>>
      BY <1>1 DEF BeginShare
    <2> QED BY <1>0, <2>1, <2>2, <2>3, DrawingTypesKept
  <1>2. CASE EndShare
    <2>1. /\ share' = 0 /\ board' \in {"absent", "hidden"}
          /\ UNCHANGED <<artist, shares, view, watching, toggles, tab, persist, path>>
          /\ UNCHANGED <<picture, seen, wire, astray, offTab, strokes>>
      BY <1>0, <1>2 DEF EndShare, BoardHidden
    <2> QED BY <1>0, <2>1, DrawingTypesKept
  <1>3. CASE OverlayRepaired
    <2>1. seen' \in Pictures /\ astray' \in BOOLEAN
      BY <1>0, <1>3, <1>b, <1>d DEF OverlayRepaired, NewOverlay
    <2>2. UNCHANGED <<artist, share, shares, view, watching, board, toggles, tab, persist, path, picture,
                      wire, offTab, strokes>>
      BY <1>3 DEF OverlayRepaired, shareVars, boardVars
    <2> QED BY <1>0, <2>1, <2>2, DrawingTypesKept
  <1>4. ASSUME NEW t \in Tabs, NEW permanent \in BOOLEAN, WatchNewShare(t, permanent)
        PROVE  WireTypes'
    <2>1. /\ view' = share /\ share # 0 /\ watching' = TRUE /\ astray' \in BOOLEAN
          /\ UNCHANGED <<artist, share, shares, board, toggles, strokes>>
      BY <1>4 DEF WatchNewShare
    <2>2. CASE artist = "watcher"
      <3>1. /\ tab' = t /\ persist' = permanent /\ path' = 0 /\ offTab' = FALSE /\ seen' = seen
            /\ picture' = Blank(CASE t = "draw" -> DrawMode(permanent) [] t = "point" -> "ClickAnimation"
                                  [] t = "control" -> "Disabled")
            /\ wire' = Append(wire, [ModeMessage(picture'.mode) EXCEPT !.share = share])
        BY <1>4, <2>2 DEF WatchNewShare
      <3>2. picture' \in Pictures /\ picture'.current = 0 /\ picture'.mode \in DrawModes
        BY <1>a, <1>d, <3>1 DEF Pictures
      <3> DEFINE m == [ModeMessage(picture'.mode) EXCEPT !.share = share]
      <3>3. m \in WireMessage /\ m.share = share
        <4>1. m = [type |-> "mode", id |-> 0, mode |-> picture'.mode, share |-> share]
          BY DEF ModeMessage, Message
        <4>2. share \in Nat
          BY <1>0
        <4> HIDE DEF m
        <4> QED BY <1>0, <1>b, <3>2, <4>1, <4>2 DEF WireMessage
      <3> HIDE DEF m
      <3>4. wire' = Append(wire, m)
        BY <3>1 DEF m
      <3>5. /\ wire' \in Seq(WireMessage) /\ Len(wire) \in Nat /\ DOMAIN wire' = 1..(Len(wire) + 1)
            /\ \A i \in 1..Len(wire) : wire'[i] = wire[i]
            /\ wire'[Len(wire) + 1] = m /\ DOMAIN wire = 1..Len(wire)
        BY <1>0, <3>3, <3>4, AppendProperties, LenProperties
      <3>6. \A i \in DOMAIN wire' : wire'[i].share <= shares'
        <4> SUFFICES ASSUME NEW i \in DOMAIN wire' PROVE wire'[i].share <= shares'
          OBVIOUS
        <4>1. CASE i = Len(wire) + 1
          BY <1>0, <2>1, <3>3, <3>5, <4>1
        <4>2. CASE i \in 1..Len(wire)
          BY <1>0, <2>1, <3>5, <4>2 DEF WireTypes
        <4> QED BY <3>5, <4>1, <4>2
      <3>7. path' + toggles' <= strokes' /\ path' \in Nat /\ view' \in 0..shares'
        BY <1>0, <2>1, <3>1
      <3> QED BY <1>0, <2>1, <3>1, <3>2, <3>5, <3>6, <3>7, DrawingTypesKept
    <2>3. CASE artist # "watcher"
      <3>1. seen' \in Pictures /\ UNCHANGED <<tab, persist, picture, path, offTab, wire>>
        BY <1>4, <1>b, <1>d, <2>3 DEF WatchNewShare
      <3> QED BY <1>0, <2>1, <3>1, DrawingTypesKept
    <2> QED BY <2>2, <2>3
  <1>5. CASE WatcherHides
    <2>1. watching' = FALSE /\ UNCHANGED <<artist, share, shares, view, board, toggles, tab, persist, path>>
      BY <1>5 DEF WatcherHides, boardVars
    <2>2. UNCHANGED <<picture, seen, wire, astray, offTab, strokes>>
      BY <1>5 DEF WatcherHides
    <2> QED BY <1>0, <2>1, <2>2, DrawingTypesKept
  <1>6. CASE WatcherReopens
    <2>1. /\ watching' = TRUE /\ view # 0 /\ strokes' \in 0..MaxStrokes /\ strokes' = strokes + 1
          /\ UNCHANGED <<artist, share, shares, view, board, toggles, tab, persist, path, picture, seen, astray,
                         offTab>>
      BY <1>0, <1>6 DEF WatcherReopens, boardVars, Stroke
    <2>2. wire' = wire \/ \E messages \in Seq(WireMessage) : Published(messages)
      BY <1>0, <1>6, <1>a, <1>c DEF WatcherReopens
    <2>3. path' + toggles' <= strokes'
      BY <1>0, <2>1
    <2> QED BY <1>0, <2>1, <2>2, <2>3, DrawingTypesKept
  <1>7. CASE AskToggle
    <2>1. /\ toggles' = toggles + 1 /\ strokes' \in 0..MaxStrokes /\ strokes' = strokes + 1
          /\ UNCHANGED <<artist, share, shares, view, watching, board, tab, persist, path, picture, seen, wire>>
          /\ UNCHANGED <<astray, offTab>>
      BY <1>0, <1>7 DEF AskToggle, Stroke, shareVars
    <2>2. path' + toggles' <= strokes' /\ toggles' \in Nat
      BY <1>0, <2>1
    <2> QED BY <1>0, <2>1, <2>2, DrawingTypesKept
  <1>8. ASSUME Toggle
        PROVE  /\ toggles' \in Nat /\ path + toggles' <= strokes' /\ toggles' <= strokes'
               /\ UNCHANGED <<artist, share, shares, view, watching, tab, seen, astray, offTab, strokes>>
    BY <1>0, <1>8 DEF Toggle, shareVars
  <1>9. CASE ToggleWithoutShare
    <2>1. Toggle /\ UNCHANGED <<board, persist, path, picture, wire>>
      BY <1>9 DEF ToggleWithoutShare
    <2> QED BY <1>0, <1>8, <2>1, DrawingTypesKept
  <1>10. ASSUME NEW permanent \in BOOLEAN, DrawingBegins(permanent) PROVE WireTypes'
    <2>1. /\ Toggle /\ share # 0 /\ board' = "shown" /\ persist' = permanent /\ path' = 0
          /\ picture' = Blank(DrawMode(permanent)) /\ Published(<<ModeMessage(DrawMode(permanent))>>)
      BY <1>10 DEF DrawingBegins
    <2>2. picture' \in Pictures /\ picture'.current \in {0, path'}
      BY <1>0, <1>a, <1>d, <2>1
    <2>3. \E messages \in Seq(WireMessage) : Published(messages)
      BY <1>0, <1>a, <1>c, <2>1
    <2>4. path' + toggles' <= strokes' /\ path' \in Nat
      BY <1>0, <1>8, <2>1
    <2> QED BY <1>0, <1>8, <2>1, <2>2, <2>3, <2>4, DrawingTypesKept
  <1>11. ASSUME NEW permanent \in BOOLEAN, DrawingCannotBegin(permanent) PROVE WireTypes'
    <2>1. /\ Toggle /\ UNCHANGED <<board, persist, path, picture>>
          /\ Published(<<ModeMessage(DrawMode(permanent)), ModeMessage("Disabled")>>)
      BY <1>11 DEF DrawingCannotBegin
    <2>2. <<ModeMessage(DrawMode(permanent)), ModeMessage("Disabled")>> \in Seq(WireMessage)
      BY <1>0, <1>a, <1>b, DrawMessages
    <2>3. \E messages \in Seq(WireMessage) : Published(messages)
      BY <2>1, <2>2
    <2> QED BY <1>0, <1>8, <2>1, <2>3, DrawingTypesKept
  <1>12. CASE DrawingEnds
    <2>1. /\ Toggle /\ board' = "hidden" /\ UNCHANGED <<persist, path, picture>> /\ Published(LastWords)
      BY <1>12 DEF DrawingEnds
    <2>2. LastWords \in Seq(WireMessage)
      BY <1>b, DrawMessages
    <2> QED BY <1>0, <1>8, <2>1, <2>2, DrawingTypesKept
  <1>13. CASE BoardCloses
    <2>1. /\ board' = "hidden" /\ astray' = TRUE
          /\ UNCHANGED <<artist, share, shares, view, watching, toggles, tab, persist, path, picture, seen>>
          /\ UNCHANGED <<wire, offTab, strokes>>
      BY <1>13 DEF BoardCloses, shareVars
    <2> QED BY <1>0, <2>1, DrawingTypesKept
  <1>14. ASSUME NEW permanent \in BOOLEAN, SharerPersists(permanent) PROVE WireTypes'
    <2>1. /\ strokes' \in 0..MaxStrokes /\ strokes' = strokes + 1
          /\ Published(<<ModeMessage(DrawMode(permanent))>>)
          /\ UNCHANGED <<artist, share, shares, view, watching, board, toggles, tab, path, seen, astray, offTab>>
      BY <1>0, <1>14 DEF SharerPersists, Stroke, shareVars
    <2>2. persist' \in BOOLEAN /\ picture' \in Pictures /\ picture'.current \in {0, path}
      BY <1>0, <1>14, <1>a, <1>d DEF SharerPersists
    <2>3. \E messages \in Seq(WireMessage) : Published(messages)
      BY <1>0, <1>a, <1>c, <2>1
    <2>4. path' + toggles' <= strokes'
      BY <1>0, <2>1
    <2> QED BY <1>0, <2>1, <2>2, <2>3, <2>4, DrawingTypesKept
  <1>15. ASSUME AtWatcher
         PROVE  /\ strokes' \in 0..MaxStrokes /\ path + toggles' <= strokes'
                /\ UNCHANGED <<artist, share, shares, view, watching, board, toggles, seen, astray>>
    BY <1>0, <1>15 DEF AtWatcher, Stroke, shareVars
  <1>16. ASSUME NEW t \in Tabs, TabSelected(t) PROVE WireTypes'
    <2>1. /\ AtWatcher /\ tab' = t /\ offTab' = FALSE /\ UNCHANGED <<persist, path>>
          /\ picture' = SetMode(IF t = "draw" THEN picture ELSE ClearPaths(picture), ModeOf(t))
          /\ Published((IF t = "draw" THEN <<>> ELSE <<PathMessage("clearAll", 0)>>)
                 \o <<ModeMessage(ModeOf(t))>>)
      BY <1>16 DEF TabSelected
    <2>2. ModeOf(t) \in DrawModes
      BY <1>0, <1>a
    <2>3. picture' \in Pictures /\ picture'.current \in {0, path'}
      <3>1. CASE t = "draw"
        BY <1>0, <1>d, <2>1, <2>2, <3>1
      <3>2. CASE t # "draw"
        <4>1. SetMode(ClearPaths(picture), ModeOf(t)) \in Pictures
          BY <1>e, <2>2, PathsOfPictures
        <4>2. [ClearPaths(picture) EXCEPT !.mode = ModeOf(t)].current = 0
          BY <1>e DEF Pictures
        <4>3. Blank(ModeOf(t)).current = 0
          BY <1>d, <2>2
        <4> QED BY <2>1, <3>2, <4>1, <4>2, <4>3 DEF SetMode
      <3> QED BY <3>1, <3>2
    <2>4. ((IF t = "draw" THEN <<>> ELSE <<PathMessage("clearAll", 0)>>) \o <<ModeMessage(ModeOf(t))>>)
             \in Seq(WireMessage)
      BY <1>b, <2>2, DrawMessages
    <2>5. \E messages \in Seq(WireMessage) : Published(messages)
      BY <2>1, <2>4
    <2>6. AtWatcher /\ tab' \in Tabs /\ offTab' = FALSE /\ UNCHANGED <<persist, path>>
      BY <2>1
    <2>7. /\ strokes' \in 0..MaxStrokes /\ path' + toggles' <= strokes' /\ path' \in Nat /\ toggles' \in Nat
          /\ UNCHANGED <<artist, share, shares, view, watching, board, seen, astray, persist>>
      BY <1>0, <1>15, <2>6
    <2> QED BY <1>0, <2>3, <2>5, <2>6, <2>7, DrawingTypesKept
  <1>17. ASSUME NEW permanent \in BOOLEAN, DropdownItemClicked(permanent) PROVE WireTypes'
    <2>1. /\ AtWatcher /\ persist' = permanent /\ offTab' \in BOOLEAN /\ UNCHANGED <<tab, path>>
          /\ picture' = SetMode(picture, DrawMode(permanent))
          /\ Published(<<ModeMessage(DrawMode(permanent))>>)
      BY <1>17 DEF DropdownItemClicked
    <2>2. picture' \in Pictures /\ picture'.current \in {0, path}
      BY <1>0, <1>a, <1>d, <2>1
    <2>3. \E messages \in Seq(WireMessage) : Published(messages)
      BY <1>0, <1>a, <1>c, <2>1
    <2> QED BY <1>0, <1>15, <2>1, <2>2, <2>3, DrawingTypesKept
  <1>18. ASSUME Hand
         PROVE  /\ strokes' \in 0..MaxStrokes /\ strokes' = strokes + 1
                /\ UNCHANGED <<artist, share, shares, view, watching, board, toggles, tab, persist, seen, astray,
                               offTab>>
    BY <1>0, <1>18 DEF Hand, Stroke, shareVars, boardVars
  <1>19. CASE PressLeft
    <2>1. Hand /\ path' = path + 1 /\ picture' = StartPath(picture, path + 1)
          /\ Published(<<PathMessage("start", path + 1)>>)
      BY <1>19 DEF PressLeft
    <2>2. path' + toggles' <= strokes' /\ path + 1 \in 0..MaxStrokes /\ path' \in Nat
      BY <1>0, <1>18, <2>1
    <2>3. picture' \in Pictures
      BY <1>0, <2>1, <2>2, PathsOfPictures
    <2>4. picture'.current \in {0, path'}
      <3>1. picture.mode # "Disabled"
        BY <2>1 DEF Hand, CanDraw, DrawingInv, ArtistsMode, DrawingTypes, ModeOf, DrawMode
      <3>2. [picture EXCEPT !.current = path + 1].current = path + 1
        BY <1>0 DEF Pictures
      <3> QED BY <2>1, <3>1, <3>2 DEF StartPath
    <2>5. <<PathMessage("start", path + 1)>> \in Seq(WireMessage)
      BY <1>b, <2>2, DrawMessages
    <2>6. \E messages \in Seq(WireMessage) : Published(messages)
      BY <2>1, <2>5
    <2> QED BY <1>0, <1>18, <2>1, <2>2, <2>3, <2>4, <2>6, DrawingTypesKept
  <1>20. CASE StrokeEnds \/ PressRight
    <2>1. /\ Hand /\ UNCHANGED path /\ picture' \in {FinishPath(picture), ClearPaths(picture)}
          /\ Published(<<PathMessage("end", 0)>>) \/ Published(<<PathMessage("clearAll", 0)>>)
      BY <1>20 DEF StrokeEnds, PressRight
    <2>2. <<PathMessage("end", 0)>> \in Seq(WireMessage) /\ <<PathMessage("clearAll", 0)>> \in Seq(WireMessage)
      BY <1>b, DrawMessages
    <2>3. path' + toggles' <= strokes' /\ picture' \in Pictures /\ picture'.current \in {0, path'}
      BY <1>0, <1>18, <1>e, <2>1
    <2>4. \E messages \in Seq(WireMessage) : Published(messages)
      BY <2>1, <2>2
    <2> QED BY <1>0, <1>18, <2>1, <2>3, <2>4, DrawingTypesKept
  <1>21. CASE PathsExpire
    <2>1. /\ picture' = [picture EXCEPT !.done = @ \ {Oldest}] /\ picture.done # {}
          /\ UNCHANGED <<artist, share, shares, view, watching, board, toggles, tab, persist, path, seen, astray,
                         offTab, strokes>>
          /\ Published(<<PathMessage("clear", Oldest)>>)
      BY <1>21 DEF PathsExpire, Expired, shareVars, boardVars
    <2>2. picture' \in Pictures /\ picture'.current = picture.current
      <3>1. picture' \in Pictures
        BY <1>0, <2>1, PathsOfPictures
      <3> QED BY <1>0, <2>1, <3>1 DEF Pictures
    <2>3. Oldest \in 0..MaxStrokes
      <3>1. picture.done \subseteq Nat /\ picture.done \subseteq 0..MaxStrokes
        BY <1>0 DEF Pictures
      <3> QED BY <2>1, <3>1, OldestIsDone
    <2>4. <<PathMessage("clear", Oldest)>> \in Seq(WireMessage)
      BY <1>b, <2>3, DrawMessages
    <2> QED BY <1>0, <2>1, <2>2, <2>4, DrawingTypesKept
  <1>22. CASE HandleDrawing
    <2>1. /\ wire # <<>> /\ wire' = Tail(wire) /\ seen' \in {seen, Applied(seen, Head(wire))}
          /\ astray' \in BOOLEAN
          /\ UNCHANGED <<artist, share, shares, view, watching, board, toggles, tab, persist, path, picture,
                         offTab, strokes>>
      BY <1>0, <1>22 DEF HandleDrawing, shareVars, boardVars
    <2>2. /\ Head(wire) \in WireMessage /\ wire' \in Seq(WireMessage) /\ Len(wire) \in Nat \ {0}
          /\ DOMAIN wire = 1..Len(wire) /\ DOMAIN wire' = 1..(Len(wire) - 1)
          /\ \A i \in 1..(Len(wire) - 1) : wire'[i] = wire[i + 1]
      BY <1>0, <2>1, HeadTailProperties, LenProperties, EmptySeq
    <2>3. \A i \in DOMAIN wire' : wire'[i].share <= shares'
      <3> SUFFICES ASSUME NEW i \in DOMAIN wire' PROVE wire'[i].share <= shares'
        OBVIOUS
      <3>1. i + 1 \in DOMAIN wire /\ wire'[i] = wire[i + 1]
        BY <2>2
      <3> QED BY <2>1, <3>1 DEF WireTypes
    <2>4. seen' \in Pictures
      BY <1>0, <2>1, <2>2, PathsOfPictures
    <2> QED BY <1>0, <2>1, <2>2, <2>3, <2>4, DrawingTypesKept
  <1>23. CASE UNCHANGED drawingVars
    <2>1. UNCHANGED <<artist, share, shares, view, watching, board, toggles, tab, persist, path, picture,
                      seen, wire, astray, offTab, strokes>>
      BY <1>23 DEF drawingVars, shareVars, boardVars
    <2> QED BY <1>0, <2>1, DrawingTypesKept
  <1> QED BY <1>1, <1>2, <1>3, <1>4, <1>5, <1>6, <1>7, <1>9, <1>10, <1>11, <1>12, <1>13, <1>14, <1>16,
             <1>17, <1>19, <1>20, <1>21, <1>22, <1>23 DEF DrawingNext

LEMMA WireTypesBegin == DrawingInit => WireTypes
  <1> SUFFICES ASSUME DrawingInit PROVE WireTypes
    OBVIOUS
  <1>1. /\ wire = <<>> /\ Len(wire) = 0 /\ 1..Len(wire) = {} /\ DOMAIN wire = {}
        /\ wire \in Seq(WireMessage)
    BY DEF DrawingInit
  <1>2. picture = Blank("Disabled") /\ seen = Blank("Disabled") /\ Blank("Disabled").current = 0
    BY DEF DrawingInit, Blank
  <1>3. Blank("Disabled") \in Pictures
    BY DrawingAssumption DEF Blank, Pictures, DrawModes
  <1>4. /\ 0 \in 0..MaxShares /\ 0 \in 0..MaxStrokes /\ 0 \in 0..0 /\ 0 \in Nat /\ 0 + 0 <= 0
    BY DrawingAssumption
  <1>5. /\ artist \in {"sharer", "watcher"} /\ share = 0 /\ shares = 0 /\ view = 0 /\ watching = FALSE
        /\ board = "absent" /\ toggles = 0 /\ tab \in Tabs /\ persist \in BOOLEAN /\ path = 0
        /\ astray \in BOOLEAN /\ offTab \in BOOLEAN /\ strokes = 0
        /\ picture \in Pictures /\ seen \in Pictures /\ picture.current = 0
    BY <1>2, <1>3 DEF DrawingInit, Tabs
  <1> QED BY <1>1, <1>4, <1>5 DEF WireTypes, DrawingTypeOK

--------------------------------------------------------------------------------
(* Types: words. *)

Rooms == RoomIds \cup {0}
AnyCommandSent == [what : CommandKinds, room : Rooms, n : 0..MaxCommands]
AnyDataSent ==
    [command : {command \in AnyCommandSent : command.what \in MessageKinds}, from : Speakers, sent : Nat,
     got : Nat, room : Rooms]

\* Each visit, the one that begins and each command that waits was a command of the application.
Accounted(c) ==
    /\ visit[c] + Len(waiting[c]) + (IF joining[c] = 0 THEN 0 ELSE 1) <= commandsSent[c]
    /\ c \in Speakers => wordsSaid[c] <= commandsSent[c]

WordTypes ==
    /\ callOf \in [Peers -> Rooms] /\ joining \in [Peers -> Rooms] /\ roomOf \in [Peers -> Rooms]
    /\ waiting \in [Peers -> Seq(AnyCommandSent)] /\ post \in [Peers -> Seq(AnyDataSent)]
    /\ \A c \in Peers : Len(waiting[c]) <= MaxWaiting /\ Len(post[c]) <= MaxPost
    /\ sinceTaken \in [Peers -> 0..Throttle] /\ sinceSent \in [Peers -> 0..Throttle]
    /\ visit \in [Peers -> Nat] /\ commandsSent \in [Peers -> 0..MaxCommands]
    /\ wordsSaid \in [Speakers -> Nat] /\ wordsTaken \in [Speakers -> 0..MaxCommands]
    /\ wordsHeard \in [Peers -> [Speakers -> 0..MaxCommands]] /\ unsent \in BOOLEAN
    /\ \A c \in Peers : Accounted(c)

LEMMA WordTypesOK == WordTypes => MessagesTypeOK
  <1> SUFFICES ASSUME WordTypes PROVE MessagesTypeOK
    OBVIOUS
  <1>1. MaxCommands \in Nat /\ Speakers \subseteq Peers
    BY RoomMessagesAssumption
  <1>2. ASSUME NEW c \in Peers
        PROVE  /\ \A i \in DOMAIN waiting[c] : waiting[c][i].what \in CommandKinds
               /\ \A i \in DOMAIN post[c] : post[c][i].command.what \in MessageKinds
    <2>1. /\ \A i \in DOMAIN waiting[c] : waiting[c][i] \in AnyCommandSent
          /\ \A i \in DOMAIN post[c] : post[c][i] \in AnyDataSent
      BY ElementOfSeq, LenProperties DEF WordTypes
    <2> QED BY <2>1 DEF AnyCommandSent, AnyDataSent
  <1>3. \A c \in Peers : Len(waiting[c]) \in Nat
    BY LenProperties DEF WordTypes
  <1>4. visit \in [Peers -> 0..MaxCommands]
    <2>1. ASSUME NEW c \in Peers PROVE visit[c] \in 0..MaxCommands
      <3> DEFINE busy == IF joining[c] = 0 THEN 0 ELSE 1
      <3>1. /\ busy \in Nat /\ visit[c] + Len(waiting[c]) + busy <= commandsSent[c]
            /\ visit[c] \in Nat /\ commandsSent[c] \in 0..MaxCommands
        BY DEF WordTypes, Accounted
      <3> HIDE DEF busy
      <3> QED BY <1>1, <1>3, <3>1
    <2> QED BY <2>1 DEF WordTypes
  <1>5. wordsSaid \in [Speakers -> 0..MaxCommands]
    <2>1. \A c \in Speakers : wordsSaid[c] \in 0..MaxCommands
      BY <1>1 DEF Accounted, WordTypes
    <2> QED BY <2>1 DEF WordTypes
  <1> QED BY <1>2, <1>4, <1>5 DEF WordTypes, MessagesTypeOK, Rooms

LEMMA WordTypesBegin == MessagesInit => WordTypes
  <1> SUFFICES ASSUME MessagesInit PROVE WordTypes
    OBVIOUS
  <1>1. /\ Throttle \in Nat /\ MaxCommands \in Nat /\ MaxWaiting \in Nat /\ MaxPost \in Nat
        /\ Speakers \subseteq Peers /\ 0 \in Rooms
    BY RoomMessagesAssumption DEF Rooms
  <1>2. waiting \in [Peers -> Seq(AnyCommandSent)] /\ post \in [Peers -> Seq(AnyDataSent)]
    BY DEF MessagesInit
  <1>3. \A c \in Peers : Len(waiting[c]) = 0 /\ Len(post[c]) = 0
    BY DEF MessagesInit
  <1>4. \A c \in Peers : Accounted(c)
    BY <1>1, <1>3 DEF MessagesInit, Accounted
  <1>5. /\ callOf \in [Peers -> Rooms] /\ joining \in [Peers -> Rooms] /\ roomOf \in [Peers -> Rooms]
        /\ sinceTaken \in [Peers -> 0..Throttle] /\ sinceSent \in [Peers -> 0..Throttle]
        /\ visit \in [Peers -> Nat] /\ commandsSent \in [Peers -> 0..MaxCommands]
        /\ wordsSaid \in [Speakers -> Nat] /\ wordsTaken \in [Speakers -> 0..MaxCommands]
        /\ wordsHeard \in [Peers -> [Speakers -> 0..MaxCommands]] /\ unsent \in BOOLEAN
    <2>1. /\ 0 \in 0..Throttle /\ 0 \in 0..MaxCommands
      BY <1>1
    <2> QED BY <1>1, <2>1 DEF MessagesInit
  <1> QED BY <1>1, <1>2, <1>3, <1>4, <1>5 DEF WordTypes

LEMMA Balance ==
  ASSUME NEW v \in Nat, NEW w \in Nat, NEW l \in Nat, NEW m \in Nat, NEW b \in Nat, NEW n \in Nat,
         NEW s \in Nat, NEW t \in {0, 1}, w + n <= v + b + t, v + l + b <= s, m = l - t
  PROVE  w + m + n <= s
  OBVIOUS

LEMMA CommandTypes ==
  ASSUME WordTypes, NEW c \in Peers, NEW command \in AnyCommandSent, SendCommand(c, command),
         callOf' \in [Peers -> Rooms],
         wordsSaid' = wordsSaid \/ (c \in Speakers /\ wordsSaid' = [wordsSaid EXCEPT ![c] = @ + 1])
  PROVE  WordTypes'
  <1>1. /\ commandsSent' = [commandsSent EXCEPT ![c] = @ + 1] /\ commandsSent[c] < MaxCommands
        /\ waiting' = [waiting EXCEPT ![c] = Append(@, command)] /\ Len(waiting[c]) < MaxWaiting
        /\ UNCHANGED <<post, wordsHeard, joining, roomOf, sinceTaken, visit, wordsTaken, sinceSent, unsent>>
    BY DEF SendCommand, serviceVars
  <1>2. /\ waiting \in [Peers -> Seq(AnyCommandSent)]
        /\ Speakers \subseteq Peers /\ MaxCommands \in Nat /\ MaxWaiting \in Nat
    BY RoomMessagesAssumption DEF WordTypes
  <1>3. /\ Append(waiting[c], command) \in Seq(AnyCommandSent)
        /\ Len(Append(waiting[c], command)) = Len(waiting[c]) + 1 /\ Len(waiting[c]) \in Nat
    BY <1>2, OneMore
  <1>4. /\ waiting' \in [Peers -> Seq(AnyCommandSent)]
        /\ \A d \in Peers : Len(waiting'[d]) = IF d = c THEN Len(waiting[d]) + 1 ELSE Len(waiting[d])
    BY <1>1, <1>2, <1>3
  <1>5. /\ commandsSent' \in [Peers -> 0..MaxCommands]
        /\ \A d \in Peers : commandsSent'[d] = IF d = c THEN commandsSent[d] + 1 ELSE commandsSent[d]
    BY <1>1, <1>2 DEF WordTypes
  <1>6. /\ wordsSaid' \in [Speakers -> Nat]
        /\ \A d \in Speakers : wordsSaid'[d] \in {wordsSaid[d], wordsSaid[d] + 1} /\ wordsSaid[d] \in Nat
        /\ \A d \in Speakers : d # c => wordsSaid'[d] = wordsSaid[d]
    <2>1. wordsSaid \in [Speakers -> Nat]
      BY DEF WordTypes
    <2>2. CASE wordsSaid' = wordsSaid
      BY <2>1, <2>2
    <2>3. CASE c \in Speakers /\ wordsSaid' = [wordsSaid EXCEPT ![c] = @ + 1]
      <3>1. \A d \in Speakers : wordsSaid'[d] = IF d = c THEN wordsSaid[d] + 1 ELSE wordsSaid[d]
        BY <2>1, <2>3
      <3> QED BY <2>1, <2>3, <3>1
    <2> QED BY <2>2, <2>3
  <1>7. ASSUME NEW d \in Peers PROVE Accounted(d)'
    <2>1. Accounted(d) /\ visit[d] \in Nat /\ commandsSent[d] \in Nat /\ Len(waiting[d]) \in Nat
      BY <1>2, LenProperties DEF WordTypes
    <2>2. visit'[d] = visit[d] /\ joining'[d] = joining[d]
      BY <1>1
    <2> DEFINE busy == IF joining[d] = 0 THEN 0 ELSE 1
    <2>3. /\ busy \in Nat /\ visit[d] + Len(waiting[d]) + busy <= commandsSent[d]
          /\ d \in Speakers => wordsSaid[d] <= commandsSent[d]
      BY <2>1 DEF Accounted
    <2> HIDE DEF busy
    <2>4. visit'[d] + Len(waiting'[d]) + busy <= commandsSent'[d]
      <3>1. CASE d = c
        <4>1. /\ visit'[c] = visit[c] /\ Len(waiting'[c]) = Len(waiting[c]) + 1
              /\ commandsSent'[c] = commandsSent[c] + 1
          BY <1>4, <1>5, <2>2, <3>1
        <4> QED BY <2>1, <2>3, <3>1, <4>1
      <3>2. CASE d # c
        BY <1>4, <1>5, <2>1, <2>2, <2>3, <3>2
      <3> QED BY <3>1, <3>2
    <2>5. d \in Speakers => wordsSaid'[d] <= commandsSent'[d]
      BY <1>5, <1>6, <2>1, <2>3
    <2> QED BY <2>2, <2>4, <2>5 DEF Accounted, busy
  <1>8. \A d \in Peers : Len(waiting'[d]) <= MaxWaiting /\ Len(post'[d]) <= MaxPost
    <2>1. \A d \in Peers : Len(waiting[d]) \in Nat /\ Len(waiting[d]) <= MaxWaiting
      BY <1>2, LenProperties DEF WordTypes
    <2> QED BY <1>1, <1>2, <1>4, <2>1 DEF WordTypes
  <1>9. /\ post' \in [Peers -> Seq(AnyDataSent)] /\ joining' \in [Peers -> Rooms]
        /\ roomOf' \in [Peers -> Rooms] /\ sinceTaken' \in [Peers -> 0..Throttle]
        /\ sinceSent' \in [Peers -> 0..Throttle] /\ visit' \in [Peers -> Nat]
        /\ wordsTaken' \in [Speakers -> 0..MaxCommands]
        /\ wordsHeard' \in [Peers -> [Speakers -> 0..MaxCommands]] /\ unsent' \in BOOLEAN
    BY <1>1, <1>2 DEF WordTypes, WordTypes
  <1> QED BY <1>4, <1>5, <1>6, <1>7, <1>8, <1>9 DEF WordTypes

Busy(c) == IF joining[c] = 0 THEN 0 ELSE 1

\* What a step of the service of c does to its count of visits, when it takes n commands.
Spends(c, n) == visit'[c] + Busy(c)' <= visit[c] + Busy(c) + n

\* A command is taken, or not, and perhaps handed to the others in the room.
Served(c, taken) ==
    /\ taken = 0 => waiting' = waiting
    /\ taken = 1 => waiting[c] # <<>> /\ waiting' = [waiting EXCEPT ![c] = Tail(@)]
    /\ UNCHANGED <<callOf, commandsSent, wordsSaid>>
    /\ joining' \in [Peers -> Rooms] /\ roomOf' \in [Peers -> Rooms]
    /\ sinceTaken' \in [Peers -> 0..Throttle] /\ sinceSent' \in [Peers -> 0..Throttle]
    /\ visit' \in [Peers -> Nat] /\ unsent' \in BOOLEAN
    /\ \A d \in Peers \ {c} : visit'[d] = visit[d] /\ joining'[d] = joining[d]
    /\ Spends(c, taken)
    /\ wordsTaken' \in [Speakers -> 0..MaxCommands]
    /\ wordsHeard' \in [Peers -> [Speakers -> 0..MaxCommands]]
    /\ post' \in [Peers -> Seq(AnyDataSent)] /\ \A d \in Peers : Len(post'[d]) <= MaxPost

LEMMA ServiceTypes ==
  ASSUME WordTypes, NEW c \in Peers, NEW taken \in {0, 1}, Served(c, taken)
  PROVE  WordTypes'
  <1> USE DEF Served
  <1>1. /\ waiting \in [Peers -> Seq(AnyCommandSent)]
        /\ Speakers \subseteq Peers /\ MaxCommands \in Nat /\ MaxWaiting \in Nat
    BY RoomMessagesAssumption DEF WordTypes
  <1>2. /\ waiting' \in [Peers -> Seq(AnyCommandSent)]
        /\ \A d \in Peers : /\ Len(waiting[d]) \in Nat /\ Len(waiting'[d]) \in Nat
                            /\ Len(waiting'[d]) = IF d = c THEN Len(waiting[d]) - taken ELSE Len(waiting[d])
    <2>1. CASE taken = 0
      BY <1>1, <2>1, LenProperties
    <2>2. CASE taken = 1
      <3>1. /\ Tail(waiting[c]) \in Seq(AnyCommandSent) /\ Len(Tail(waiting[c])) = Len(waiting[c]) - 1
            /\ Len(waiting[c]) \in Nat \ {0}
        BY <1>1, <2>2, OneLess
      <3>2. \A d \in Peers : Len(waiting[d]) \in Nat
        BY <1>1, LenProperties
      <3>3. \A d \in Peers : waiting'[d] = IF d = c THEN Tail(waiting[c]) ELSE waiting[d]
        BY <1>1, <2>2
      <3>4. waiting' \in [Peers -> Seq(AnyCommandSent)]
        BY <1>1, <2>2, <3>1
      <3> QED BY <2>2, <3>1, <3>2, <3>3, <3>4
    <2> QED BY <2>1, <2>2
  <1>3. ASSUME NEW d \in Peers PROVE Accounted(d)'
    <2>1. /\ Accounted(d) /\ visit[d] \in Nat /\ visit'[d] \in Nat /\ commandsSent[d] \in Nat
          /\ commandsSent' = commandsSent /\ wordsSaid' = wordsSaid
      BY <1>1 DEF WordTypes
    <2>2. CASE d = c
      <3> DEFINE busy == Busy(c)
                 next == Busy(c)'
      <3>1. /\ busy \in Nat /\ next \in Nat /\ visit'[c] + next <= visit[c] + busy + taken
            /\ visit[c] + Len(waiting[c]) + busy <= commandsSent[c]
            /\ Len(waiting'[c]) = Len(waiting[c]) - taken
        BY <1>2, <2>1, <2>2 DEF Accounted, Busy, Spends
      <3> HIDE DEF busy, next
      <3>2. /\ visit[c] \in Nat /\ visit'[c] \in Nat /\ commandsSent[c] \in Nat
            /\ Len(waiting[c]) \in Nat /\ Len(waiting'[c]) \in Nat
        BY <1>2, <2>1, <2>2
      <3>3. visit'[c] + Len(waiting'[c]) + next <= commandsSent[c]
        <4> DEFINE v == visit[c]
                   w == visit'[c]
                   l == Len(waiting[c])
                   m == Len(waiting'[c])
                   s == commandsSent[c]
        <4>1. /\ v \in Nat /\ w \in Nat /\ l \in Nat /\ m \in Nat /\ s \in Nat /\ busy \in Nat /\ next \in Nat
              /\ w + next <= v + busy + taken /\ v + l + busy <= s /\ m = l - taken
          BY <3>1, <3>2
        <4> HIDE DEF v, w, l, m, s
        <4>2. w + m + next <= s
          BY <4>1, Balance
        <4> QED BY <4>2 DEF v, w, l, m, s
      <3> QED BY <2>1, <2>2, <3>3 DEF Accounted, next, Busy
    <2>3. CASE d # c
      BY <1>2, <2>1, <2>3 DEF Accounted
    <2> QED BY <2>2, <2>3
  <1>4. \A d \in Peers : Len(waiting'[d]) <= MaxWaiting
    <2> SUFFICES ASSUME NEW d \in Peers PROVE Len(waiting'[d]) <= MaxWaiting
      OBVIOUS
    <2>1. Len(waiting[d]) <= MaxWaiting /\ MaxWaiting \in Nat
      BY <1>1 DEF WordTypes
    <2>2. /\ Len(waiting[d]) \in Nat /\ Len(waiting'[d]) \in Nat
          /\ Len(waiting'[d]) <= Len(waiting[d])
      BY <1>2
    <2> QED BY <2>1, <2>2
  <1>5. /\ callOf' \in [Peers -> Rooms] /\ commandsSent' \in [Peers -> 0..MaxCommands]
        /\ wordsSaid' \in [Speakers -> Nat]
    BY <1>1 DEF WordTypes
  <1> QED BY <1>2, <1>3, <1>4, <1>5 DEF WordTypes

\* What is handed on is a message of the command's kind, and there is room for it.
LEMMA PublishDataTypes ==
  ASSUME WordTypes, NEW c \in Speakers, NEW command \in AnyCommandSent, command.what \in MessageKinds,
         PublishData(c, command)
  PROVE  post' \in [Peers -> Seq(AnyDataSent)] /\ \A d \in Peers : Len(post'[d]) <= MaxPost
  <1> DEFINE data(d) == [command |-> command, from |-> c, sent |-> visit[c], got |-> visit[d],
                         room |-> roomOf[c]]
  <1>1. /\ c \in Peers /\ MaxPost \in Nat /\ post \in [Peers -> Seq(AnyDataSent)]
    BY RoomMessagesAssumption DEF WordTypes
  <1>2. /\ \A d \in Peers : Together(c, d) => Len(post[d]) < MaxPost
        /\ post' = [d \in Peers |-> IF Together(c, d) THEN Append(post[d], data(d)) ELSE post[d]]
    BY DEF PublishData
  <1>3. \A d \in Peers : data(d) \in AnyDataSent
    <2>1. visit[c] \in Nat /\ roomOf[c] \in Rooms /\ \A d \in Peers : visit[d] \in Nat
      BY <1>1 DEF WordTypes
    <2> QED BY <2>1 DEF AnyDataSent
  <1> HIDE DEF data
  <1>4. ASSUME NEW d \in Peers PROVE post'[d] \in Seq(AnyDataSent) /\ Len(post'[d]) <= MaxPost
    <2>1. post[d] \in Seq(AnyDataSent) /\ Len(post[d]) <= MaxPost /\ Len(post[d]) \in Nat
      BY <1>1, LenProperties DEF WordTypes
    <2>2. Append(post[d], data(d)) \in Seq(AnyDataSent) /\ Len(Append(post[d], data(d))) = Len(post[d]) + 1
      BY <1>3, <2>1, OneMore
    <2> QED BY <1>1, <1>2, <2>1, <2>2
  <1> QED BY <1>2, <1>4

LEMMA WordTypesStep == WordTypes /\ [MessagesNext]_messageVars => WordTypes'
  <1> SUFFICES ASSUME WordTypes, [MessagesNext]_messageVars PROVE WordTypes'
    OBVIOUS
  <1>0. /\ Speakers \subseteq Peers /\ MaxCommands \in Nat /\ Throttle \in Nat \ {0} /\ 0 \in Rooms
        /\ RoomIds \subseteq Rooms /\ 0 \in 0..MaxCommands /\ 0 \in 0..Throttle
        /\ \A c \in RoomIds : c # 0
    BY RoomMessagesAssumption DEF Rooms
  <1>1. /\ callOf \in [Peers -> Rooms] /\ joining \in [Peers -> Rooms] /\ roomOf \in [Peers -> Rooms]
        /\ waiting \in [Peers -> Seq(AnyCommandSent)] /\ post \in [Peers -> Seq(AnyDataSent)]
        /\ \A c \in Peers : Len(post[c]) <= MaxPost
        /\ sinceTaken \in [Peers -> 0..Throttle] /\ sinceSent \in [Peers -> 0..Throttle]
        /\ visit \in [Peers -> Nat] /\ wordsTaken \in [Speakers -> 0..MaxCommands]
        /\ wordsHeard \in [Peers -> [Speakers -> 0..MaxCommands]] /\ unsent \in BOOLEAN
        /\ wordsSaid \in [Speakers -> Nat] /\ commandsSent \in [Peers -> 0..MaxCommands]
        /\ \A c \in Peers : c \in Speakers => wordsSaid[c] <= commandsSent[c]
    BY DEF WordTypes, Accounted
  <1>2. \A what \in CommandKinds, r \in Rooms, n \in 0..MaxCommands :
          Command(what, r, n) \in AnyCommandSent
    BY DEF Command, AnyCommandSent
  <1>3. ASSUME NEW c \in Peers, NEW r \in RoomIds, CreateRoom(c, r) PROVE WordTypes'
    <2>1. /\ SendCommand(c, Command("create", r, 0)) /\ wordsSaid' = wordsSaid
          /\ callOf' \in [Peers -> Rooms]
      BY <1>0, <1>1, <1>3 DEF CreateRoom
    <2>2. Command("create", r, 0) \in AnyCommandSent
      BY <1>0, <1>2 DEF CommandKinds
    <2> QED BY <2>1, <2>2, CommandTypes
  <1>4. ASSUME NEW c \in Peers, LeaveCall(c) PROVE WordTypes'
    <2>1. /\ SendCommand(c, Command("destroy", 0, 0)) /\ wordsSaid' = wordsSaid
          /\ callOf' \in [Peers -> Rooms]
      BY <1>0, <1>1, <1>4 DEF LeaveCall
    <2>2. Command("destroy", 0, 0) \in AnyCommandSent
      BY <1>0, <1>2 DEF CommandKinds
    <2> QED BY <2>1, <2>2, CommandTypes
  <1>5. ASSUME NEW c \in Speakers, PublishWord(c) PROVE WordTypes'
    <2>1. /\ SendCommand(c, Command("word", callOf[c], wordsSaid[c] + 1)) /\ callOf' = callOf
          /\ wordsSaid' = [wordsSaid EXCEPT ![c] = @ + 1] /\ c \in Peers
      BY <1>0, <1>5 DEF PublishWord
    <2>2. wordsSaid[c] + 1 \in 0..MaxCommands /\ callOf[c] \in Rooms
      <3>1. commandsSent[c] < MaxCommands /\ commandsSent[c] \in Nat /\ wordsSaid[c] \in Nat
            /\ wordsSaid[c] <= commandsSent[c] /\ callOf[c] \in Rooms
        BY <1>0, <1>1, <2>1 DEF SendCommand
      <3> QED BY <1>0, <3>1
    <2>3. Command("word", callOf[c], wordsSaid[c] + 1) \in AnyCommandSent
      BY <1>2, <2>2 DEF CommandKinds
    <2> QED BY <1>1, <2>1, <2>3, CommandTypes
  <1>6. ASSUME NEW c \in Speakers, PublishPosition(c) PROVE WordTypes'
    <2>1. /\ SendCommand(c, Command("position", callOf[c], 0)) /\ UNCHANGED <<callOf, wordsSaid>>
          /\ c \in Peers
      BY <1>0, <1>6 DEF PublishPosition
    <2>2. Command("position", callOf[c], 0) \in AnyCommandSent
      BY <1>0, <1>1, <1>2, <2>1 DEF CommandKinds
    <2> QED BY <1>1, <2>1, <2>2, CommandTypes
  <1>7. ASSUME NEW c \in Peers, NEW what, TakesNext(c, what)
        PROVE  /\ waiting[c] # <<>> /\ waiting' = [waiting EXCEPT ![c] = Tail(@)] /\ joining[c] = 0
               /\ UNCHANGED <<callOf, commandsSent, wordsSaid>>
               /\ Foremost(c) \in AnyCommandSent /\ Foremost(c).what = what
    BY <1>1, <1>7, OneLess DEF TakesNext, appVars, Foremost
  <1>8. ASSUME NEW c \in Peers, StartsConnecting(c) PROVE WordTypes'
    <2>1. /\ TakesNext(c, "create") /\ roomOf' = [roomOf EXCEPT ![c] = 0]
          /\ joining' = [joining EXCEPT ![c] = Foremost(c).room]
          /\ UNCHANGED <<sinceTaken, visit, wordsTaken, sinceSent, unsent, post, wordsHeard>>
      BY <1>8 DEF StartsConnecting, ClearedRoom
    <2>2. Foremost(c).room \in Rooms
      BY <1>7, <2>1 DEF AnyCommandSent
    <2>3. /\ roomOf' \in [Peers -> Rooms] /\ joining' \in [Peers -> Rooms]
          /\ \A d \in Peers \ {c} : joining'[d] = joining[d]
      BY <1>0, <1>1, <2>1, <2>2
    <2>4. /\ visit[c] \in Nat /\ joining[c] = 0
          /\ (IF joining'[c] = 0 THEN 0 ELSE 1) \in {0, 1}
      BY <1>1, <1>7, <2>1
    <2>5. Spends(c, 1)
      BY <2>1, <2>4 DEF Busy, Spends
    <2>9. Served(c, 1)
      BY <1>1, <1>7, <2>1, <2>3, <2>5 DEF Served
    <2> QED BY <2>9, ServiceTypes
  <1>9. ASSUME NEW c \in Peers, Connects(c) PROVE WordTypes'
    <2>1. /\ joining[c] # 0 /\ roomOf' = [roomOf EXCEPT ![c] = joining[c]]
          /\ joining' = [joining EXCEPT ![c] = 0] /\ visit' = [visit EXCEPT ![c] = @ + 1]
          /\ wordsHeard' = [d \in Peers |-> [s \in Speakers |->
                              IF c \in {d, s} THEN wordsTaken[s] ELSE wordsHeard[d][s]]]
          /\ UNCHANGED <<callOf, commandsSent, wordsSaid, waiting, sinceTaken, wordsTaken, sinceSent,
                         unsent, post>>
      BY <1>9 DEF Connects, appVars
    <2>2. /\ roomOf' \in [Peers -> Rooms] /\ joining' \in [Peers -> Rooms]
          /\ visit' \in [Peers -> Nat] /\ joining'[c] = 0 /\ visit'[c] = visit[c] + 1 /\ visit[c] \in Nat
          /\ \A d \in Peers \ {c} : visit'[d] = visit[d] /\ joining'[d] = joining[d]
      BY <1>0, <1>1, <2>1
    <2>3. wordsHeard' \in [Peers -> [Speakers -> 0..MaxCommands]]
      BY <1>1, <2>1
    <2>4. Spends(c, 0)
      BY <2>1, <2>2 DEF Busy, Spends
    <2>9. Served(c, 0)
      BY <1>1, <2>1, <2>2, <2>3, <2>4 DEF Served
    <2> QED BY <2>9, ServiceTypes
  <1>10. ASSUME NEW c \in Peers, ConnectFails(c) PROVE WordTypes'
    <2>1. /\ joining' = [joining EXCEPT ![c] = 0]
          /\ UNCHANGED <<callOf, commandsSent, wordsSaid, waiting, roomOf, sinceTaken, visit, wordsTaken,
                         sinceSent, unsent, post, wordsHeard>>
      BY <1>10 DEF ConnectFails, appVars
    <2>2. /\ joining' \in [Peers -> Rooms] /\ joining'[c] = 0 /\ visit[c] \in Nat
          /\ \A d \in Peers \ {c} : joining'[d] = joining[d]
          /\ (IF joining[c] = 0 THEN 0 ELSE 1) \in {0, 1}
      BY <1>0, <1>1, <2>1
    <2>3. Spends(c, 0)
      BY <2>1, <2>2 DEF Busy, Spends
    <2>9. Served(c, 0)
      BY <1>1, <2>1, <2>2, <2>3 DEF Served
    <2> QED BY <2>9, ServiceTypes
  <1>11. ASSUME NEW c \in Peers, NEW what, TakesNext(c, what), UNCHANGED <<joining, visit, wordsHeard>>,
                roomOf' \in [Peers -> Rooms], unsent' \in BOOLEAN,
                sinceTaken' \in [Peers -> 0..Throttle], sinceSent' \in [Peers -> 0..Throttle],
                wordsTaken' \in [Speakers -> 0..MaxCommands],
                post' \in [Peers -> Seq(AnyDataSent)], \A d \in Peers : Len(post'[d]) <= MaxPost
         PROVE  WordTypes'
    <2>1. /\ visit[c] \in Nat /\ joining'[c] = 0 /\ joining[c] = 0
      BY <1>1, <1>7, <1>11
    <2>2. Spends(c, 1)
      BY <1>11, <2>1 DEF Busy, Spends
    <2>9. Served(c, 1)
      BY <1>1, <1>7, <1>11, <2>2 DEF Served
    <2> QED BY <2>9, ServiceTypes
  <1>12. ASSUME NEW c \in Peers, DestroysRoom(c) PROVE WordTypes'
    <2>1. /\ TakesNext(c, "destroy") /\ roomOf' = [roomOf EXCEPT ![c] = 0]
          /\ UNCHANGED <<joining, sinceTaken, visit, wordsTaken, sinceSent, unsent, post, wordsHeard>>
      BY <1>12 DEF DestroysRoom
    <2>2. roomOf' \in [Peers -> Rooms]
      BY <1>0, <1>1, <2>1
    <2> QED BY <1>1, <1>11, <2>1, <2>2
  <1>13. ASSUME NEW c \in Speakers, PublishesWord(c) PROVE WordTypes'
    <2>1. /\ c \in Peers /\ TakesNext(c, "word") /\ PublishData(c, Foremost(c))
          /\ wordsTaken' = [wordsTaken EXCEPT ![c] = Foremost(c).n]
          /\ UNCHANGED <<joining, roomOf, sinceTaken, visit, sinceSent, unsent, wordsHeard>>
      BY <1>0, <1>13 DEF PublishesWord
    <2>2. Foremost(c) \in AnyCommandSent /\ Foremost(c).what = "word"
      BY <1>7, <2>1
    <2>3. wordsTaken' \in [Speakers -> 0..MaxCommands]
      BY <1>1, <2>1, <2>2 DEF AnyCommandSent
    <2>4. post' \in [Peers -> Seq(AnyDataSent)] /\ \A d \in Peers : Len(post'[d]) <= MaxPost
      BY <2>1, <2>2, PublishDataTypes DEF MessageKinds
    <2> QED BY <1>1, <1>11, <2>1, <2>3, <2>4
  <1>14. ASSUME NEW c \in Speakers, PublishesCursorPosition(c) PROVE WordTypes'
    <2>1. /\ c \in Peers /\ TakesNext(c, "position")
          /\ UNCHANGED <<joining, roomOf, visit, wordsTaken, wordsHeard>>
      BY <1>0, <1>14 DEF PublishesCursorPosition
    <2>2. Foremost(c) \in AnyCommandSent /\ Foremost(c).what = "position"
      BY <1>7, <2>1
    <2>3. post' \in [Peers -> Seq(AnyDataSent)] /\ \A d \in Peers : Len(post'[d]) <= MaxPost
      <3>1. post' = post \/ PublishData(c, Foremost(c))
        BY <1>14 DEF PublishesCursorPosition
      <3> QED BY <1>1, <2>2, <3>1, PublishDataTypes DEF MessageKinds
    <2>4. /\ sinceTaken' \in [Peers -> 0..Throttle] /\ sinceSent' \in [Peers -> 0..Throttle]
          /\ unsent' \in BOOLEAN
      <3>1. CASE LeavesOut(c) /\ sinceSent' = sinceSent /\ unsent' = (unsent \/ (roomOf[c] # 0 /\ sinceSent[c] >= Throttle))
        BY <1>1, <3>1 DEF LeavesOut
      <3>2. CASE /\ sinceTaken' = [sinceTaken EXCEPT ![c] = 0] /\ unsent' = unsent
                 /\ sinceSent' = [sinceSent EXCEPT ![c] = IF roomOf[c] # 0 THEN 0 ELSE @]
        <4>1. sinceTaken' \in [Peers -> 0..Throttle]
          BY <1>0, <1>1, <3>2
        <4>2. (IF roomOf[c] # 0 THEN 0 ELSE sinceSent[c]) \in 0..Throttle
          BY <1>0, <1>1, <2>1
        <4>3. sinceSent' \in [Peers -> 0..Throttle]
          BY <1>0, <1>1, <3>2, <4>2
        <4> QED BY <1>1, <3>2, <4>1, <4>3
      <3> QED BY <1>14, <3>1, <3>2 DEF PublishesCursorPosition
    <2> QED BY <1>1, <1>11, <2>1, <2>3, <2>4
  <1>15. ASSUME NEW d \in Peers, DataReceived(d) PROVE WordTypes'
    <2> DEFINE data == Head(post[d])
    <2>1. /\ post[d] # <<>> /\ post' = [post EXCEPT ![d] = Tail(@)]
          /\ wordsHeard' \in {wordsHeard, [wordsHeard EXCEPT ![d][data.from] = data.command.n]}
          /\ UNCHANGED <<callOf, commandsSent, wordsSaid, waiting, joining, roomOf, sinceTaken, visit,
                         wordsTaken, sinceSent, unsent>>
      BY <1>15 DEF DataReceived, appVars, serviceVars
    <2>2. /\ data \in AnyDataSent /\ Tail(post[d]) \in Seq(AnyDataSent)
          /\ Len(Tail(post[d])) = Len(post[d]) - 1 /\ Len(post[d]) \in Nat \ {0}
      BY <1>1, <2>1, OneLess
    <2>3. data.from \in Speakers /\ data.command.n \in 0..MaxCommands
      BY <2>2 DEF AnyDataSent, AnyCommandSent
    <2>4. wordsHeard' \in [Peers -> [Speakers -> 0..MaxCommands]]
      <3> DEFINE p == data.from
                 n == data.command.n
      <3> HIDE DEF p, n
      <3>1. [wordsHeard EXCEPT ![d][p] = n] = [wordsHeard EXCEPT ![d] = [wordsHeard[d] EXCEPT ![p] = n]]
        OBVIOUS
      <3>2. p \in Speakers /\ n \in 0..MaxCommands
        BY <2>3 DEF p, n
      <3>3. [wordsHeard[d] EXCEPT ![p] = n] \in [Speakers -> 0..MaxCommands]
        BY <1>1, <3>2
      <3>4. [wordsHeard EXCEPT ![d][p] = n] \in [Peers -> [Speakers -> 0..MaxCommands]]
        BY <1>1, <3>1, <3>3
      <3> QED BY <1>1, <2>1, <3>4 DEF p, n
    <2>5. post' \in [Peers -> Seq(AnyDataSent)] /\ \A e \in Peers : Len(post'[e]) <= MaxPost
      <3>1. \A e \in Peers : Len(post[e]) \in Nat /\ Len(post[e]) <= MaxPost /\ MaxPost \in Nat
        BY <1>1, LenProperties, RoomMessagesAssumption
      <3>2. \A e \in Peers : post'[e] = IF e = d THEN Tail(post[d]) ELSE post[e]
        BY <1>1, <2>1
      <3> QED BY <1>1, <2>1, <2>2, <3>1, <3>2
    <2>6. visit[d] \in Nat /\ (IF joining[d] = 0 THEN 0 ELSE 1) \in {0, 1}
      BY <1>1
    <2>7. Spends(d, 0)
      BY <2>1, <2>6 DEF Busy, Spends
    <2>9. Served(d, 0)
      BY <1>1, <2>1, <2>4, <2>5, <2>7 DEF Served
    <2> QED BY <2>9, ServiceTypes
  <1>16. CASE TimePasses
    <2>1. UNCHANGED <<callOf, commandsSent, wordsSaid, waiting, joining, roomOf, visit, wordsTaken, unsent,
                      post, wordsHeard>>
      BY <1>16 DEF TimePasses, appVars
    <2>2. sinceTaken' \in [Peers -> 0..Throttle] /\ sinceSent' \in [Peers -> 0..Throttle]
      <3>1. ASSUME NEW ages \in [Peers -> 0..Throttle] PROVE Older(ages) \in [Peers -> 0..Throttle]
        <4>1. \A c \in Peers : (IF ages[c] < Throttle THEN ages[c] + 1 ELSE Throttle) \in 0..Throttle
          BY <1>0
        <4> QED BY <4>1 DEF Older
      <3> QED BY <1>1, <1>16, <3>1 DEF TimePasses
    <2> QED BY <2>1, <2>2 DEF WordTypes, Accounted
  <1>17. CASE UNCHANGED messageVars
    BY <1>17 DEF messageVars, appVars, serviceVars, WordTypes, Accounted
  <1> QED BY <1>3, <1>4, <1>5, <1>6, <1>8, <1>9, <1>10, <1>12, <1>13, <1>14, <1>15, <1>16, <1>17
          DEF MessagesNext

--------------------------------------------------------------------------------
(* Types: texts. *)

TextTypes ==
    /\ host \in Sides \cup {NoSide} /\ obeys \in BOOLEAN
    /\ requests \in 0..MaxRequests /\ turns \in 0..MaxTurns

LEMMA TextTypesBegin == ClipboardInit => TextTypes
  BY ClipboardAssumption DEF ClipboardInit, TextTypes

LEMMA TextTypesStep == TextTypes /\ [ClipboardNext]_clipboardVars => TextTypes'
  <1> SUFFICES ASSUME TextTypes, [ClipboardNext]_clipboardVars PROVE TextTypes'
    OBVIOUS
  <1>0. MaxRequests \in Nat /\ MaxTurns \in Nat
    BY ClipboardAssumption
  <1>1. ASSUME NEW s \in Sides, AskForCopy(s) \/ AskForPaste(s) PROVE TextTypes'
    BY <1>0, <1>1 DEF AskForCopy, AskForPaste, Asks, TextTypes
  <1>2. ASSUME NEW s \in Sides, PasteFromClipboard(s) \/ NoRemoteControlToAsk(s) \/ SetClipboard(s)
        PROVE  TextTypes'
    BY <1>2 DEF PasteFromClipboard, NoRemoteControlToAsk, SetClipboard, Receives, TextTypes
  <1>3. ASSUME NEW s \in Sides, NEW n, CopyHere(s, n) \/ AddToClipboard(s, n) PROVE TextTypes'
    BY <1>3 DEF CopyHere, AddToClipboard, Receives, TextTypes
  <1>4. CASE ObeysChanges
    BY <1>0, <1>4 DEF ObeysChanges, TextTypes
  <1>6. ASSUME NEW s \in Sides \cup {NoSide}, TurnChanges(s) PROVE TextTypes'
    BY <1>0, <1>6 DEF TurnChanges, TextTypes
  <1>5. CASE UNCHANGED clipboardVars
    BY <1>5 DEF clipboardVars, counts, TextTypes
  <1> QED BY <1>1, <1>2, <1>3, <1>4, <1>5, <1>6 DEF ClipboardNext

LEMMA TextTypesOK == TextTypes /\ ClipboardInv => ClipboardTypeOK
  <1> SUFFICES ASSUME TextTypes, ClipboardInv, NEW s \in Sides
               PROVE  /\ \A i \in DOMAIN clipboard[s] : clipboard[s][i].text \in 1..MaxTexts
                      /\ \A i \in DOMAIN payload[s] : payload[s][i].text \in 1..MaxTexts
                      /\ \A i \in DOMAIN arriving[s] : arriving[s][i].kind \in {"copy", "paste", "data"}
    BY DEF TextTypes, ClipboardInv, ClipboardTypes, ClipboardTypeOK
  <1>1. /\ clipboard[s] \in Seq(RealPiece) /\ payload[s] \in Seq(RealPiece) /\ arriving[s] \in Seq(AnyPacket)
    BY DEF ClipboardInv, ClipboardTypes
  <1>2. /\ \A i \in DOMAIN clipboard[s] : clipboard[s][i] \in RealPiece
        /\ \A i \in DOMAIN payload[s] : payload[s][i] \in RealPiece
        /\ \A i \in DOMAIN arriving[s] : arriving[s][i] \in AnyPacket
    BY <1>1, ElementOfSeq, LenProperties
  <1> QED BY <1>2 DEF RealPiece, AnyPacket

--------------------------------------------------------------------------------
(* All of them. *)

\* The parts share no state, and a part that rests keeps what it holds.
BetweenInv ==
    /\ ShareInv /\ InputInv /\ InputTypes /\ DrawingInv /\ WireTypes
    /\ MessagesInv /\ WordTypes /\ ClipboardInv /\ TextTypes

LEMMA BetweenInitInv == BetweenInit => BetweenInv
  BY ShareInitInv, InputInitInv, InputTypesBegin, DrawingInitInv, WireTypesBegin, MessagesInitInv,
     WordTypesBegin, ClipboardInitInv, TextTypesBegin DEF BetweenInit, BetweenInv

LEMMA BetweenNextInv == BetweenInv /\ [BetweenNext]_betweenVars => BetweenInv'
  <1> SUFFICES ASSUME BetweenInv, [BetweenNext]_betweenVars PROVE BetweenInv'
    OBVIOUS
  <1>1. /\ ShareInv /\ InputInv /\ InputTypes /\ DrawingInv /\ WireTypes
        /\ MessagesInv /\ WordTypes /\ ClipboardInv /\ TextTypes
    BY DEF BetweenInv
  <1>2. /\ [ShareNext]_sharingVars /\ [InputNext]_inputVars /\ [DrawingNext]_drawingVars
        /\ [MessagesNext]_messageVars /\ [ClipboardNext]_clipboardVars
    <2>1. UNCHANGED sharedVars => UNCHANGED inputVars /\ UNCHANGED drawingVars /\ UNCHANGED clipboardVars
      BY DEF sharedVars
    <2>2. UNCHANGED betweenVars => UNCHANGED sharingVars /\ UNCHANGED sharedVars /\ UNCHANGED messageVars
      BY DEF betweenVars
    <2> QED BY <2>1, <2>2 DEF BetweenNext, SharedNext
  <1>3. ShareInv' /\ InputInv' /\ DrawingInv' /\ MessagesInv' /\ ClipboardInv'
    BY <1>1, <1>2, ShareNextInv, InputNextInv, DrawingNextInv, MessagesNextInv, ClipboardNextInv
  <1>4. InputTypes' /\ WireTypes' /\ WordTypes' /\ TextTypes'
    BY <1>1, <1>2, InputTypesStep, WireTypesStep, WordTypesStep, TextTypesStep
  <1> QED BY <1>3, <1>4 DEF BetweenInv

LEMMA BetweenInvTypes == BetweenInv => BetweenTypeOK
  <1> SUFFICES ASSUME BetweenInv PROVE BetweenTypeOK
    OBVIOUS
  <1>1. ShareTypeOK
    BY DEF BetweenInv, ShareInv
  <1>2. InputTypeOK /\ DrawingTypeOK
    BY DEF BetweenInv, InputTypes, WireTypes
  <1>3. MessagesTypeOK /\ ClipboardTypeOK
    BY WordTypesOK, TextTypesOK DEF BetweenInv
  <1> QED BY <1>1, <1>2, <1>3 DEF BetweenTypeOK

\* Whichever part runs, every variable of the cores of a call has its type.
THEOREM BetweenTypesCorrect == BetweenSpec => []BetweenTypeOK
  <1> QED BY BetweenInitInv, BetweenNextInv, BetweenInvTypes, PTL DEF BetweenSpec
==================================================================================
