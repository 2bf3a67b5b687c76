-------------------------------- MODULE ShareRoom --------------------------------
(***************************************************************************)
(* Screen sharing between the core processes of one room                   *)
(* (core/src/lib.rs, core/src/room_service.rs).  Each core has an event    *)
(* loop that starts and stops its own share and opens and closes the       *)
(* window of a remote one, a room service task that mutes and unmutes its  *)
(* screen share track, and a task that handles the room's events.          *)
(*                                                                         *)
(* A participant's audio and video identities are one here.  How a core    *)
(* captures is ScreenCapture's subject: here a share starts, fails to      *)
(* start or ends by itself.  LiveKit is external: it takes a track's state *)
(* and tells all others, in one order, of every change.                    *)
(***************************************************************************)
EXTENDS Naturals, Sequences, FiniteSets

CONSTANTS
    Core,           \* the participants, each a core process
    Latecomers,     \* those who are not in the room at the start
    None,           \* no participant
    MaxWishes         \* bound: shares, stops and hang-ups the users ask for

ASSUME CoreAssumption ==
    /\ IsFiniteSet(Core) /\ Latecomers \subseteq Core /\ None \notin Core
    /\ MaxWishes \in Nat

VARIABLES
    call,           \* "before", "in" or "after" the call, per core
    capturing,      \* the capturer has an active stream
    track,          \* LiveKit's state of the screen share track: live or not
    commands,       \* the room service's commands
    events,         \* room events that handle_room_events has not taken
    publisher,      \* remote_screen_share.publisher_identity
    sharers,        \* who the participants map says is sharing, oneself included
    ui,             \* the event loop's user events
    window,         \* the screensharing window: "none", "hidden" or "visible"
    active,         \* screensharing_active
    wishes          \* wishes made

livekit == <<call, track, events>>
local == <<capturing, commands, ui>>
remote == <<publisher, sharers, window, active>>
sharingVars == <<livekit, local, remote, wishes>>

InCall(p) == call[p] = "in"
Live == {p \in Core : track[p]}

Notice(type, p) == [type |-> type, from |-> p]
Post(queues, p, e) == [queues EXCEPT ![p] = Append(@, e)]
Took(queues, p) == [queues EXCEPT ![p] = Tail(@)]

\* Mutant of Told: those who have not joined yet are told, too.
ToldToAll(p, news) == [q \in Core |-> IF q # p THEN events[q] \o news ELSE events[q]]

\* What LiveKit tells everyone else in the room of a change to p.
Told(p, news) ==
    [q \in Core |-> IF q # p /\ InCall(q) THEN events[q] \o news ELSE events[q]]

--------------------------------------------------------------------------------
(* The users, from the application or the camera window. *)

Ask(p, what) ==
    /\ InCall(p) /\ wishes < MaxWishes
    /\ wishes' = wishes + 1
    /\ ui' = Post(ui, p, Notice(what, p))
    /\ UNCHANGED <<livekit, capturing, commands, remote>>

\* A display or window is picked, also while one is shared already.
AskShare(p) == Ask(p, "share")

\* The button and the shortcut stop one's own share.
AskStop(p) == p \in sharers[p] /\ Ask(p, "stop")
AskEnd(p) == Ask(p, "callEnd")

\* The system ends the capture: poll_stream asks for the stop.
CaptureEnds(p) == capturing[p] /\ Ask(p, "stop")

--------------------------------------------------------------------------------
(* The event loop. *)

LoopTakes(p, type) == ui[p] # <<>> /\ Head(ui[p]).type = type

\* close_screensharing_window: it is hidden, if there is one.
Hidden(w) == IF w = "visible" THEN "hidden" ELSE w

\* stop_screenshare and what follows it in a handler: the track's next command, if
\* any, and whether the core counts as sharing or watching in the end.
StopScreenshare(p, next, on) ==
    /\ commands' = [commands EXCEPT ![p] = @ \o (<<"mute">> \o next)]
    /\ capturing' = [capturing EXCEPT ![p] = next = <<"unmute">>]
    /\ sharers' = [sharers EXCEPT ![p] = IF next = <<"unmute">> THEN @ \cup {p} ELSE @ \ {p}]
    /\ active' = [active EXCEPT ![p] = on]

\* UserEvent::ScreenShare: what the core shares or watches ends first.  The room has
\* the buffer source to capture into until clear() takes it.
Share(p) ==
    /\ LoopTakes(p, "share") /\ InCall(p)
    /\ ui' = Took(ui, p)
    /\ StopScreenshare(p, <<"unmute">>, TRUE)
    /\ window' = [window EXCEPT ![p] = Hidden(@)]
    /\ UNCHANGED <<livekit, publisher, wishes>>

\* No source, no stream, no extent or no overlay.
ShareFails(p) ==
    /\ LoopTakes(p, "share")
    /\ ui' = Took(ui, p)
    /\ StopScreenshare(p, <<>>, FALSE)
    /\ window' = [window EXCEPT ![p] = Hidden(@)]
    /\ UNCHANGED <<livekit, publisher, wishes>>

\* UserEvent::StopScreenShare.
StopShare(p) ==
    /\ LoopTakes(p, "stop")
    /\ ui' = Took(ui, p)
    /\ StopScreenshare(p, <<>>, FALSE)
    /\ UNCHANGED <<livekit, publisher, window, wishes>>

\* Mutant of StopOwn: the own share goes on when another one starts.
KeepOwn(p) ==
    /\ active' = [active EXCEPT ![p] = TRUE]
    /\ UNCHANGED <<commands, capturing, sharers>>

StopOwn(p) == StopScreenshare(p, <<>>, TRUE)

\* UserEvent::OpenScreenShareWindow: someone else shares, so one's own share ends.  A
\* first window may fail to be created.
OpenWindow(p) ==
    /\ LoopTakes(p, "open")
    /\ ui' = Took(ui, p)
    /\ StopOwn(p)
    /\ \E w \in IF window[p] = "none" THEN {"none", "visible"} ELSE {"visible"} :
         window' = [window EXCEPT ![p] = w]
    /\ UNCHANGED <<livekit, publisher, wishes>>

\* UserEvent::CloseScreenShareWindow.
CloseWindow(p) ==
    /\ LoopTakes(p, "close")
    /\ ui' = Took(ui, p)
    /\ window' = [window EXCEPT ![p] = Hidden(@)]
    /\ active' = [active EXCEPT ![p] = FALSE]
    /\ UNCHANGED <<livekit, capturing, commands, publisher, sharers, wishes>>

\* UserEvent::CallEnd, as far as sharing goes.
CallEnd(p) ==
    /\ LoopTakes(p, "callEnd")
    /\ ui' = Took(ui, p)
    /\ commands' = [commands EXCEPT ![p] = @ \o <<"mute", "destroy">>]
    /\ capturing' = [capturing EXCEPT ![p] = FALSE]
    /\ sharers' = [sharers EXCEPT ![p] = @ \ {p}]
    /\ active' = [active EXCEPT ![p] = FALSE]
    /\ window' = [window EXCEPT ![p] = Hidden(@)]
    /\ UNCHANGED <<livekit, publisher, wishes>>

--------------------------------------------------------------------------------
(* The room service's commands, and LiveKit. *)

\* MuteScreenShareTrack and UnmuteScreenShareTrack: a track that is in that state
\* already, or gone with the room, tells nobody.
SetTrack(p) ==
    /\ commands[p] # <<>> /\ Head(commands[p]) \in {"mute", "unmute"}
    /\ LET on == Head(commands[p]) = "unmute" IN
       IF InCall(p) /\ track[p] # on
       THEN /\ track' = [track EXCEPT ![p] = on]
            /\ events' = Told(p, <<Notice(IF on THEN "unmuted" ELSE "muted", p)>>)
       ELSE UNCHANGED <<track, events>>
    /\ commands' = Took(commands, p)
    /\ UNCHANGED <<call, capturing, ui, remote, wishes>>

\* DestroyRoom: clear() forgets the room's share and participants; LiveKit tells the
\* others that the tracks and the participant are gone.  The events that are already
\* here are still handled.
DestroyRoom(p) ==
    /\ commands[p] # <<>> /\ Head(commands[p]) = "destroy"
    /\ commands' = Took(commands, p)
    /\ call' = [call EXCEPT ![p] = "after"]
    /\ track' = [track EXCEPT ![p] = FALSE]
    /\ publisher' = [publisher EXCEPT ![p] = None]
    /\ sharers' = [sharers EXCEPT ![p] = {}]
    /\ events' = IF InCall(p) THEN Told(p, <<Notice("unsubscribed", p), Notice("gone", p)>>)
                 ELSE events
    /\ UNCHANGED <<capturing, ui, window, active, wishes>>

\* A latecomer subscribes to the tracks of the room: of a live one it hears so.
Join(p) ==
    /\ call[p] = "before"
    /\ call' = [call EXCEPT ![p] = "in"]
    /\ \E order \in [1..Cardinality(Live) -> Live] :
         /\ \A q \in Live : \E i \in DOMAIN order : order[i] = q
         /\ events' = [events EXCEPT ![p] = [i \in DOMAIN order |-> Notice("subscribed", order[i])]]
    /\ UNCHANGED <<track, local, remote, wishes>>

--------------------------------------------------------------------------------
(* handle_room_events. *)

TakesEvent(p, type) == events[p] # <<>> /\ Head(events[p]).type = type

\* start_remote_screen_share_stream: whoever shares last is shown.  After clear() there
\* is no participant to mark.
StreamStarts(p, q) ==
    /\ publisher' = [publisher EXCEPT ![p] = q]
    /\ sharers' = [sharers EXCEPT ![p] = IF call[p] = "after" THEN @ ELSE @ \cup {q}]
    /\ ui' = Post(ui, p, Notice("open", q))

\* TrackUnmuted, and TrackSubscribed to a track that is not muted.
ShareUnmuted(p) ==
    /\ TakesEvent(p, "unmuted")
    /\ StreamStarts(p, Head(events[p]).from)
    /\ events' = Took(events, p)
    /\ UNCHANGED <<call, track, capturing, commands, window, active, wishes>>

ShareSubscribed(p) ==
    /\ TakesEvent(p, "subscribed")
    /\ StreamStarts(p, Head(events[p]).from)
    /\ events' = Took(events, p)
    /\ UNCHANGED <<call, track, capturing, commands, window, active, wishes>>

OfCurrent(p, q) == publisher[p] = q

\* Only the end of the share that is shown ends the show.
StreamEnds(p, q) ==
    IF OfCurrent(p, q)
    THEN /\ publisher' = [publisher EXCEPT ![p] = None]
         /\ sharers' = [sharers EXCEPT ![p] = @ \ {q}]
         /\ ui' = Post(ui, p, Notice("close", q))
    ELSE UNCHANGED <<publisher, sharers, ui>>

\* TrackMuted and TrackUnsubscribed.
ShareMuted(p) ==
    /\ TakesEvent(p, "muted")
    /\ StreamEnds(p, Head(events[p]).from)
    /\ events' = Took(events, p)
    /\ UNCHANGED <<call, track, capturing, commands, window, active, wishes>>

ShareUnsubscribed(p) ==
    /\ TakesEvent(p, "unsubscribed")
    /\ StreamEnds(p, Head(events[p]).from)
    /\ events' = Took(events, p)
    /\ UNCHANGED <<call, track, capturing, commands, window, active, wishes>>

\* ParticipantDisconnected: its entry leaves the map.
ParticipantGone(p) ==
    /\ TakesEvent(p, "gone")
    /\ sharers' = [sharers EXCEPT ![p] = @ \ {Head(events[p]).from}]
    /\ events' = Took(events, p)
    /\ UNCHANGED <<call, track, local, publisher, window, active, wishes>>

--------------------------------------------------------------------------------
ShareInit ==
    /\ call \in [Core -> {"before", "in", "after"}]
    /\ \A p \in Core : call[p] = "in" <=> p \notin Latecomers
    /\ capturing = [p \in Core |-> FALSE]
    /\ track = [p \in Core |-> FALSE]
    /\ commands = [p \in Core |-> <<>>]
    /\ events = [p \in Core |-> <<>>]
    /\ publisher = [p \in Core |-> None]
    /\ sharers = [p \in Core |-> {}]
    /\ ui = [p \in Core |-> <<>>]
    /\ window = [p \in Core |-> "none"]
    /\ active = [p \in Core |-> FALSE]
    /\ wishes \in 0..MaxWishes

EventLoop(p) ==
    Share(p) \/ ShareFails(p) \/ StopShare(p) \/ OpenWindow(p) \/ CloseWindow(p) \/ CallEnd(p)
RoomService(p) == SetTrack(p) \/ DestroyRoom(p)
RoomEvents(p) ==
    \/ ShareUnmuted(p) \/ ShareSubscribed(p)
    \/ ShareMuted(p) \/ ShareUnsubscribed(p) \/ ParticipantGone(p)
Users(p) == AskShare(p) \/ AskStop(p) \/ AskEnd(p) \/ CaptureEnds(p) \/ Join(p)

ShareNext == \E p \in Core : Users(p) \/ EventLoop(p) \/ RoomService(p) \/ RoomEvents(p)

ShareSpec == ShareInit /\ [][ShareNext]_sharingVars

--------------------------------------------------------------------------------
(* Correctness. *)

EventType == {"share", "stop", "open", "close", "callEnd", "subscribed", "unmuted",
              "muted", "unsubscribed", "gone"}
AnyNotice == [type : EventType, from : Core]

\* Every variable has its type; who is not in the call yet has no share and no news.
ShareTypeOK ==
    /\ call \in [Core -> {"before", "in", "after"}]
    /\ capturing \in [Core -> BOOLEAN]
    /\ track \in [Core -> BOOLEAN]
    /\ commands \in [Core -> Seq({"mute", "unmute", "destroy"})]
    /\ events \in [Core -> Seq(AnyNotice)]
    /\ publisher \in [Core -> Core \cup {None}]
    /\ sharers \in [Core -> SUBSET Core]
    /\ ui \in [Core -> Seq(AnyNotice)]
    /\ window \in [Core -> {"none", "hidden", "visible"}]
    /\ active \in [Core -> BOOLEAN]
    /\ wishes \in 0..MaxWishes
    /\ \A p \in Core : call[p] = "before" => ~track[p] /\ events[p] = <<>>

\* Nothing is on its way, at p or at anyone.
QuietAt(p) == ui[p] = <<>> /\ commands[p] = <<>> /\ events[p] = <<>>
Quiet == \A p \in Core : QuietAt(p)

\* Whatever the room's members start at the same time, in whatever order they hear of
\* each other: when all news has arrived at most one of them still shares (who hears
\* of another share stops its own), and it shares what it captures.
OneShareAtRest ==
    Quiet => /\ Cardinality(Live) <= 1
             /\ \A p \in Core : InCall(p) => track[p] = capturing[p]

\* Watching follows sharing: in a call, when all news has arrived, a core shows no share
\* of somebody who has stopped, left or been taken over, and has come to know of the
\* share that goes on.  It shows that, unless its user asked for a share of his own
\* that did not start, which closes the window.
WatchersFollowShares ==
    Quiet => \A p \in Core : InCall(p) =>
        /\ window[p] = "visible" => publisher[p] \in Live \ {p}
        /\ p \notin Latecomers =>
             \A q \in Live \ {p} : publisher[p] = q /\ q \in sharers[p]

\* Both: the room agrees on who shares.
SharesAgree == OneShareAtRest /\ WatchersFollowShares
================================================================================
