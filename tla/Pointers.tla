-------------------------------- MODULE Pointers --------------------------------
(***************************************************************************)
(* Who has a pointer on the shared screen, in which colour and under which     *)
(* name.  Two pictures show the others of the room: the overlay over the       *)
(* sharer's monitor, where everyone in it also is a controller (core/src/lib.rs,*)
(* input/mouse.rs), and the watcher's window (window/screensharing_window.rs). *)
(* Each has its ParticipantsManager (graphics/participant.rs), set up when the  *)
(* picture is and brought up to date by the events of the room, which wait for  *)
(* the event loop (room_service.rs).                                          *)
(*                                                                         *)
(* One core; all who may come are guests.  What a pointer does is the subject    *)
(* of CursorControl, Drawing and Redraw.                                        *)
(***************************************************************************)
EXTENDS Integers, Sequences, FiniteSets, SequencesExt

CONSTANTS
    Guests,         \* who may come
    FullName,       \* [Guests -> [first, last]], the last name a sequence of letters
    Palette,        \* the colours of a fresh manager, a sequence
    Me,             \* the own participant: "local"
    MaxComings,     \* bound: how often a guest comes or goes
    MaxScreens,     \* bound: how often a picture is set up, taken down or moved
    MaxRoomEvents   \* bound: events that wait for the event loop

ASSUME PointersAssumption ==
    /\ Me \notin Guests /\ IsFiniteSet(Guests)
    /\ \A g \in Guests : FullName[g].last \in Seq(STRING)
    /\ Palette \in Seq(STRING) /\ IsInjective(Palette)
    /\ ToSet(Palette) \cap {"sharer", "default"} = {}
    /\ MaxComings \in Nat /\ MaxScreens \in Nat /\ MaxRoomEvents \in Nat

VARIABLES
    present,        \* the participants map, without the own entry
    roomEvents,     \* sent to the event loop and not handled
    overlay,        \* the sharer's picture
    controllers,    \* controllers_cursors
    screen,         \* the watcher's picture
    comings, screens

pointerVars == <<present, roomEvents, overlay, controllers, screen, comings, screens>>

--------------------------------------------------------------------------------
(* A picture: its pointers and the colours that are left. *)

SharerColor == "sharer"
DefaultColor == "default"

NoPointers == [x \in {} |-> <<>>]
NewManager(isUp) == [up |-> isUp, pointers |-> NoPointers, pool |-> Palette, ranOut |-> FALSE]
Down == NewManager(FALSE)

Shows(picture) == DOMAIN picture.pointers
NamesOn(picture) == {picture.pointers[p].name : p \in Shows(picture)}

\* The first name, with as much of the last as it takes, then with a number.
Candidate(name, letters, number) ==
    [first |-> name.first, last |-> SubSeq(name.last, 1, letters), number |-> number]

VisibleName(name, used) ==
    LET spelled == {i \in 0..Len(name.last) : Candidate(name, i, 1) \notin used}
        numbered == {i \in 2..(Cardinality(used) + 2) :
                        Candidate(name, Len(name.last), i) \notin used}
        Least(S) == CHOOSE i \in S : \A j \in S : i <= j IN
    IF spelled # {} THEN Candidate(name, Least(spelled), 1)
    ELSE Candidate(name, Len(name.last), Least(numbered))

NameOf(who) == IF who = Me THEN [first |-> "Me", last |-> <<>>] ELSE FullName[who]

ColorFor(picture, who) ==
    IF who = Me THEN SharerColor
    ELSE IF picture.pool = <<>> THEN DefaultColor ELSE Head(picture.pool)

\* One who is there already is refused.
AddParticipant(picture, who) ==
    IF who \in Shows(picture) THEN picture
    ELSE LET pointer == [name |-> VisibleName(NameOf(who), NamesOn(picture)),
                         color |-> ColorFor(picture, who)] IN
         [picture EXCEPT
            !.pointers = [p \in DOMAIN @ \cup {who} |-> IF p = who THEN pointer ELSE @[p]],
            !.pool = IF who = Me \/ @ = <<>> THEN @ ELSE Tail(@),
            !.ranOut = @ \/ (who # Me /\ picture.pool = <<>>)]

\* The colour goes back to the end of the pool, the default one too.
RemoveParticipant(picture, who) ==
    IF who \notin Shows(picture) THEN picture
    ELSE [picture EXCEPT
            !.pointers = [p \in DOMAIN @ \ {who} |-> @[p]],
            !.pool = Append(@, picture.pointers[who].color)]

AddInOrder(picture, people) ==
    LET after[i \in 0..Len(people)] ==
            IF i = 0 THEN picture ELSE AddParticipant(after[i - 1], people[i])
    IN after[Len(people)]

\* Mutant of Cleared: the window is hidden with the pointers it has.
JustHidden(picture) == [picture EXCEPT !.up = FALSE]

\* The picture is hidden and its manager as good as new.
Cleared(picture) == Down

--------------------------------------------------------------------------------
(* The room. *)

ToEventLoop(event) ==
    /\ Len(roomEvents) < MaxRoomEvents
    /\ roomEvents' = Append(roomEvents, event)
    /\ UNCHANGED <<overlay, controllers, screen>>

NewsOf(what, who) == [what |-> what, who |-> who]

GuestComes(g) ==
    /\ g \notin present /\ comings < MaxComings
    /\ present' = present \cup {g} /\ comings' = comings + 1
    /\ ToEventLoop(NewsOf("connected", {g}))
    /\ UNCHANGED screens

GuestGoes(g) ==
    /\ g \in present /\ comings < MaxComings
    /\ present' = present \ {g} /\ comings' = comings + 1
    /\ ToEventLoop(NewsOf("disconnected", {g}))
    /\ UNCHANGED screens

\* The event loop is told who is there when a guest's share starts.
CollectRemoteParticipants ==
    /\ present # {} /\ screens < MaxScreens
    /\ screens' = screens + 1
    /\ ToEventLoop(NewsOf("open", present))
    /\ UNCHANGED <<present, comings>>

GuestStopsSharing ==
    /\ ToEventLoop(NewsOf("close", {}))
    /\ screen.up
    /\ UNCHANGED <<present, comings, screens>>

--------------------------------------------------------------------------------
(* The event loop. *)

NextEvent(what) ==
    /\ roomEvents # <<>> /\ Head(roomEvents).what = what
    /\ roomEvents' = Tail(roomEvents)
    /\ UNCHANGED <<present, comings, screens>>

Newcomer == CHOOSE g \in Head(roomEvents).who : TRUE

Update(picture, who, Change(_, _)) == IF picture.up THEN Change(picture, who) ELSE picture

\* A pointer that is refused leaves the controllers as they are.
ParticipantConnected ==
    /\ NextEvent("connected")
    /\ overlay' = Update(overlay, Newcomer, AddParticipant)
    /\ controllers' = IF overlay.up /\ Newcomer \notin Shows(overlay)
                      THEN controllers \cup {Newcomer} ELSE controllers
    /\ screen' = Update(screen, Newcomer, AddParticipant)

ParticipantDisconnected ==
    /\ NextEvent("disconnected")
    /\ overlay' = Update(overlay, Newcomer, RemoveParticipant)
    /\ controllers' = controllers \ {Newcomer}
    /\ screen' = Update(screen, Newcomer, RemoveParticipant)

\* The manager of a new window, or of the window for a new sharer.
BuildInitialState(people) == AddParticipant(AddInOrder(NewManager(TRUE), people), Me)

\* Watching ends the own share.
WindowOpens ==
    /\ NextEvent("open")
    /\ \E order \in SetToSeqs(Head(roomEvents).who) : screen' = BuildInitialState(order)
    /\ overlay' = Cleared(overlay) /\ controllers' = {}

\* What a hidden window holds is replaced before it is shown again.
WindowCloses ==
    /\ NextEvent("close")
    /\ screen' = Down
    /\ UNCHANGED <<overlay, controllers>>

--------------------------------------------------------------------------------
(* The own share. *)

\* show_window puts the own pointer first, create_overlay_window those of the map.
SetsUpOverlay(hidden) ==
    /\ screens < MaxScreens /\ screens' = screens + 1
    /\ LET shown == AddParticipant([hidden EXCEPT !.up = TRUE], Me) IN
       \E order \in SetToSeqs(present) : overlay' = AddInOrder(shown, order)
    /\ controllers' = present
    /\ UNCHANGED <<present, roomEvents, comings>>

\* The window of the share that was watched is closed.
ShareStarts == ~overlay.up /\ SetsUpOverlay(overlay) /\ screen' = Down

\* The overlay is taken down and set up on another monitor.
OverlayMoves == overlay.up /\ SetsUpOverlay(Cleared(overlay)) /\ UNCHANGED screen

ShareStops ==
    /\ overlay.up
    /\ overlay' = Cleared(overlay) /\ controllers' = {}
    /\ UNCHANGED <<present, roomEvents, screen, comings, screens>>

--------------------------------------------------------------------------------
PointersInit ==
    /\ present = {} /\ roomEvents = <<>>
    /\ overlay = Down /\ controllers = {} /\ screen = Down
    /\ comings = 0 /\ screens = 0

PointersNext ==
    \/ \E g \in Guests : GuestComes(g) \/ GuestGoes(g)
    \/ CollectRemoteParticipants \/ GuestStopsSharing
    \/ ParticipantConnected \/ ParticipantDisconnected \/ WindowOpens \/ WindowCloses
    \/ ShareStarts \/ OverlayMoves \/ ShareStops

PointersSpec == PointersInit /\ [][PointersNext]_pointerVars

--------------------------------------------------------------------------------
Colors == ToSet(Palette) \cup {SharerColor, DefaultColor}

\* Every variable has its type.
PointersTypeOK ==
    /\ present \subseteq Guests /\ controllers \subseteq Guests
    /\ \A i \in DOMAIN roomEvents :
        /\ roomEvents[i].what \in {"connected", "disconnected", "open", "close"}
        /\ roomEvents[i].who \subseteq Guests
    /\ \A picture \in {overlay, screen} :
        /\ picture.up \in BOOLEAN /\ picture.ranOut \in BOOLEAN
        /\ Shows(picture) \subseteq Guests \cup {Me}
        /\ \A p \in Shows(picture) : picture.pointers[p].color \in Colors
        /\ ToSet(picture.pool) \subseteq Colors
    /\ comings \in 0..MaxComings /\ screens \in 0..MaxScreens

ToldApart(picture, field) ==
    \A p, q \in Shows(picture) :
        p # q => picture.pointers[p][field] # picture.pointers[q][field]

\* Once the event loop has heard all of the room, a picture that is shown has a pointer
\* for everyone who is there and for no one else, and at the sharer whoever has a pointer
\* is a controller (lib.rs, ParticipantConnected, create_overlay_window,
\* OpenScreenShareWindow).  No two have the same name, and none the same colour unless
\* there have been more people at once than colours (participant.rs, add_participant).
PointersFollowRoom ==
    \A picture \in {overlay, screen} :
        picture.up =>
            /\ roomEvents = <<>> => Shows(picture) = present \cup {Me}
            /\ ToldApart(picture, "name")
            /\ ~picture.ranOut => ToldApart(picture, "color")
            /\ picture = overlay => controllers = Shows(overlay) \ {Me}
================================================================================
