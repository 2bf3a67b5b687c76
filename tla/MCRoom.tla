--------------------------------- MODULE MCRoom ---------------------------------
(* What the core of one person in a room does: the participants (Participants), the *)
(* cameras (Cameras), the choice of what to share (WindowPicker), the windows over *)
(* the monitors (Overlay), the pointers (Pointers) and when they are drawn         *)
(* (Redraw), and the window in which a watcher sees the screen (Viewer,            *)
(* ViewerSize).  The parts share no state: in each behaviour one runs and the      *)
(* others rest.                                                                    *)
EXTENDS Pointers, Participants, Cameras, WindowPicker, Overlay, Redraw, Viewer, ViewerSize, TLC

CONSTANTS a, b, m1, m2, hd, sd, tall, g1, g2, g3

MCPerson == {a, b}
MCMonitor == {m1, m2}

\* The people are alike, and so are the monitors.
MCSymmetry == Permutations(MCPerson) \cup Permutations(MCMonitor)

\* Windows beside, before and behind each other, one of no height, one of the core's.
Window(id, x, y, w, h) == [id |-> id, frame |-> Box(x, y, w, h), own |-> FALSE]
West == Window(1, 0, 0, 2, 4)
East == Window(2, 2, 0, 2, 4)
Middle == Window(3, 1, 1, 2, 2)
Small == Window(4, 1, 1, 1, 1)
Wide == Window(5, 0, 1, 4, 1)
Flat == Window(6, 0, 0, 4, 0)
Own == [Window(7, 0, 0, 4, 4) EXCEPT !.own = TRUE]
MCDesktops ==
    {<<West, East, Middle>>, <<Middle, West, East>>, <<Own, West, Middle, Flat>>,
     <<Own>>, <<Small, Wide, Middle>>,
     <<Small, [Middle EXCEPT !.frame.x = 2]>>}

At(x, y) == [x |-> x, y |-> y]
MCCursors == {At(0, 0), At(2, 1)}
MCLayouts == {<<At(0, 0)>>, <<At(4, 1), At(0, 0), At(8, 2)>>, <<At(4, 0), At(0, 0)>>}

MCFullName ==
    [g \in {g1, g2, g3} |-> [first |-> "Ann",
        last |-> IF g = g1 THEN <<"L", "e", "e">> ELSE IF g = g2 THEN <<"L", "o">> ELSE <<>>]]

MCPalette == <<"blue", "green">>

MCDimensions == {hd, sd, tall}
MCAspect == [d \in MCDimensions |-> IF d = tall THEN "tall" ELSE "wide"]
MCWidest == [aspect \in {"wide", "tall"} |-> IF aspect = "wide" THEN 3 ELSE 2]

VARIABLE part

peopleVars == <<partVars, cameraVars>>
overVars == <<pickerVars, overlayVars, pointerVars, redrawVars>>
watchVars == <<viewerVars, viewSizeVars>>
allVars == <<part, peopleVars, overVars, watchVars>>

RoomInit ==
    /\ part \in {"participants", "cameras", "picker", "overlay", "pointers", "redraw", "viewer",
                "size"}
    /\ PartInit /\ CameraInit /\ PickerInit /\ OverlayInit /\ PointersInit /\ RedrawInit
    /\ ViewerInit /\ ViewSizeInit
    /\ part = "picker" \/ (desktop = <<Own>> /\ cursor = At(0, 0) /\ layout = <<At(0, 0)>>)
    /\ part = "overlay" \/ plugged = MCMonitor
    /\ part = "size" \/ system = "macos"

PeopleNext ==
    \/ part = "participants" /\ PartNext /\ UNCHANGED cameraVars
    \/ part = "cameras" /\ CameraNext /\ UNCHANGED partVars

OverNext ==
    \/ part = "picker" /\ PickerNext /\ UNCHANGED <<overlayVars, pointerVars, redrawVars>>
    \/ part = "overlay" /\ OverlayNext /\ UNCHANGED <<pickerVars, pointerVars, redrawVars>>
    \/ part = "pointers" /\ PointersNext /\ UNCHANGED <<pickerVars, overlayVars, redrawVars>>
    \/ part = "redraw" /\ RedrawNext /\ UNCHANGED <<pickerVars, overlayVars, pointerVars>>

WatchNext ==
    \/ part = "viewer" /\ ViewerNext /\ UNCHANGED viewSizeVars
    \/ part = "size" /\ ViewSizeNext /\ UNCHANGED viewerVars

RoomNext ==
    \/ PeopleNext /\ UNCHANGED <<part, overVars, watchVars>>
    \/ OverNext /\ UNCHANGED <<part, peopleVars, watchVars>>
    \/ WatchNext /\ UNCHANGED <<part, peopleVars, overVars>>

\* Once an event of a closed room has come late, ListFollowsRoom asks nothing more, and
\* PictureIsRecent once a stream has written while there was a later one.
InTime == ~late /\ ~crossed

RoomSpec == RoomInit /\ [][RoomNext]_allVars

\* Every variable of the part that runs has its type.
RoomTypeOK ==
    /\ part = "participants" => PartTypeOK
    /\ part = "cameras" => CameraTypeOK
    /\ part = "picker" => PickerTypeOK
    /\ part = "overlay" => OverlayTypeOK
    /\ part = "pointers" => PointersTypeOK
    /\ part = "redraw" => RedrawTypeOK
    /\ part = "viewer" => ViewerTypeOK
    /\ part = "size" => ViewSizeTypeOK

\* The sharer chooses among the screens and windows there are, and the windows that lie over
\* the monitors are where they belong (PickerTellsTheTruth and OverlayHasItsPlace).
ScreensAreAsShown == PickerTellsTheTruth /\ OverlayHasItsPlace

\* The pointers over the shared screen are those of the people who are there, and they are
\* drawn in time (PointersFollowRoom and NothingLeftBehind).
PointersAreTrue == PointersFollowRoom /\ NothingLeftBehind

\* The window in which a watcher sees the screen shows a recent picture, in its shape and
\* as large as the window is (PictureIsRecent and DrawnToSize).
ViewerShowsTheShare == PictureIsRecent /\ DrawnToSize
================================================================================
