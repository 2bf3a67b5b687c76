------------------------------ MODULE WindowPicker ------------------------------
(***************************************************************************)
(* Choosing what to share (core/src/lib.rs, window_manager.rs, capture/macos.rs). *)
(* While the chooser is open it covers every monitor.  In Window mode it lists the *)
(* windows that can be seen, again every 100 ms, and marks the one under the     *)
(* cursor or the one reached with the arrow keys; in Screen mode the arrow keys  *)
(* move the focus from monitor to monitor.  What is marked or has the focus is   *)
(* what Enter shares.                                                           *)
(***************************************************************************)
EXTENDS Frames, FiniteSets

CONSTANTS
    Desktops,       \* the windows on the desktop at some time, front to back
    Cursors,        \* where the cursor can be
    Layouts,        \* the positions of the monitors
    MaxScenes       \* bound: how often the desktop changes

Position == [x : Int, y : Int]

\* The identities of windows are their own; there is a monitor.
ASSUME WindowPickerAssumption ==
    /\ MaxScenes \in Nat /\ Cursors \subseteq Position
    /\ Layouts \subseteq Seq(Position) /\ <<>> \notin Layouts
    /\ Desktops \subseteq Seq(DesktopWindow)
    /\ \A d \in Desktops : \A i, j \in DOMAIN d : i # j => d[i].id # d[j].id

VARIABLES
    desktop,        \* the windows: identity, frame, and whether they are this process's
    cursor,         \* where the system's cursor is
    layout,         \* the monitors' positions
    picker,         \* "closed", "Screen" or "Window": screen_selection and its mode
    listed,         \* windows
    hovered,        \* hovered: at most one window
    mouseHover,     \* mouse_hover_enabled
    marked,         \* what the overlays show: the mode and the window with a border
    focus,          \* the monitor whose overlay has the focus
    picked,         \* the source that was picked last
    stale,          \* the desktop has changed since the windows were listed
    scenes

pickerVars == <<desktop, cursor, layout, picker, listed, hovered, mouseHover, marked, focus,
                picked, stale, scenes>>

--------------------------------------------------------------------------------
(* The desktop. *)

\* Windows of other processes, in front-to-back order.
SelectableWindows == AtPlaces(desktop, {i \in DOMAIN desktop : ~desktop[i].own})

DesktopChanges(d) ==
    /\ scenes < MaxScenes /\ scenes' = scenes + 1
    /\ desktop' = d
    /\ stale' = TRUE
    /\ UNCHANGED <<cursor, layout, picker, listed, hovered, mouseHover, marked, focus, picked>>

--------------------------------------------------------------------------------
(* The list and the mark. *)

Marks(mode, window) == marked' = [mode |-> mode, window |-> window]

Hovered(windows) == WindowAtCursor(windows, cursor'.x, cursor'.y)

SelectedIn(windows) ==
    FirstAt(windows, {i \in DOMAIN windows : hovered # <<>> /\ windows[i].id = hovered[1].id})

\* What is marked among the new windows: under the cursor, or the same window, perhaps
\* somewhere else, or nothing.
Rehovered(windows) == IF mouseHover' THEN Hovered(windows) ELSE SelectedIn(windows)

\* The overlays are told when the mark has changed, its frame included.
RefreshWindowList ==
    /\ listed' = VisibleWindows(SelectableWindows)
    /\ hovered' = Rehovered(listed')
    /\ stale' = FALSE

TimerRefreshes ==
    /\ picker = "Window"
    /\ UNCHANGED <<desktop, cursor, layout, picker, mouseHover, focus, picked, scenes>>
    /\ RefreshWindowList
    /\ IF hovered' # hovered THEN Marks(picker, hovered') ELSE UNCHANGED marked

\* The cursor moves, over one of the overlays.
CursorMoved(c) ==
    /\ cursor' = c
    /\ mouseHover' = IF picker = "closed" THEN mouseHover ELSE TRUE
    /\ hovered' = IF picker = "Window" THEN Hovered(listed) ELSE hovered
    /\ IF hovered' # hovered THEN Marks(picker, hovered') ELSE UNCHANGED marked
    /\ UNCHANGED <<desktop, layout, picker, listed, focus, picked, stale, scenes>>

CycleHoveredWindow(forward) ==
    /\ picker = "Window"
    /\ mouseHover' = FALSE
    /\ hovered' = CycleWindow(listed, IF hovered = <<>> THEN 0 ELSE hovered[1].id, forward)
    /\ IF hovered' # hovered THEN Marks(picker, hovered') ELSE UNCHANGED marked
    /\ UNCHANGED <<desktop, cursor, layout, picker, listed, focus, picked, stale, scenes>>

--------------------------------------------------------------------------------
(* The modes. *)

EnterMode(mode) ==
    /\ picker' = mode
    /\ IF mode = "Window" THEN RefreshWindowList
       ELSE listed' = <<>> /\ hovered' = <<>> /\ UNCHANGED stale
    /\ Marks(mode, hovered')

\* The mode that was last used, on macOS; the chooser begins with nothing marked.
OpenChooser(mode) ==
    /\ picker = "closed"
    /\ mouseHover' = TRUE
    /\ UNCHANGED <<desktop, cursor, layout, focus, picked, scenes>>
    /\ EnterMode(mode)

\* Cmd+S, or the buttons of the chooser; nothing when the mode stays.
ChangeMode(mode) ==
    /\ picker \notin {"closed", mode}
    /\ UNCHANGED <<desktop, cursor, layout, mouseHover, focus, picked, scenes>>
    /\ EnterMode(mode)

Closes ==
    /\ picker # "closed" /\ picker' = "closed"
    /\ listed' = <<>> /\ hovered' = <<>>
    /\ marked' = [mode |-> "closed", window |-> <<>>]
    /\ UNCHANGED <<desktop, cursor, layout, mouseHover, focus, stale, scenes>>

LeaveChooser == Closes /\ UNCHANGED picked

\* A click or Enter; without a window that is marked nothing happens.
ChooseMarked ==
    /\ picker = "Screen" \/ hovered # <<>>
    /\ Closes
    /\ picked' = IF picker = "Screen" THEN [kind |-> "display", id |-> focus]
                 ELSE [kind |-> "window", id |-> hovered[1].id]

--------------------------------------------------------------------------------
(* The focus. *)

\* The monitors in the order of a coordinate, if no two share it.
Axis(direction, position) ==
    IF direction \in {"Left", "Right"} THEN position.x ELSE position.y
InLine(direction) ==
    \A i, j \in DOMAIN layout :
      i # j => Axis(direction, layout[i]) # Axis(direction, layout[j])
Place(direction, i) ==
    Cardinality({j \in DOMAIN layout : Axis(direction, layout[j]) < Axis(direction, layout[i])})

\* The next monitor in a direction, the ends joined.
FocusTarget(direction, i) ==
    IF Len(layout) < 2 \/ ~InLine(direction) THEN i
    ELSE LET n == Len(layout)
             step == IF direction \in {"Right", "Down"} THEN 1 ELSE n - 1
         IN CHOOSE j \in DOMAIN layout :
              Place(direction, j) = (Place(direction, i) + step) % n

FocusWindowInDirection(direction) ==
    /\ picker = "Screen"
    /\ focus' = FocusTarget(direction, focus)
    /\ UNCHANGED <<desktop, cursor, layout, picker, listed, hovered, mouseHover, marked>>
    /\ UNCHANGED <<picked, stale, scenes>>

\* The cursor enters another overlay, which gets the focus.
CursorEntered(i) ==
    /\ picker # "closed" /\ i \in DOMAIN layout
    /\ focus' = i
    /\ UNCHANGED <<desktop, cursor, layout, picker, listed, hovered, mouseHover, marked>>
    /\ UNCHANGED <<picked, stale, scenes>>

--------------------------------------------------------------------------------
(* Specification. *)

NoSource == [kind |-> "none", id |-> 0]

PickerInit ==
    /\ desktop \in Desktops /\ cursor \in Cursors /\ layout \in Layouts
    /\ picker = "closed" /\ listed = <<>> /\ hovered = <<>> /\ mouseHover = TRUE
    /\ marked = [mode |-> "closed", window |-> <<>>]
    /\ focus = 1 /\ picked = NoSource /\ stale = TRUE /\ scenes = 0

Directions == {"Left", "Right", "Up", "Down"}

PickerNext ==
    \/ TimerRefreshes \/ LeaveChooser \/ ChooseMarked
    \/ \E d \in Desktops : DesktopChanges(d)
    \/ \E c \in Cursors : CursorMoved(c)
    \/ \E forward \in BOOLEAN : CycleHoveredWindow(forward)
    \/ \E mode \in {"Screen", "Window"} : OpenChooser(mode) \/ ChangeMode(mode)
    \/ \E direction \in Directions : FocusWindowInDirection(direction)
    \/ \E i \in DOMAIN layout : CursorEntered(i)

PickerSpec == PickerInit /\ [][PickerNext]_pickerVars

--------------------------------------------------------------------------------
(* Correctness. *)

\* Every variable has its type.
PickerTypeOK ==
    /\ desktop \in Desktops /\ cursor \in Cursors /\ layout \in Layouts
    /\ picker \in {"closed", "Screen", "Window"} /\ marked.mode = picker
    /\ Len(hovered) <= 1 /\ mouseHover \in BOOLEAN
    /\ focus \in DOMAIN layout /\ picked.kind \in {"none", "display", "window"}
    /\ stale \in BOOLEAN /\ scenes \in 0..MaxScenes

SeenAtCursor == SeenAt(SelectableWindows, cursor.x, cursor.y)

\* The corners: a part of the desktop that can be seen begins at the edges of some windows.
Points ==
    LET frames == {desktop[i].frame : i \in DOMAIN desktop}
    IN ({f.x : f \in frames} \cup {f.x + f.w : f \in frames})
         \X ({f.y : f \in frames} \cup {f.y + f.h : f \in frames})

Visible(windows) ==
    {windows[i] : i \in UNION {SeenAt(windows, p[1], p[2]) : p \in Points}}

\* What Enter or a click would share is what the overlays mark.  While the desktop is as
\* it was listed, the list has exactly the windows of which a point can be seen, front to
\* back, and with the mouse the one that is marked is the one that is seen at the cursor;
\* the arrow keys lead to each of them and to each monitor, and back.
PickerTellsTheTruth ==
    /\ marked.window = hovered
    /\ (picker = "Window" /\ ~stale) =>
         /\ {listed[i] : i \in DOMAIN listed} = Visible(SelectableWindows)
         /\ InOrder(listed, SelectableWindows)
         /\ hovered # <<>> => hovered[1] \in {listed[i] : i \in DOMAIN listed}
         /\ mouseHover =>
              hovered = IF SeenAtCursor = {} THEN <<>>
                        ELSE <<SelectableWindows[CHOOSE i \in SeenAtCursor : TRUE]>>
    /\ \A i \in DOMAIN listed :
         CycleWindow(listed, CycleWindow(listed, listed[i].id, TRUE)[1].id, FALSE) = <<listed[i]>>
    /\ picker = "Screen" => \A i \in DOMAIN layout :
         /\ FocusTarget("Left", FocusTarget("Right", i)) = i
         /\ FocusTarget("Up", FocusTarget("Down", i)) = i
================================================================================
