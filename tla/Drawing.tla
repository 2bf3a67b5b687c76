-------------------------------- MODULE Drawing --------------------------------
(***************************************************************************)
(* Drawing on a shared screen (core/src/graphics/draw.rs and participant.rs, *)
(* window/drawing_window.rs, window/screensharing_window.rs, and their      *)
(* callers in core/src/lib.rs).  Who draws keeps the paths in a window of    *)
(* its own and publishes what it does; whoever looks on applies that to the  *)
(* picture it keeps of the one who draws.  The sharer draws in the drawing   *)
(* window and a watcher looks on in its screen sharing window; a watcher     *)
(* draws in its screen sharing window and the sharer's overlay looks on.     *)
(* One of them draws in each behaviour.                                      *)
(*                                                                           *)
(* The points of a path are left out.  All but its first and last are sent   *)
(* as lossy data, and one that comes late joins whatever path is in progress. *)
(***************************************************************************)
EXTENDS Naturals, Sequences

CONSTANTS
    MaxShares,      \* bound: screen shares, one after another
    MaxStrokes,     \* bound: what the one who draws does
    MaxWire         \* bound: messages under way

ASSUME DrawingAssumption == MaxShares \in Nat /\ MaxStrokes \in Nat /\ MaxWire \in Nat

Tabs == {"control", "draw", "point"}
DrawModes == {"Disabled", "Draw", "Persistent", "ClickAnimation", "Any"}

VARIABLES
    artist,         \* who draws: "sharer" or "watcher"
    share,          \* the sharer's share, 0 when there is none
    shares,         \* shares so far
    view,           \* the share the watcher's window was last set up for
    watching,       \* the watcher's window is visible
    board,          \* "absent", "hidden" or "shown": the sharer's drawing window
    toggles,        \* LocalDrawingEnabled events in the event loop's queue
    tab,            \* active_tab of the watcher's window
    persist,        \* draw_persist of the artist's window
    path,           \* current_path_id
    picture,        \* the artist's own paths (participant "local")
    seen,           \* the same as the other side keeps them
    wire,           \* published and not handled yet
    astray,         \* the other side has missed something
    offTab,         \* a drawing mode was chosen beside the tab
    strokes         \* what the artist has done so far

shareVars == <<share, shares, view, watching>>
boardVars == <<board, toggles, tab, persist>>
drawingVars == <<artist, shareVars, boardVars, path, picture, seen, wire, astray, offTab, strokes>>

--------------------------------------------------------------------------------
(* A participant's paths: the mode, the path in progress (0: none) and those that *)
(* are completed.                                                               *)

Blank(mode) == [mode |-> mode, current |-> 0, done |-> {}]

SetMode(d, mode) == IF mode = "Disabled" THEN Blank(mode) ELSE [d EXCEPT !.mode = mode]

StartPath(d, id) == IF d.mode = "Disabled" THEN d ELSE [d EXCEPT !.current = id]
FinishPath(d) ==
    IF d.mode = "Disabled" \/ d.current = 0 THEN d
    ELSE [d EXCEPT !.current = 0, !.done = @ \cup {d.current}]
ClearPath(d, id) ==
    [d EXCEPT !.current = IF @ = id THEN 0 ELSE @, !.done = @ \ {id}]
ClearPaths(d) == Blank(d.mode)

Message(type, id, mode) == [type |-> type, id |-> id, mode |-> mode, share |-> 0]
ModeMessage(mode) == Message("mode", 0, mode)
PathMessage(type, id) == Message(type, id, "Any")

Applied(d, m) ==
    CASE m.type = "mode"     -> SetMode(d, m.mode)
      [] m.type = "start"    -> StartPath(d, m.id)
      [] m.type = "end"      -> FinishPath(d)
      [] m.type = "clear"    -> ClearPath(d, m.id)
      [] m.type = "clearAll" -> ClearPaths(d)

DrawMode(permanent) == IF permanent THEN "Persistent" ELSE "Draw"
ModeOf(t) == CASE t = "draw" -> DrawMode(persist)
               [] t = "point" -> "ClickAnimation"
               [] t = "control" -> "Disabled"

--------------------------------------------------------------------------------
(* Publishing, and handling what was published: reliable and in order. *)

\* The share that the artist's messages are about.
About == IF artist = "sharer" THEN share ELSE view
Published(messages) ==
    /\ Len(wire) + Len(messages) <= MaxWire
    /\ wire' = wire \o [i \in 1..Len(messages) |-> [messages[i] EXCEPT !.share = About]]

\* The other side shows the artist's picture, and of which share.
LookingOn == IF artist = "sharer" THEN watching ELSE share # 0
LooksAt == IF artist = "sharer" THEN view ELSE share

Stroke == strokes < MaxStrokes /\ strokes' = strokes + 1

\* What reaches a window that is hidden, or an overlay that is gone, is dropped.
HandleDrawing ==
    /\ wire # <<>>
    /\ wire' = Tail(wire)
    /\ seen' = IF LookingOn THEN Applied(seen, Head(wire)) ELSE seen
    /\ astray' = (astray \/ ~LookingOn \/ Head(wire).share # LooksAt)
    /\ UNCHANGED <<artist, shareVars, boardVars, path, picture, offTab, strokes>>

--------------------------------------------------------------------------------
(* Shares, and the windows that look on. *)

\* The drawing window is hidden with a share that ends; nothing is published.
BoardHidden == board' = IF board = "shown" THEN "hidden" ELSE board

\* A new overlay knows the participants, who have not said their modes.
NewOverlay(mode) ==
    IF artist = "watcher"
    THEN /\ seen' = Blank(mode)
         /\ astray' = (picture.current # 0 \/ picture.done # {} \/ wire # <<>>)
    ELSE UNCHANGED <<seen, astray>>

BeginShare ==
    /\ shares < MaxShares
    /\ shares' = shares + 1 /\ share' = shares + 1
    /\ BoardHidden
    /\ NewOverlay("Disabled")
    /\ UNCHANGED <<artist, view, watching, toggles, tab, persist, path, picture>>
    /\ UNCHANGED <<wire, offTab, strokes>>

EndShare ==
    /\ share # 0
    /\ share' = 0
    /\ BoardHidden
    /\ UNCHANGED <<artist, shares, view, watching, toggles, tab, persist, path>>
    /\ UNCHANGED <<picture, seen, wire, astray, offTab, strokes>>

\* repair_overlay_monitor: the drawing modes are carried over, the paths are not.
OverlayRepaired ==
    /\ share # 0 /\ artist = "watcher"
    /\ NewOverlay(seen.mode)
    /\ UNCHANGED <<artist, shareVars, boardVars, path, picture, wire, offTab, strokes>>

\* OpenScreenShareWindow for a new stream: the window is set up anew, with the last
\* mode of this watcher, which it publishes.
WatchNewShare(last, permanent) ==
    /\ share # 0 /\ view # share
    /\ view' = share /\ watching' = TRUE
    /\ IF artist = "watcher"
       THEN /\ tab' = last /\ persist' = permanent
            /\ picture' = Blank(CASE last = "draw" -> DrawMode(permanent)
                                  [] last = "point" -> "ClickAnimation"
                                  [] last = "control" -> "Disabled")
            /\ path' = 0 /\ offTab' = FALSE
            /\ Len(wire) < MaxWire
            /\ wire' = Append(wire, [ModeMessage(picture'.mode) EXCEPT !.share = share])
            /\ astray' = (wire # <<>> \/ seen.current # 0 \/ seen.done # {})
            /\ UNCHANGED seen
       ELSE /\ seen' = Blank("Any")
            /\ astray' = (wire # <<>> \/ (board = "shown" /\ picture # Blank(picture.mode)))
            /\ UNCHANGED <<tab, persist, picture, path, offTab, wire>>
    /\ UNCHANGED <<artist, share, shares, board, toggles, strokes>>

\* The window is hidden: the share has ended, or the watcher closes it.
WatcherHides ==
    /\ watching
    /\ watching' = FALSE
    /\ UNCHANGED <<artist, share, shares, view, boardVars, path, picture, seen, wire>>
    /\ UNCHANGED <<astray, offTab, strokes>>

\* OpenScreenShareWindow from the application: the window is shown as it was, and
\* its drawing mode is published once more.
WatcherReopens ==
    /\ ~watching /\ view # 0 /\ Stroke
    /\ watching' = TRUE
    /\ IF artist = "watcher" THEN Published(<<ModeMessage(ModeOf(tab))>>) ELSE UNCHANGED wire
    /\ UNCHANGED <<artist, share, shares, view, boardVars, path, picture, seen, astray, offTab>>

--------------------------------------------------------------------------------
(* The sharer's drawing window. *)

\* The application's toggle, or Escape in the window, which the event loop sends to
\* itself: it does not say whether to begin or to end.
AskToggle ==
    /\ artist = "sharer" /\ Stroke
    /\ toggles' = toggles + 1
    /\ UNCHANGED <<artist, shareVars, board, tab, persist, path, picture, seen, wire>>
    /\ UNCHANGED <<astray, offTab>>

Toggle ==
    /\ toggles > 0 /\ toggles' = toggles - 1
    /\ UNCHANGED <<artist, shareVars, tab, seen, astray, offTab, strokes>>

ToggleWithoutShare ==
    /\ Toggle /\ share = 0
    /\ UNCHANGED <<board, persist, path, picture, wire>>

\* DrawingWindow::new, or set_draw_persist and show.
DrawingBegins(permanent) ==
    /\ Toggle /\ share # 0 /\ board # "shown"
    /\ board' = "shown" /\ persist' = permanent
    /\ path' = 0
    /\ picture' = Blank(DrawMode(permanent))
    /\ Published(<<ModeMessage(DrawMode(permanent))>>)

DrawingCannotBegin(permanent) ==
    /\ Toggle /\ share # 0 /\ board = "absent"
    /\ Published(<<ModeMessage(DrawMode(permanent)), ModeMessage("Disabled")>>)
    /\ UNCHANGED <<board, persist, path, picture>>

LastWords == <<PathMessage("clearAll", 0), ModeMessage("Disabled")>>

DrawingEnds ==
    /\ Toggle /\ share # 0 /\ board = "shown"
    /\ board' = "hidden"
    /\ Published(LastWords)
    /\ UNCHANGED <<persist, path, picture>>

\* CloseRequested only hides the window.
BoardCloses ==
    /\ board = "shown"
    /\ board' = "hidden"
    /\ astray' = TRUE
    /\ UNCHANGED <<artist, shareVars, toggles, tab, persist, path, picture, seen, wire>>
    /\ UNCHANGED <<offTab, strokes>>

\* SharerDrawPersistChanged publishes a drawing mode whether the sharer draws or not.
SharerPersists(permanent) ==
    /\ artist = "sharer" /\ Stroke
    /\ IF board = "absent" THEN UNCHANGED <<persist, picture>>
       ELSE persist' = permanent /\ picture' = SetMode(picture, DrawMode(permanent))
    /\ Published(<<ModeMessage(DrawMode(permanent))>>)
    /\ UNCHANGED <<artist, shareVars, board, toggles, tab, path, seen, astray, offTab>>

--------------------------------------------------------------------------------
(* The watcher's screen sharing window. *)

AtWatcher ==
    /\ artist = "watcher" /\ watching /\ Stroke
    /\ UNCHANGED <<artist, shareVars, board, toggles, seen, astray>>

TabSelected(t) ==
    /\ AtWatcher
    /\ tab' = t /\ offTab' = FALSE
    /\ picture' = SetMode(IF t = "draw" THEN picture ELSE ClearPaths(picture), ModeOf(t))
    /\ Published((IF t = "draw" THEN <<>> ELSE <<PathMessage("clearAll", 0)>>)
                 \o <<ModeMessage(ModeOf(t))>>)
    /\ UNCHANGED <<persist, path>>

\* The dropdown chooses whether paths stay.  It is there on every tab, and what it
\* publishes is a drawing mode.
DropdownItemClicked(permanent) ==
    /\ AtWatcher
    /\ persist' = permanent
    /\ offTab' = (offTab \/ tab # "draw")
    /\ picture' = SetMode(picture, DrawMode(permanent))
    /\ Published(<<ModeMessage(DrawMode(permanent))>>)
    /\ UNCHANGED <<tab, path>>

--------------------------------------------------------------------------------
(* The artist's hand, in either window. *)

CanDraw ==
    IF artist = "sharer" THEN board = "shown" ELSE watching /\ tab = "draw"
Hand ==
    /\ CanDraw /\ Stroke
    /\ UNCHANGED <<artist, shareVars, boardVars, seen, astray, offTab>>

PressLeft ==
    /\ Hand
    /\ path' = path + 1
    /\ picture' = StartPath(picture, path + 1)
    /\ Published(<<PathMessage("start", path + 1)>>)

\* The button is released, whether or not it went down in the window; or the cursor
\* leaves what is drawn on, or the window loses the focus, while it is down.
StrokeEnds ==
    /\ Hand
    /\ picture' = FinishPath(picture)
    /\ Published(<<PathMessage("end", 0)>>)
    /\ UNCHANGED path

PressRight ==
    /\ Hand /\ persist
    /\ picture' = ClearPaths(picture)
    /\ Published(<<PathMessage("clearAll", 0)>>)
    /\ UNCHANGED path

Oldest == CHOOSE id \in picture.done : \A other \in picture.done : id <= other
Expired ==
    /\ picture.mode = "Draw" /\ picture.done # {}
    /\ picture' = [picture EXCEPT !.done = @ \ {Oldest}]
    /\ UNCHANGED <<artist, shareVars, boardVars, path, seen, astray, offTab, strokes>>

\* Mutant of PathsExpire: what expires is not published.
PathsJustExpire == Expired /\ UNCHANGED wire

\* On a redraw, the paths completed three seconds ago go, unless they are to stay.
PathsExpire == Expired /\ Published(<<PathMessage("clear", Oldest)>>)

--------------------------------------------------------------------------------
(* Specification. *)

DrawingInit ==
    /\ artist \in {"sharer", "watcher"}
    /\ share = 0 /\ shares = 0 /\ view = 0 /\ watching = FALSE
    /\ board = "absent" /\ toggles = 0 /\ tab = "control" /\ persist = FALSE
    /\ path = 0
    /\ picture = Blank("Disabled") /\ seen = Blank("Disabled")
    /\ wire = <<>> /\ astray = FALSE /\ offTab = FALSE /\ strokes = 0

DrawingNext ==
    \/ BeginShare \/ EndShare \/ OverlayRepaired \/ WatcherHides \/ WatcherReopens
    \/ AskToggle \/ ToggleWithoutShare \/ DrawingEnds \/ BoardCloses
    \/ PressLeft \/ StrokeEnds \/ PressRight \/ PathsExpire
    \/ HandleDrawing
    \/ \E permanent \in BOOLEAN :
         \/ DrawingBegins(permanent) \/ DrawingCannotBegin(permanent)
         \/ SharerPersists(permanent) \/ DropdownItemClicked(permanent)
    \/ \E t \in Tabs : TabSelected(t)
    \/ \E t \in Tabs, permanent \in BOOLEAN : WatchNewShare(t, permanent)

DrawingSpec == DrawingInit /\ [][DrawingNext]_drawingVars

--------------------------------------------------------------------------------
(* Correctness. *)

Pictures == [mode : DrawModes, current : 0..MaxStrokes, done : SUBSET (1..MaxStrokes)]

\* Every variable has its type, and a path in progress is the last one begun.
DrawingTypeOK ==
    /\ artist \in {"sharer", "watcher"}
    /\ shares \in 0..MaxShares /\ share \in {0, shares} /\ view \in 0..shares
    /\ watching \in BOOLEAN /\ (view = 0 => ~watching)
    /\ board \in {"absent", "hidden", "shown"} /\ (board = "shown" => share # 0)
    /\ toggles \in 0..MaxStrokes /\ tab \in Tabs /\ persist \in BOOLEAN
    /\ path \in 0..MaxStrokes
    /\ picture \in Pictures /\ picture.current \in {0, path}
    /\ seen \in Pictures
    /\ \A i \in 1..Len(wire) : wire[i].mode \in DrawModes /\ wire[i].share \in 0..shares
    /\ astray \in BOOLEAN /\ offTab \in BOOLEAN /\ strokes \in 0..MaxStrokes

\* What the artist's window shows.
Shown == IF artist = "sharer" /\ board # "shown" THEN Blank(picture.mode) ELSE picture

InSync == share # 0 /\ watching /\ view = share /\ wire = <<>> /\ ~astray

\* Once everything published has been handled, the other side shows the paths that the
\* artist's window shows, no more and no less, and will show the next: through expiry,
\* clearing, changes of mode, windows hidden and opened again, and further shares.  Not
\* so once a window that was not there, or of another share, has handled something, the
\* overlay was repaired with paths on it, or the drawing window was closed beside the
\* toggle.
PictureArrives ==
    InSync =>
      /\ seen.current = Shown.current /\ seen.done = Shown.done
      /\ (artist = "sharer" /\ board = "shown") => seen.mode # "Disabled"
      /\ (artist = "watcher" /\ ~offTab) => seen.mode = ModeOf(tab)
================================================================================
