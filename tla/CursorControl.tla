---------------------------- MODULE CursorControl ----------------------------
(***************************************************************************)
(* Who controls the cursor of a shared screen (core/src/input/mouse.rs and *)
(* its callers in core/src/lib.rs).  Two threads of the sharer's core share *)
(* two mutexes: the event loop, which handles the controllers' input and   *)
(* the sharer's settings, and the mouse observer, whose callback takes     *)
(* control back when the sharer clicks, scrolls or leaves the shared       *)
(* source.  A remote control lives from the start of a screen share, or    *)
(* from a repair of its overlay, to the next one.                          *)
(*                                                                         *)
(* Positions, visibility and the pressed button are left out, and so is    *)
(* the simulator's mutex, whose holder waits for no other.                 *)
(***************************************************************************)
CONSTANTS
    Controllers,    \* identities of the room's other participants
    None

CursorModes == {"Normal", "Pointer", "Pencil"}

ASSUME ConstantsAssumption == None \notin Controllers \cup CursorModes \cup {"eventLoop", "tap"}

DrawingModes == {"Disabled", "Draw", "ClickAnimation", "Any"}
Sharer == "sharer"

VARIABLES
    sharing,        \* there is a remote control
    pref,           \* the sharer's saved remote control preference
    drawing,        \* the sharer's drawing window is visible
    enabled,        \* controllers_cursors_enabled, and the keyboard's enabled
    present,        \* the controllers in controllers_cursors
    inControl,      \* those whose has_control is set
    mode,           \* their visual mode
    cached,         \* their logical mode while the controllers are disabled
    drawMode,       \* the drawing mode ParticipantsManager keeps of them
    sharerControl,  \* SharerCursor.has_control
    announced,      \* the last participant in control sent to the room
    sharerLock,     \* the thread that holds sharer_cursor, or None
    cursorsLock,    \* the thread that holds controllers_cursors, or None
    eventLoop,      \* the event loop
    tap,            \* the mouse observer
    placed          \* the capture frame maps positions to the screen

settings == <<sharing, pref, drawing>>
modes == <<enabled, present, mode, cached, drawMode>>
control == <<inControl, sharerControl, announced>>
locks == <<sharerLock, cursorsLock>>
cursorVars == <<settings, modes, control, locks, eventLoop, tap, placed>>

\* The event loop is at a label, on behalf of a controller that has taken control,
\* and continues at another one.
At(label, who, then) == [at |-> label, who |-> who, then |-> then]
Idle == At("idle", None, "idle")

--------------------------------------------------------------------------------
(* Controllers' input: one section under controllers_cursors, which is dropped *)
(* before sharer_cursor is locked for the second.                              *)

\* Mutant of OnlyInControl: the previous controller keeps control.
InControlToo(c) == inControl \cup {c}

\* The controller takes control and every other one loses it.
OnlyInControl(c) == {c}

\* A click down or a scroll from a controller without control.
TakeControl(c) ==
    /\ sharing /\ eventLoop = Idle /\ placed /\ cursorsLock = None
    /\ c \in present /\ c \notin inControl /\ mode[c] = "Normal"
    /\ cursorsLock' = "eventLoop"
    /\ inControl' = OnlyInControl(c)
    /\ eventLoop' = At("drop", c, "idle")
    /\ UNCHANGED <<settings, modes, sharerControl, announced, sharerLock, tap, placed>>

\* A button released, input from whoever is in control, is absent or is not in
\* Normal mode, or a scroll at an invalid position: nothing but the locking.
ChangeNothing ==
    /\ sharing /\ eventLoop = Idle /\ cursorsLock = None
    /\ cursorsLock' = "eventLoop"
    /\ eventLoop' = At("drop", None, "idle")
    /\ UNCHANGED <<settings, modes, control, sharerLock, tap, placed>>

\* Mutant of DropCursors: the guard lives to the end of the function.
KeepCursors ==
    /\ eventLoop.at = "drop"
    /\ eventLoop' = [eventLoop EXCEPT !.at = "sharer"]
    /\ UNCHANGED <<settings, modes, control, locks, tap, placed>>

DropCursors ==
    /\ eventLoop.at = "drop"
    /\ cursorsLock' = None
    /\ eventLoop' = [eventLoop EXCEPT !.at = "sharer"]
    /\ UNCHANGED <<settings, modes, control, sharerLock, tap, placed>>

\* Under sharer_cursor: the sharer loses control, and the room is told who has it.
\* The guards end with the function.
ShowSharer ==
    /\ eventLoop.at = "sharer" /\ sharerLock = None
    /\ IF eventLoop.who = None
       THEN UNCHANGED <<sharerControl, announced>>
       ELSE sharerControl' = FALSE /\ announced' = eventLoop.who
    /\ cursorsLock' = None
    /\ eventLoop' = Idle
    /\ UNCHANGED <<settings, modes, inControl, sharerLock, tap, placed>>

--------------------------------------------------------------------------------
(* Modes: enabling and disabling the controllers, and drawing. *)

\* SharerCursor::hide(false): control is back with the sharer.
HideSharer ==
    /\ eventLoop.at = "hide" /\ sharerLock = None
    /\ sharerControl' = TRUE /\ announced' = Sharer
    /\ eventLoop' = At(eventLoop.then, None, "idle")
    /\ UNCHANGED <<settings, modes, inControl, locks, tap, placed>>

\* Normal is shown as Pointer while the controllers are disabled.
Coerced(m) == IF m = "Normal" THEN "Pointer" ELSE m

\* ControllerCursor::enable and disable for all, and the sections that follow: if
\* any controller lost control by it, the sharer's cursor is hidden next.
SetEnabled(e, then) ==
    /\ cursorsLock = None
    /\ enabled' = e
    /\ mode' = [c \in Controllers |->
                  IF c \notin present THEN mode[c]
                  ELSE IF ~e THEN Coerced(mode[c])
                  ELSE IF cached[c] # None THEN cached[c] ELSE mode[c]]
    /\ cached' = [c \in Controllers |->
                    IF c \notin present THEN cached[c]
                    ELSE IF e THEN None
                    ELSE IF cached[c] = None THEN mode[c] ELSE cached[c]]
    /\ inControl' = {}
    /\ eventLoop' = IF inControl = {} THEN At(then, None, "idle") ELSE At("hide", None, then)
    /\ UNCHANGED <<present, drawMode, sharerControl, announced, locks, tap, placed>>

\* The sharer's preference, applied at once unless the sharer is drawing.
ControllerCursorEnabled(e) ==
    /\ eventLoop = Idle
    /\ pref' = e
    /\ IF sharing /\ ~drawing THEN SetEnabled(e, "idle")
       ELSE UNCHANGED <<modes, control, locks, eventLoop, tap, placed>>
    /\ UNCHANGED <<sharing, drawing>>

\* LocalDrawingEnabled: the controllers are disabled before the window is opened.
StartDrawing ==
    /\ eventLoop = Idle /\ sharing /\ ~drawing
    /\ SetEnabled(FALSE, "window")
    /\ UNCHANGED settings

DrawingWindowOpens ==
    /\ eventLoop.at = "window"
    /\ drawing' = TRUE
    /\ eventLoop' = Idle
    /\ UNCHANGED <<sharing, pref, modes, control, locks, tap, placed>>

\* DrawingWindow::new fails: the preference is restored.
DrawingWindowFails ==
    /\ eventLoop.at = "window"
    /\ SetEnabled(pref, "idle")
    /\ UNCHANGED settings

\* LocalDrawingEnabled again: the preference is restored, the window hidden.
StopDrawing ==
    /\ eventLoop = Idle /\ sharing /\ drawing
    /\ SetEnabled(pref, "idle")
    /\ drawing' = FALSE
    /\ UNCHANGED <<sharing, pref>>

\* CloseRequested hides the window and says nothing to anybody: the controllers stay
\* disabled until the next toggle or setting.
DrawingWindowCloses ==
    /\ eventLoop = Idle /\ drawing
    /\ drawing' = FALSE
    /\ UNCHANGED <<sharing, pref, modes, control, locks, eventLoop, tap, placed>>

CursorModeFor(d) ==
    [Draw |-> "Pencil", ClickAnimation |-> "Pointer", Disabled |-> "Normal", Any |-> None][d]

\* Any says nothing of the cursor.
SetsCursorMode(d) == CursorModeFor(d) # None

\* DrawingMode of a participant: the cursor's mode, for which the controller gives
\* control back, and the one the participants manager draws with.
ParticipantDrawingMode(c, d) ==
    /\ eventLoop = Idle /\ sharing /\ c \in present /\ cursorsLock = None
    /\ drawMode' = [drawMode EXCEPT ![c] = d]
    /\ IF SetsCursorMode(d)
       THEN LET m == CursorModeFor(d) IN
            /\ mode' = [mode EXCEPT ![c] = IF cached[c] = None THEN m ELSE Coerced(m)]
            /\ cached' = [cached EXCEPT ![c] = IF cached[c] = None THEN None ELSE m]
            /\ inControl' = inControl \ {c}
            /\ eventLoop' = IF c \in inControl THEN At("hide", None, "idle") ELSE Idle
       ELSE UNCHANGED <<mode, cached, inControl, eventLoop>>
    /\ UNCHANGED <<settings, enabled, present, sharerControl, announced, locks, tap, placed>>

--------------------------------------------------------------------------------
(* Participants. *)

\* Mutant of JoinMode: a newcomer is not disabled with the others.
JoinEnabled(e) == <<"Normal", None>>

\* The visual and cached modes of a new cursor.
JoinMode(e) == IF e THEN <<"Normal", None>> ELSE <<Coerced("Normal"), "Normal">>

AddController(c) ==
    /\ eventLoop = Idle /\ sharing /\ c \notin present /\ cursorsLock = None
    /\ present' = present \cup {c}
    /\ mode' = [mode EXCEPT ![c] = JoinMode(enabled)[1]]
    /\ cached' = [cached EXCEPT ![c] = JoinMode(enabled)[2]]
    /\ drawMode' = [drawMode EXCEPT ![c] = "Disabled"]
    /\ UNCHANGED <<settings, enabled, control, locks, eventLoop, tap, placed>>

\* "Control will remain with the system until another input event occurs."
RemoveController(c) ==
    /\ eventLoop = Idle /\ sharing /\ c \in present /\ cursorsLock = None
    /\ present' = present \ {c}
    /\ inControl' = inControl \ {c}
    /\ UNCHANGED <<settings, enabled, mode, cached, drawMode, sharerControl, announced>>
    /\ UNCHANGED <<locks, eventLoop, tap, placed>>

--------------------------------------------------------------------------------
(* The remote control. *)

\* create_overlay_window for the participants P with their drawing modes: new
\* cursors, control with the sharer, new mutexes and a new observer.
CreateOverlay(e, P, dm) ==
    /\ enabled' = e
    /\ present' = P
    /\ drawMode' = dm
    /\ LET logical == [c \in Controllers |->
                         IF SetsCursorMode(dm[c]) THEN CursorModeFor(dm[c]) ELSE "Normal"]
       IN /\ mode' = [c \in Controllers |-> IF e THEN logical[c] ELSE Coerced(logical[c])]
          /\ cached' = [c \in Controllers |-> IF e THEN None ELSE logical[c]]
    /\ inControl' = {} /\ sharerControl' = TRUE
    /\ sharerLock' = None /\ cursorsLock' = None
    /\ tap' = "idle"

\* stop_screenshare: the remote control is dropped, and the observer with it; the
\* drawing window is closed.  Nobody is told that control has gone.
NoRemoteControl ==
    /\ sharing' = FALSE /\ drawing' = FALSE
    /\ present' = {} /\ inControl' = {}
    /\ sharerLock' = None /\ cursorsLock' = None
    /\ tap' = "idle"
    /\ UNCHANGED <<pref, enabled, mode, cached, drawMode, sharerControl, announced>>

StopScreenshare ==
    /\ eventLoop = Idle /\ sharing
    /\ NoRemoteControl
    /\ UNCHANGED <<eventLoop, placed>>

\* A running share is stopped first; P is who the room service has.
Screenshare(P) ==
    /\ eventLoop = Idle
    /\ CreateOverlay(pref, P, [c \in Controllers |-> "Disabled"])
    /\ sharing' = TRUE /\ drawing' = FALSE
    /\ UNCHANGED <<pref, announced, eventLoop, placed>>

\* repair_overlay_monitor: the overlay has moved to another monitor and is built
\* again, or the share is stopped when that fails.  Participants keep their
\* drawing modes, and the controllers stay disabled while the sharer draws.
RepairOverlay(P) ==
    /\ eventLoop = Idle /\ sharing
    /\ CreateOverlay(pref /\ ~drawing, P,
                     [c \in Controllers |-> IF c \in P \cap present THEN drawMode[c] ELSE "Disabled"])
    /\ UNCHANGED <<settings, announced, eventLoop, placed>>

--------------------------------------------------------------------------------
(* Rendering holds both mutexes, in the documented order. *)

RenderLocksSharer ==
    /\ eventLoop = Idle /\ sharing /\ sharerLock = None
    /\ sharerLock' = "eventLoop"
    /\ eventLoop' = At("render", None, "idle")
    /\ UNCHANGED <<settings, modes, control, cursorsLock, tap, placed>>

RenderLocksCursors ==
    /\ eventLoop.at = "render" /\ cursorsLock = None
    /\ sharerLock' = None
    /\ eventLoop' = Idle
    /\ UNCHANGED <<settings, modes, control, cursorsLock, tap, placed>>

--------------------------------------------------------------------------------
(* The mouse observer, and the frame of the captured window. *)

\* The sharer clicks, scrolls or leaves the shared source while a controller is in
\* control: SharerCursor::hide(true), which goes on to lock controllers_cursors.
TapTakesBack ==
    /\ sharing /\ tap = "idle" /\ sharerLock = None /\ ~sharerControl
    /\ sharerLock' = "tap"
    /\ sharerControl' = TRUE /\ announced' = Sharer
    /\ tap' = "show"
    /\ UNCHANGED <<settings, modes, inControl, cursorsLock, eventLoop, placed>>

TapShowsControllers ==
    /\ tap = "show" /\ cursorsLock = None
    /\ inControl' = {}
    /\ sharerLock' = None
    /\ tap' = "idle"
    /\ UNCHANGED <<settings, modes, sharerControl, announced, cursorsLock, eventLoop, placed>>

\* The window is minimised, resized or shown again.
FrameChanges ==
    /\ placed' = ~placed
    /\ UNCHANGED <<settings, modes, control, locks, eventLoop, tap>>

--------------------------------------------------------------------------------
(* Specification. *)

CursorInit ==
    /\ sharing = FALSE /\ pref = TRUE /\ drawing = FALSE
    /\ enabled = TRUE /\ present = {}
    /\ mode = [c \in Controllers |-> "Normal"] /\ cached = [c \in Controllers |-> None]
    /\ drawMode = [c \in Controllers |-> "Disabled"]
    /\ inControl = {} /\ sharerControl = TRUE /\ announced = Sharer
    /\ sharerLock = None /\ cursorsLock = None
    /\ eventLoop = Idle /\ tap = "idle" /\ placed = TRUE

\* What a handler of the event loop does after its first section.
MainContinues ==
    \/ DropCursors \/ ShowSharer \/ HideSharer \/ RenderLocksCursors
    \/ DrawingWindowOpens \/ DrawingWindowFails

\* Handlers, one at a time.
MainStarts ==
    \/ ChangeNothing \/ RenderLocksSharer \/ StartDrawing \/ StopDrawing \/ StopScreenshare
    \/ DrawingWindowCloses
    \/ \E e \in BOOLEAN : ControllerCursorEnabled(e)
    \/ \E c \in Controllers : TakeControl(c) \/ AddController(c) \/ RemoveController(c)
    \/ \E c \in Controllers, d \in DrawingModes : ParticipantDrawingMode(c, d)
    \/ \E P \in SUBSET Controllers : Screenshare(P) \/ RepairOverlay(P)

CursorNext == MainStarts \/ MainContinues \/ TapTakesBack \/ TapShowsControllers \/ FrameChanges

CursorSpec == CursorInit /\ [][CursorNext]_cursorVars

\* A handler and a callback that have begun go on when the mutex they wait for is
\* free.  No input need come.
CursorFairness == WF_cursorVars(MainContinues) /\ WF_cursorVars(TapShowsControllers)

CursorFairSpec == CursorSpec /\ CursorFairness

--------------------------------------------------------------------------------
(* Properties. *)

\* Every variable has the shape the code gives it.
CursorTypeOK ==
    /\ sharing \in BOOLEAN /\ pref \in BOOLEAN /\ drawing \in BOOLEAN /\ enabled \in BOOLEAN
    /\ present \in SUBSET Controllers /\ inControl \in SUBSET present
    /\ mode \in [Controllers -> CursorModes]
    /\ cached \in [Controllers -> CursorModes \cup {None}]
    /\ drawMode \in [Controllers -> DrawingModes]
    /\ sharerControl \in BOOLEAN
    /\ announced \in Controllers \cup {Sharer}
    /\ sharerLock \in {"eventLoop", "tap", None} /\ cursorsLock \in {"eventLoop", None}
    /\ eventLoop \in [at : {"idle", "drop", "sharer", "hide", "render", "window"},
                 who : Controllers \cup {None}, then : {"idle", "window"}]
    /\ tap \in {"idle", "show"}
    /\ placed \in BOOLEAN

\* "Only one entity (sharer or one controller) can have control at a time": no two
\* controllers ever have it, and when neither thread is in the middle of a change,
\* a controller that has it is the one the room was told of, and the sharer has not.
ControlIsExclusive ==
    /\ \A c, d \in inControl : c = d
    /\ eventLoop = Idle /\ tap = "idle" =>
         \A c \in inControl : ~sharerControl /\ announced = c

Logical(c) == IF cached[c] = None THEN mode[c] ELSE cached[c]

\* Between two handlers the controllers are disabled if the sharer has disabled them or
\* draws.  While they are, none has control or is shown as able to take it.  And each has
\* the mode its participant last chose: what disabling hid, enabling, a repair of the
\* overlay or a failed window brings back.
DisabledBlocks ==
    sharing =>
      /\ eventLoop = Idle => (enabled => pref /\ ~drawing)
      /\ ~enabled => inControl = {} /\ (\A c \in present : mode[c] # "Normal")
      /\ eventLoop = Idle => \A c \in present :
           SetsCursorMode(drawMode[c]) => Logical(c) = CursorModeFor(drawMode[c])

\* "Violating this order deadlocks (ABBA) under simultaneous local + remote
\* scroll/click": neither the event loop nor the observer's callback gets stuck.
NoThreadIsStuck ==
    /\ tap = "show" ~> tap = "idle"
    /\ eventLoop # Idle ~> eventLoop = Idle
================================================================================
