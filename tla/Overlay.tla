--------------------------------- MODULE Overlay ---------------------------------
(***************************************************************************)
(* The core's windows over the monitors (core/src/window_manager.rs, and   *)
(* its callers in lib.rs): one window per monitor, hidden but for two       *)
(* uses.  While the sharer chooses what to share, each shows the chooser    *)
(* and takes the mouse; while he shares, the window of one monitor, the     *)
(* active one, lies over what is shared and lets the mouse through.         *)
(*                                                                          *)
(* Monitors come and go.  The system then moves windows, and says so in     *)
(* window events that the event loop handles later.  A shared window is     *)
(* moved from monitor to monitor, of which the capture thread tells.        *)
(***************************************************************************)
EXTENDS Naturals, FiniteSets

CONSTANTS
    Monitor,
    NoMonitor,
    MaxChanges      \* bound: what monitors and the shared window do

ASSUME OverlayAssumption ==
    IsFiniteSet(Monitor) /\ NoMonitor \notin Monitor /\ MaxChanges \in Nat

VARIABLES
    plugged,        \* the monitors there are
    entries,        \* WindowManager::windows: the monitors with a window
    strayed,        \* windows that are not where their monitor is
    moved,          \* windows whose Moved event the event loop has not handled
    visible,        \* windows that are shown
    hittest,        \* windows that take the mouse
    chooser,        \* windows that show the chooser
    active,         \* active_monitor_id
    selection,      \* screen_selection: "none", "screen" or "window"
    chosen,         \* content of a ScreenShare event in the queue
    captured,       \* what is captured
    frameNews,      \* a CaptureFrameChanged event is in the queue
    controls,       \* remote_control is there
    repair,         \* pending_overlay_repair
    adrift,         \* the overlay has lost what is captured: its window went as the chooser
                    \* was opened, or the shared window came back before a repair
    changes

monitorVars == <<plugged, changes>>
managerVars == <<entries, strayed, visible, hittest, chooser, active>>
sharingVars == <<captured, controls, repair>>
overlayVars == <<monitorVars, managerVars, moved, selection, chosen, sharingVars, frameNews,
                 adrift>>

\* Content is a display, or a window that is on some monitor.
Nothing == [kind |-> "none", at |-> NoMonitor]
Shareable == [kind : {"display", "window"}, at : Monitor]

--------------------------------------------------------------------------------
(* Monitors and the shared window. *)

Change == changes < MaxChanges /\ changes' = changes + 1

\* Windows of the monitor go to another one, and so does the window that is shared.
Unplug(m) ==
    /\ Change /\ m \in plugged /\ plugged # {m}
    /\ plugged' = plugged \ {m}
    /\ strayed' = strayed \cup (entries \cap {m})
    /\ moved' = moved \cup (entries \cap {m})
    /\ \/ /\ captured # [kind |-> "window", at |-> m]
          /\ UNCHANGED <<captured, frameNews>>
       \/ /\ captured = [kind |-> "window", at |-> m]
          /\ \E n \in plugged' : captured' = [captured EXCEPT !.at = n]
          /\ frameNews' = TRUE
    /\ UNCHANGED <<entries, visible, hittest, chooser, active, selection, chosen, controls, repair,
                   adrift>>

\* A window that strayed comes back, or does not.
Plug(m) ==
    /\ Change /\ m \notin plugged
    /\ plugged' = plugged \cup {m}
    /\ strayed' \in {strayed, strayed \ {m}}
    /\ moved' = moved \cup (strayed \ strayed')
    /\ UNCHANGED <<entries, visible, hittest, chooser, active, selection, chosen, sharingVars,
                   frameNews, adrift>>

SharedWindowMoves(m) ==
    /\ Change /\ captured.kind = "window" /\ m \in plugged \ {captured.at}
    /\ captured' = [captured EXCEPT !.at = m] /\ frameNews' = TRUE
    /\ UNCHANGED <<plugged, managerVars, moved, selection, chosen, controls, repair, adrift>>

--------------------------------------------------------------------------------
(* WindowManager::update: windows of monitors that are gone go, the others are put  *)
(* back, and each new monitor gets a window.  That may fail, and then the rest get  *)
(* none.                                                                            *)

Kept == entries \cap plugged
Updated(with) ==
    /\ with \subseteq plugged \ entries
    /\ entries' = Kept \cup with
    /\ strayed' = {} /\ moved' = moved \cap Kept

\* To be fullscreen a window is resized, of which it hears.  That may bring it to its
\* monitor, or fill the one it has strayed to.
SetFullscreen(m) ==
    strayed' \in {strayed, strayed \ {m}} /\ moved' = moved \cup {m}

ShowWindow(m, others) ==
    active' = m /\ visible' = others \cup {m}
HideActiveWindow == visible \ {active}

\* The windows of the monitors that could be made fullscreen show the chooser.
ShowScreenSelection(full) ==
    /\ full \subseteq entries'
    /\ visible' = (visible \cap Kept) \cup full
    /\ hittest' = (hittest \cap Kept) \cup full

\* Mutant of HideScreenSelection: the windows go on taking the mouse.
JustHide ==
    /\ selection' = "none"
    /\ chooser' = {} /\ visible' = entries \cap {active}
    /\ UNCHANGED hittest

HideScreenSelection ==
    /\ selection' = "none"
    /\ chooser' = {} /\ hittest' = {}
    /\ visible' = entries \cap {active}

--------------------------------------------------------------------------------
(* Choosing what to share. *)

\* GetAvailableContent.  Choosing a window puts the chooser on the other windows as well.
StartScreenSelection(with, full, mode) ==
    /\ selection' = mode
    /\ Updated(with) /\ ShowScreenSelection(full)
    /\ chooser' = IF mode = "window" THEN entries' ELSE (chooser \cap Kept) \cup full
    /\ active' = IF active \in Kept THEN active ELSE NoMonitor
    /\ adrift' = (adrift \/ active \notin Kept \cup {NoMonitor})
    /\ UNCHANGED <<monitorVars, chosen, sharingVars, frameNews>>

SetSelectionMode ==
    /\ selection # "none"
    /\ selection' \in {"screen", "window"} \ {selection}
    /\ chooser' = entries
    /\ UNCHANGED <<monitorVars, entries, strayed, visible, hittest, active, moved, chosen>>
    /\ UNCHANGED <<sharingVars, frameNews, adrift>>

CancelScreenSelection ==
    /\ selection # "none"
    /\ HideScreenSelection
    /\ UNCHANGED <<monitorVars, entries, strayed, active, moved, chosen, sharingVars, frameNews,
                   adrift>>

\* A click or Enter in a window whose monitor is there selects that monitor; or the
\* window that is hovered over.
SelectSource(content) ==
    /\ selection # "none" /\ chosen = Nothing
    /\ selection = "screen" => content.kind = "display" /\ content.at \in entries \cap plugged
    /\ selection = "window" => content.kind = "window" /\ content.at \in plugged
    /\ HideScreenSelection
    /\ chosen' = content
    /\ UNCHANGED <<monitorVars, entries, strayed, active, moved, sharingVars, frameNews, adrift>>

--------------------------------------------------------------------------------
(* Sharing. *)

\* stop_screenshare, with destroy_overlay_window.
StopScreenshare ==
    /\ captured' = Nothing /\ controls' = FALSE /\ repair' = NoMonitor
    /\ active' = NoMonitor

StopScreenShare ==
    /\ StopScreenshare
    /\ visible' = HideActiveWindow
    /\ adrift' = FALSE
    /\ UNCHANGED <<monitorVars, entries, strayed, hittest, chooser, moved, selection, chosen,
                   frameNews>>

\* ScreenShare: what is shared is stopped, captured, and given an overlay.
ShareBegins ==
    /\ chosen # Nothing
    /\ chosen' = Nothing
    /\ selection' = "none" /\ chooser' = {} /\ hittest' = {}
    /\ adrift' = FALSE
    /\ UNCHANGED <<monitorVars, entries, frameNews>>

\* There is no track, the capture or the window fails, or the monitor has no window.
ScreenshareFails ==
    /\ ShareBegins /\ StopScreenshare
    /\ visible' = {}
    /\ UNCHANGED <<strayed, moved>>

Screenshare ==
    /\ ShareBegins
    /\ chosen.at \in plugged \cap entries
    /\ captured' = chosen /\ controls' = TRUE /\ repair' = NoMonitor
    /\ ShowWindow(chosen.at, {}) /\ SetFullscreen(chosen.at)

CaptureFrameChanged ==
    /\ frameNews /\ frameNews' = FALSE
    /\ LET elsewhere == captured # Nothing /\ captured.at \in plugged /\ active # captured.at IN
       /\ repair' = IF elsewhere THEN captured.at ELSE repair
       /\ adrift' = (~elsewhere /\ (adrift \/ repair \notin {NoMonitor, active}))
    /\ UNCHANGED <<monitorVars, managerVars, moved, selection, chosen, captured, controls>>

\* Moved, Resized and ScaleFactorChanged.
WindowMoved(m) ==
    /\ m \in moved /\ moved' = moved \ {m}
    /\ repair' = IF repair = NoMonitor /\ active = m /\ m \in strayed THEN m ELSE repair
    /\ UNCHANGED <<monitorVars, managerVars, selection, chosen, captured, controls, frameNews,
                   adrift>>

\* about_to_wait: repair_overlay_monitor.
Repair(with) ==
    /\ repair # NoMonitor /\ repair' = NoMonitor
    /\ Updated(with)
    /\ hittest' = hittest \cap Kept /\ chooser' = chooser \cap Kept
    /\ adrift' = (adrift /\ repair # captured.at)
    /\ UNCHANGED <<monitorVars, selection, chosen, frameNews>>

\* Mutant of RepairFails: the share goes on without an overlay.
RepairJustFails(with) ==
    /\ Repair(with)
    /\ active' = NoMonitor /\ controls' = FALSE /\ UNCHANGED captured
    /\ visible' = HideActiveWindow \cap Kept

\* The monitors cannot be refreshed, this one is gone, or its window fails.
RepairFails(with) ==
    /\ Repair(with)
    /\ active' = NoMonitor /\ controls' = FALSE /\ captured' = Nothing
    /\ visible' = HideActiveWindow \cap Kept

RepairOverlayMonitor ==
    /\ Repair(plugged \ entries)
    /\ repair \in plugged
    /\ ShowWindow(repair, HideActiveWindow \cap Kept)
    /\ controls' = TRUE /\ UNCHANGED captured

--------------------------------------------------------------------------------
(* Specification. *)

OverlayInit ==
    /\ plugged \in (SUBSET Monitor) \ {{}} /\ entries = plugged
    /\ strayed = {} /\ moved = {} /\ visible = {} /\ hittest = {} /\ chooser = {}
    /\ active = NoMonitor /\ selection = "none" /\ chosen = Nothing
    /\ captured = Nothing /\ frameNews = FALSE /\ controls = FALSE
    /\ repair = NoMonitor /\ adrift = FALSE /\ changes = 0

OverlayNext ==
    \/ \E m \in Monitor : Unplug(m) \/ Plug(m) \/ SharedWindowMoves(m) \/ WindowMoved(m)
    \/ \E with, full \in SUBSET Monitor, mode \in {"screen", "window"} :
           StartScreenSelection(with, full, mode)
    \/ SetSelectionMode \/ CancelScreenSelection
    \/ \E content \in Shareable : SelectSource(content)
    \/ StopScreenShare \/ ScreenshareFails \/ Screenshare \/ CaptureFrameChanged
    \/ \E with \in SUBSET Monitor : RepairFails(with)
    \/ RepairOverlayMonitor

OverlaySpec == OverlayInit /\ [][OverlayNext]_overlayVars

--------------------------------------------------------------------------------
(* Correctness. *)

\* Every variable has its type; what windows do, windows that there are do, and the
\* active one is one of them.
OverlayTypeOK ==
    /\ plugged \in (SUBSET Monitor) \ {{}} /\ entries \subseteq Monitor
    /\ strayed \cup moved \cup visible \cup hittest \cup chooser \subseteq entries
    /\ active \in entries \cup {NoMonitor}
    /\ selection \in {"none", "screen", "window"}
    /\ chosen \in Shareable \cup {Nothing} /\ captured \in Shareable \cup {Nothing}
    /\ frameNews \in BOOLEAN /\ controls \in BOOLEAN /\ adrift \in BOOLEAN
    /\ repair \in Monitor \cup {NoMonitor}
    /\ changes \in 0..MaxChanges

\* Once nothing is being chosen, no window takes the mouse from the applications below or
\* shows the chooser, and none but the active one is shown: whatever was shared, stopped or
\* repaired and whichever monitors came and went while the chooser was there.
DesktopIsFree ==
    selection = "none" => hittest = {} /\ chooser = {} /\ visible = entries \cap {active}

\* When all events have been handled, what is captured has its overlay on the monitor it
\* is on, and nobody can control what is not captured: unless the chooser was opened before
\* the event loop heard that the active monitor had gone, or the shared window went to
\* another monitor and came back before the overlay could follow.
OverlayFollowsCapture ==
    moved = {} /\ ~frameNews /\ repair = NoMonitor =>
        IF captured = Nothing THEN active = NoMonitor /\ ~controls
        ELSE adrift \/ (active = captured.at /\ active \in visible \ strayed /\ controls)

\* Both: the windows over the monitors are where, and only where, the user wants them.
OverlayHasItsPlace == DesktopIsFree /\ OverlayFollowsCapture
================================================================================
