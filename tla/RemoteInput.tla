------------------------------ MODULE RemoteInput ------------------------------
(***************************************************************************)
(* A watcher's keyboard and mouse at the sharer's machine.  The screen       *)
(* sharing window of the watcher hears keys and buttons while the cursor is   *)
(* over the shared picture, on the control tab, while remote control is       *)
(* allowed (core/src/window/screensharing_window.rs, handle_window_event);    *)
(* the room carries them, reliably and in order (core/src/room_service.rs);   *)
(* the sharer's core simulates them (core/src/lib.rs, input/keyboard.rs,      *)
(* input/mouse.rs).                                                          *)
(*                                                                         *)
(* One key stands for Meta on macOS and Control elsewhere, one for c, x and v, *)
(* one for every other key, one for the mouse buttons.  Layouts are left out:  *)
(* both machines find the same key for the same character.                   *)
(***************************************************************************)
EXTENDS Naturals, Sequences

CONSTANTS
    MaxPresses,     \* bound: what the watcher does
    MaxDecisions,   \* bound: how often the sharer changes the setting or the share
    MaxInFlight     \* bound: messages under way to the sharer

ASSUME RemoteInputAssumption ==
    MaxPresses \in Nat /\ MaxDecisions \in Nat /\ MaxInFlight \in Nat

Mod == "mod"
Clip == "clip"
Letter == "letter"
Button == "button"
Keys == {Mod, Clip, Letter}

VARIABLES
    modFirst,       \* ModifiersChanged comes before the modifier's own key event
    hands,          \* what the watcher holds down
    inView,        \* the window is shown
    over,           \* mouse_in_participant_area
    onControl,      \* active_tab is the control tab
    allowed,        \* remote_control_allowed
    queued,         \* how many modifier presses are in queued_modifier_events
    line,           \* to the sharer: published and not handled
    notices,        \* to the watcher, not handled: the setting, and the share's track
    controlled,     \* the sharer has a remote control
    simulates,      \* it is enabled: the keyboard's enabled, the cursor's mode
    pointing,       \* the mode of the watcher's cursor at the sharer is not Normal
    pressed,        \* what the simulated input holds down at the sharer
    unheard,        \* keys whose last press or release the window did not hear
    ignored,        \* keys whose last message the sharer dropped
    presses, decisions

watcherVars == <<modFirst, hands, inView, over, onControl, allowed, queued, unheard, presses>>
sharerVars == <<controlled, simulates, pointing, pressed, ignored, decisions>>
inputVars == <<watcherVars, line, notices, sharerVars>>

--------------------------------------------------------------------------------
(* The watcher's window. *)

Event(type, key, down) == [type |-> type, key |-> key, down |-> down]
KeyInput(k, down) == Event("key", k, down)

\* Published by the room service, which the sharer's room hands on in this order.
Publish(messages) ==
    /\ Len(line) + Len(messages) <= MaxInFlight
    /\ line' = line \o messages

Acts ==
    /\ presses < MaxPresses /\ presses' = presses + 1
    /\ UNCHANGED <<modFirst, inView, allowed, notices, sharerVars>>

Listens == over /\ onControl /\ allowed

Moved(k, down) == hands' = IF down THEN hands \cup {k} ELSE hands \ {k}

\* What the window believes of the modifier while it handles the event of k: its own
\* ModifiersChanged comes before that event on some systems and after it on others.
HoldsMod(k, down) == IF k = Mod THEN down = modFirst ELSE Mod \in hands

\* Ctrl or Cmd with c, x or v is sent as one request, and the modifier that leads to
\* it is not sent at all.
IsChord(k, down) == k = Clip /\ down /\ HoldsMod(k, down)

\* Mutant of IsQueued: a modifier's release waits like its press.
IsQueuedEitherWay(k, down) == k = Mod /\ (down => ~HoldsMod(k, down))

\* A modifier's press waits for what comes with it.
IsQueued(k, down) == k = Mod /\ down /\ ~HoldsMod(k, down)

Drained == [i \in 1..queued |-> KeyInput(Mod, TRUE)]

KeyboardInput(k, down) ==
    /\ down = (k \notin hands)
    /\ Moved(k, down)
    /\ Listens /\ Acts
    /\ unheard' = unheard \ {k}
    /\ CASE IsChord(k, down)  -> queued' = 0 /\ Publish(<<Event("chord", k, TRUE)>>)
         [] IsQueued(k, down) -> queued' = queued + 1 /\ UNCHANGED line
         [] OTHER             -> queued' = 0 /\ Publish(Append(Drained, KeyInput(k, down)))
    /\ UNCHANGED <<over, onControl>>

\* On the other tabs the buttons draw and point.
MouseInput(down) ==
    /\ down = (Button \notin hands)
    /\ Moved(Button, down)
    /\ Listens /\ Acts
    /\ unheard' = unheard \ {Button}
    /\ Publish(<<Event("click", Button, down)>>)
    /\ UNCHANGED <<over, onControl, queued>>

\* What is pressed or released elsewhere, on another tab, or while remote control is
\* not allowed, is not for the sharer.
NotForTheSharer(k) ==
    /\ ~Listens /\ Acts
    /\ Moved(k, k \notin hands)
    /\ unheard' = unheard \cup {k}
    /\ UNCHANGED <<over, onControl, queued, line>>

CursorEnters ==
    /\ inView /\ ~over /\ Acts
    /\ over' = TRUE
    /\ UNCHANGED <<hands, onControl, queued, line, unheard>>

\* The cursor leaves the picture or the window, or the window loses the focus.
CursorLeaves ==
    /\ over /\ Acts
    /\ over' = FALSE /\ queued' = 0
    /\ UNCHANGED <<hands, onControl, line, unheard>>

\* The tabs are above the picture.
SelectTab ==
    /\ inView /\ ~over /\ Acts
    /\ onControl' = ~onControl /\ queued' = 0
    /\ Publish(<<Event("mode", Button, onControl')>>)
    /\ UNCHANGED <<hands, over, unheard>>

Noticed(what) ==
    /\ notices # <<>> /\ Head(notices) = what
    /\ notices' = Tail(notices)
    /\ UNCHANGED <<modFirst, hands, unheard, presses, sharerVars>>

\* A hidden window does not hear of the setting.
SharerControlEnabled(e) ==
    /\ Noticed(IF e THEN "allowed" ELSE "forbidden")
    /\ allowed' = IF inView THEN e ELSE allowed
    /\ UNCHANGED <<inView, over, onControl, queued, line>>

\* The window is hidden when the share ends, and loses the focus.
CloseScreenShareWindow ==
    /\ Noticed("ended")
    /\ inView' = FALSE /\ over' = FALSE /\ queued' = 0
    /\ UNCHANGED <<onControl, allowed, line>>

\* The window is set up anew for the next share, on the watcher's last tab, whose mode
\* it publishes.
OpenScreenShareWindow ==
    /\ Noticed("begun")
    /\ inView' = TRUE /\ over' = FALSE /\ queued' = 0 /\ allowed' = TRUE
    /\ onControl' \in BOOLEAN
    /\ Publish(<<Event("mode", Button, onControl')>>)

--------------------------------------------------------------------------------
(* The sharer. *)

Handles(type) ==
    /\ line # <<>> /\ Head(line).type = type
    /\ line' = Tail(line)
    /\ UNCHANGED <<watcherVars, notices, controlled, simulates, decisions>>

Simulated(e) ==
    /\ pressed' = IF e.down THEN pressed \cup {e.key} ELSE pressed \ {e.key}
    /\ ignored' = ignored \ {e.key}

Dropped(e) == ignored' = ignored \cup {e.key} /\ UNCHANGED pressed

\* simulate_keystrokes; there is nobody to call without a remote control.
Keystroke ==
    /\ Handles("key")
    /\ IF controlled /\ simulates THEN Simulated(Head(line)) ELSE Dropped(Head(line))
    /\ UNCHANGED pointing

\* mouse_click_controller: only for a cursor in Normal mode, which it is not while the
\* controllers are disabled, and at a position of the shared source.
MouseClick ==
    /\ Handles("click")
    /\ \/ controlled /\ simulates /\ ~pointing /\ Simulated(Head(line))
       \/ Dropped(Head(line))
    /\ UNCHANGED pointing

\* Modifier down, letter down, letter up, modifier up.
ShortcutKeySequence == pressed \ {Mod, Clip}

\* add_to_clipboard and paste_from_clipboard press the keys themselves.
CopyOrPaste ==
    /\ Handles("chord")
    /\ pressed' = IF controlled /\ simulates THEN ShortcutKeySequence ELSE pressed
    /\ UNCHANGED <<pointing, ignored>>

DrawingMode ==
    /\ Handles("mode")
    /\ pointing' = IF controlled THEN ~Head(line).down ELSE pointing
    /\ UNCHANGED <<pressed, ignored>>

Changes(notice) ==
    /\ decisions < MaxDecisions /\ decisions' = decisions + 1
    /\ notices' = Append(notices, notice)
    /\ UNCHANGED <<watcherVars, line, pressed, ignored>>

\* The sharer allows or disallows remote control and tells the room; without a share
\* that is kept for the next.
ControllerCursorEnabled(e) ==
    /\ Changes(IF e THEN "allowed" ELSE "forbidden")
    /\ simulates' = e
    /\ UNCHANGED <<controlled, pointing>>

\* The share ends and the remote control with it, or another begins, with new cursors.
ControlEnds ==
    /\ controlled /\ Changes("ended")
    /\ controlled' = FALSE
    /\ UNCHANGED <<simulates, pointing>>

ControlBegins ==
    /\ ~controlled /\ Changes("begun")
    /\ controlled' = TRUE /\ pointing' = FALSE
    /\ UNCHANGED simulates

--------------------------------------------------------------------------------
(* Specification. *)

InputInit ==
    /\ modFirst \in BOOLEAN
    /\ hands = {} /\ inView = TRUE /\ over = FALSE /\ onControl = TRUE /\ allowed = TRUE /\ queued = 0
    /\ line = <<>> /\ notices = <<>>
    /\ controlled = TRUE /\ simulates = TRUE /\ pointing = FALSE
    /\ pressed = {} /\ unheard = {} /\ ignored = {} /\ presses = 0 /\ decisions = 0

InputNext ==
    \/ \E k \in Keys, down \in BOOLEAN : KeyboardInput(k, down)
    \/ \E down \in BOOLEAN : MouseInput(down)
    \/ \E k \in Keys \cup {Button} : NotForTheSharer(k)
    \/ CursorEnters \/ CursorLeaves \/ SelectTab
    \/ CloseScreenShareWindow \/ OpenScreenShareWindow
    \/ Keystroke \/ MouseClick \/ CopyOrPaste \/ DrawingMode \/ ControlEnds \/ ControlBegins
    \/ \E e \in BOOLEAN : SharerControlEnabled(e) \/ ControllerCursorEnabled(e)

InputSpec == InputInit /\ [][InputNext]_inputVars

--------------------------------------------------------------------------------
(* Correctness. *)

\* Every variable has its type.
InputTypeOK ==
    /\ {modFirst, inView, over, onControl, allowed, controlled, simulates, pointing} \subseteq BOOLEAN
    /\ {hands, pressed, unheard, ignored} \subseteq SUBSET (Keys \cup {Button})
    /\ queued \in 0..MaxPresses /\ presses \in 0..MaxPresses /\ decisions \in 0..MaxDecisions
    /\ Len(line) <= MaxInFlight
    /\ \A i \in 1..Len(line) : line[i].type \in {"key", "click", "chord", "mode"}
    /\ \A i \in 1..Len(notices) : notices[i] \in {"allowed", "forbidden", "begun", "ended"}

Followed(k) == k \notin unheard \cup ignored

\* Once all that was sent has been handled, the sharer's machine holds down nothing but
\* what the watcher holds, and holds the plain keys and the button that the watcher
\* holds: whatever was queued with the modifier, cleared or sent as a clipboard request.
\* Not so for a key whose last press or release was not heard by the window or was
\* dropped by the sharer; the next that is heard makes up for it.
KeysFollowHands ==
    line = <<>> =>
      \A k \in Keys \cup {Button} :
        Followed(k) => /\ k \in pressed => k \in hands
                       /\ (k \in hands /\ k \in {Letter, Button}) => k \in pressed
================================================================================
