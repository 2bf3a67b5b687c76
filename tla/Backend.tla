--------------------------------- MODULE Backend ---------------------------------
(***************************************************************************)
(* The application's windows, shortcuts and short-lived flags (main.rs,    *)
(* lib.rs, shortcuts.rs, app_activation.rs, sleep_prevention.rs of         *)
(* tauri/src-tauri/src, on macOS).  Commands run on threads, one at a time *)
(* under the mutex of AppData; window, tray and activation callbacks run   *)
(* on the main thread; the core's end of a call comes on the forwarder     *)
(* thread, which leaves the mutex before it is done.                       *)
(*                                                                         *)
(* What the commands say to the core is AppSocket's subject.               *)
(***************************************************************************)
EXTENDS Naturals

CONSTANTS
    MaxUses         \* bound: what users, windows and calls do

ASSUME BackendAssumption == MaxUses \in Nat

VARIABLES
    regular,        \* activation_policy_regular: the dock shows the application
    active,         \* AppData.call_active
    shortcuts,      \* the call's global shortcuts are registered
    ending,         \* the forwarder has still to unregister them
    sleepless,      \* sleep_prevention holds an activity
    flag,           \* "suppress", "reopen", "clicked": flags a timer resets
    timers,         \* timers that run, per flag
    located,        \* location_set: the main window has a place
    main,           \* the main window: "hidden", "shown" or "focused"
    dialog,         \* the permissions window: "none", "hidden" or "shown"
    notice,         \* the tray notification window is open
    writing,        \* deactivate_hiding: the user writes feedback
    uses            \* what happened so far

callVars == <<active, shortcuts, ending, sleepless>>
windowVars == <<located, main, dialog, notice, writing>>
flagVars == <<flag, timers>>
backVars == <<regular, callVars, flagVars, windowVars, uses>>

Flag == {"suppress", "reopen", "clicked"}

Uses == uses < MaxUses /\ uses' = uses + 1

\* A flag is set, and a task that will reset it is spawned.
Raise(f) ==
    /\ flag' = [flag EXCEPT ![f] = TRUE]
    /\ timers' = [timers EXCEPT ![f] = @ + 1]

\* The task has slept: the flag is reset, whoever has set it again meanwhile.
TimerFires(f) ==
    /\ timers[f] > 0
    /\ timers' = [timers EXCEPT ![f] = @ - 1]
    /\ flag' = [flag EXCEPT ![f] = FALSE]
    /\ UNCHANGED <<regular, callVars, windowVars, uses>>

--------------------------------------------------------------------------------
(* Commands. *)

\* call_started: the dock shows the application if the user wants it to, also when the
\* call then fails.
EnterCall ==
    /\ Uses
    /\ regular' \in {regular, TRUE}
    /\ \E ok \in BOOLEAN :
         /\ active' = (active \/ ok)
         /\ shortcuts' = (shortcuts \/ ok)
    /\ UNCHANGED <<ending, sleepless, flagVars, windowVars>>

CallIsOver ==
    /\ active' = FALSE
    /\ sleepless' = FALSE
    /\ regular' = FALSE
    /\ Raise("suppress")

\* end_call: on the mutex to the end.
LeaveCall ==
    /\ Uses
    /\ CallIsOver
    /\ shortcuts' = FALSE
    /\ UNCHANGED <<ending, windowVars>>

\* Message::CallEnded in forward_core_events.
CallEnded ==
    /\ Uses /\ ~ending
    /\ CallIsOver
    /\ ending' = TRUE
    /\ UNCHANGED <<shortcuts, windowVars>>

\* Mutant of UnregisterLate: they stay registered.
ForgetShortcuts ==
    /\ ending
    /\ ending' = FALSE
    /\ UNCHANGED <<regular, active, shortcuts, sleepless, flagVars, windowVars, uses>>

\* Its last step: the mutex is free again, a command may have run meanwhile.
UnregisterLate ==
    /\ ending
    /\ ending' = FALSE
    /\ shortcuts' = FALSE
    /\ UNCHANGED <<regular, active, sleepless, flagVars, windowVars, uses>>

\* set_shortcut_toggle_mic and its like: in a call the new ones replace the old.
SetShortcut ==
    /\ Uses
    /\ shortcuts' = (shortcuts \/ active)
    /\ UNCHANGED <<regular, active, ending, sleepless, flagVars, windowVars>>

\* toggle_call_sleep_prevention, which the front end calls.
ToggleSleepPrevention ==
    /\ Uses
    /\ sleepless' \in BOOLEAN
    /\ UNCHANGED <<regular, active, shortcuts, ending, flagVars, windowVars>>

SetDeactivateHiding ==
    /\ Uses
    /\ writing' = ~writing
    /\ UNCHANGED <<regular, callVars, flagVars, located, main, dialog, notice>>

\* minimize_main_window, and set_drawing_enabled, which puts it out of the way.
MainGoesAway ==
    /\ Uses
    /\ main' = "hidden"
    /\ UNCHANGED <<regular, callVars, flagVars, located, dialog, notice, writing>>

--------------------------------------------------------------------------------
(* The main thread. *)

\* The tray icon is clicked: the main window is shown, or hidden again.
TrayClick ==
    /\ Uses
    /\ Raise("clicked")
    /\ located' = (located \/ main = "hidden")
    /\ main' = IF main = "hidden" THEN "focused" ELSE "hidden"
    /\ UNCHANGED <<regular, callVars, dialog, notice, writing>>

\* The task of setup_tray_icon, once the icon has its place.
TrayPlaces ==
    /\ ~located /\ main = "hidden"
    /\ located' = TRUE
    /\ UNCHANGED <<regular, callVars, flagVars, main, dialog, notice, writing, uses>>

\* The observer acts on an activation that no tray click caused and that is not of the
\* main window.
Activates == Uses /\ ~flag["clicked"] /\ main # "focused"

\* Regular: the permissions window, or the core's windows, or else the main one.
ActivateRegular ==
    /\ Activates /\ regular
    /\ IF dialog # "none" THEN dialog' = "shown" /\ UNCHANGED main
       ELSE main' \in {main, "focused"} /\ UNCHANGED dialog
    /\ UNCHANGED <<regular, callVars, flagVars, located, notice, writing>>

\* Otherwise the main window is opened again, once at a time.
Reopen ==
    /\ Activates /\ ~regular /\ located /\ ~flag["reopen"]
    /\ Raise("reopen")
    /\ main' = "focused"
    /\ UNCHANGED <<regular, callVars, located, dialog, notice, writing>>

\* The single-instance handler: the user starts the application a second time.
SecondInstance ==
    /\ located /\ Uses
    /\ main' = "focused"
    /\ UNCHANGED <<regular, callVars, flagVars, located, dialog, notice, writing>>

\* on_window_event: focus is lost, and with it the window unless a flag says otherwise.
FocusLost ==
    /\ main = "focused" /\ Uses
    /\ main' = IF writing \/ flag["reopen"] \/ flag["suppress"] THEN "shown" ELSE "hidden"
    /\ UNCHANGED <<regular, callVars, flagVars, located, dialog, notice, writing>>

FocusGained ==
    /\ main = "shown" /\ Uses
    /\ main' = "focused"
    /\ UNCHANGED <<regular, callVars, flagVars, located, dialog, notice, writing>>

\* CloseRequested of the tray notification: the permissions window is next, if any.
NoticeClosed ==
    /\ notice
    /\ notice' = FALSE
    /\ IF dialog # "none" THEN dialog' = "shown" /\ UNCHANGED regular
       ELSE regular' = FALSE /\ UNCHANGED dialog
    /\ UNCHANGED <<callVars, flagVars, located, main, writing, uses>>

DialogClosed ==
    /\ dialog = "shown"
    /\ dialog' = "none"
    /\ regular' = FALSE
    /\ UNCHANGED <<callVars, flagVars, located, main, notice, writing, uses>>

--------------------------------------------------------------------------------
\* setup: the notification first, the permissions window when that is closed.
BackInit ==
    /\ notice \in BOOLEAN
    /\ dialog \in {"none", IF notice THEN "hidden" ELSE "shown"}
    /\ regular = (notice \/ dialog # "none")
    /\ active = FALSE /\ shortcuts = FALSE /\ ending = FALSE /\ sleepless = FALSE
    /\ flag = [f \in Flag |-> FALSE] /\ timers = [f \in Flag |-> 0]
    /\ located = FALSE /\ main = "hidden" /\ writing = FALSE
    /\ uses = 0

BackCommands ==
    \/ EnterCall \/ LeaveCall \/ CallEnded \/ SetShortcut
    \/ ToggleSleepPrevention \/ SetDeactivateHiding \/ MainGoesAway
BackMain ==
    \/ TrayClick \/ TrayPlaces \/ ActivateRegular \/ Reopen \/ SecondInstance
    \/ FocusLost \/ FocusGained \/ NoticeClosed \/ DialogClosed

BackNext ==
    \/ BackCommands \/ UnregisterLate \/ BackMain
    \/ \E f \in Flag : TimerFires(f)

\* Timers fire, and the forwarder goes on.
BackSpec == BackInit /\ [][BackNext]_backVars

--------------------------------------------------------------------------------
(* Correctness. *)

\* Every variable has its type; one reopening runs at a time, so its flag is reset when
\* its own timer fires.
BackTypeOK ==
    /\ regular \in BOOLEAN /\ active \in BOOLEAN /\ shortcuts \in BOOLEAN
    /\ ending \in BOOLEAN /\ sleepless \in BOOLEAN
    /\ flag \in [Flag -> BOOLEAN] /\ timers \in [Flag -> 0..MaxUses]
    /\ located \in BOOLEAN /\ writing \in BOOLEAN /\ notice \in BOOLEAN
    /\ main \in {"hidden", "shown", "focused"}
    /\ dialog \in {"none", "hidden", "shown"}
    /\ uses \in 0..MaxUses
    /\ flag["reopen"] <=> timers["reopen"] = 1

\* Global shortcuts are taken from the other applications only in a call: whichever of
\* the application and the core ends it, and however that crosses with a change of a
\* shortcut or a new call, none stays registered when no call is active.
ShortcutsOnlyInCall == shortcuts => active \/ ending
================================================================================
