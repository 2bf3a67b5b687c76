--------------------------------- MODULE Redraw ---------------------------------
(***************************************************************************)
(* When the sharer's overlay is drawn.  A thread asks the event loop for a     *)
(* frame every 16 ms, and rests 15 s after the last activity                   *)
(* (core/src/graphics/graphics_context.rs, redraw_thread).  Whoever changes a   *)
(* pointer or clicks sends it an activity (input/mouse.rs, CursorState); a      *)
(* frame hides the pointers that have not moved for 5 s (hide_inactive_cursors) *)
(* and ends the ripples of clicks after 800 ms (graphics/click_animation.rs).   *)
(*                                                                         *)
(* Time passes in ticks; the ages stop growing where no comparison tells them   *)
(* apart.  The event loop draws within Lag of being asked, and a frame may be   *)
(* lost with its surface.  The thread ends with its picture, which is not       *)
(* modelled, nor is the picture of the chooser, which has no pointers.          *)
(***************************************************************************)
EXTENDS Integers, Sequences, FiniteSets

CONSTANTS
    Pointing,      \* the pointers: the sharer's and the controllers'
    Interval,       \* redraw_interval
    RestsAfter,     \* inactivity_timeout
    HidesAfter,     \* CURSOR_HIDE_TIMEOUT
    RippleTime,     \* ANIMATION_DURATION
    MaxAnimations,  \* MAX_ANIMATIONS
    Lag,            \* how long the event loop may take to draw
    MaxLost,        \* bound: frames that are lost
    MaxSpots,       \* bound: where a pointer goes
    MaxClicks       \* bound: clicks

ASSUME RedrawAssumption ==
    /\ Interval \in Nat \ {0} /\ Lag \in Nat /\ RippleTime \in Nat /\ HidesAfter \in Nat
    /\ RestsAfter \in Nat /\ RestsAfter > HidesAfter + 2 * Interval + Lag
    /\ RestsAfter > RippleTime + Interval + (MaxLost + MaxClicks + 2) * (Interval + Lag)
    /\ MaxAnimations \in Nat \ {0} /\ IsFiniteSet(Pointing)
    /\ MaxLost \in Nat /\ MaxSpots \in Nat /\ MaxClicks \in Nat

VARIABLES
    signals,        \* Activity, sent and not received
    sinceActivity,  \* since last_activity_time
    waited,         \* how long the thread has waited for a command
    asked,          \* a frame is asked for
    askedFor,       \* since when
    spot,           \* where each pointer is
    showing,        \* the pointers whose CursorState is visible
    shownFor,       \* since last_show_time
    clicksSent,     \* positions sent to the renderer of clicks
    ripples,        \* used_slots: how long each has run, the oldest first
    canvas,         \* what the last frame shows
    behind,         \* since the canvas is out of date
    lost, clicked

threadVars == <<sinceActivity, waited>>
stateVars == <<spot, showing, shownFor>>
clickVars == <<clicksSent, ripples, clicked>>
canvasVars == <<canvas, behind, lost>>
redrawVars == <<signals, threadVars, asked, askedFor, stateVars, clickVars, canvasVars>>

--------------------------------------------------------------------------------
(* Changes. *)

Nowhere == 0

Truth == [p \in Pointing |-> IF p \in showing THEN spot[p] ELSE Nowhere]
UpToDate == canvas.pointers = Truth /\ clicksSent = 0

Activity == signals' = signals + 1

ElseSame == UNCHANGED <<threadVars, asked, askedFor, canvasVars>>

\* The owner moves the pointer: it is shown.
SetPosition(p) ==
    /\ spot[p] < MaxSpots
    /\ spot' = [spot EXCEPT ![p] = @ + 1]
    /\ showing' = showing \cup {p} /\ shownFor' = [shownFor EXCEPT ![p] = 0]
    /\ Activity /\ ElseSame /\ UNCHANGED clickVars

\* The owner takes control, or leaves.
Hide(p) ==
    /\ p \in showing
    /\ showing' = showing \ {p} /\ shownFor' = [shownFor EXCEPT ![p] = 0]
    /\ Activity /\ ElseSame /\ UNCHANGED <<spot, clickVars>>

TriggerClickAnimation ==
    /\ clicked < MaxClicks
    /\ clicked' = clicked + 1 /\ clicksSent' = clicksSent + 1
    /\ Activity /\ ElseSame /\ UNCHANGED <<stateVars, ripples>>

--------------------------------------------------------------------------------
(* The thread. *)

Request ==
    /\ asked' = TRUE
    /\ askedFor' = IF asked THEN askedFor ELSE 0

\* Mutant of Accepts: a command that comes too soon starts the interval anew.
AcceptsAndRestarts ==
    /\ sinceActivity' = 0
    /\ IF sinceActivity < Interval THEN UNCHANGED <<asked, askedFor>> ELSE Request

\* An activity within an interval of the last that was accepted is skipped.
Accepts ==
    IF sinceActivity < Interval THEN UNCHANGED <<sinceActivity, asked, askedFor>>
    ELSE sinceActivity' = 0 /\ Request

ThreadHears ==
    /\ signals > 0 /\ signals' = signals - 1
    /\ waited' = 0
    /\ Accepts
    /\ UNCHANGED <<stateVars, clickVars, canvasVars>>

ThreadTimesOut ==
    /\ signals = 0 /\ waited = Interval
    /\ waited' = 0
    /\ IF sinceActivity > RestsAfter THEN UNCHANGED <<asked, askedFor>> ELSE Request
    /\ UNCHANGED <<signals, sinceActivity, stateVars, clickVars, canvasVars>>

--------------------------------------------------------------------------------
(* A frame. *)

\* hide_inactive_cursors, after update_cursors has taken the positions.
HideInactive ==
    LET expired == {p \in showing : shownFor[p] > HidesAfter} IN
    /\ showing' = showing \ expired
    /\ shownFor' = [p \in Pointing |-> IF p \in expired THEN 0 ELSE shownFor[p]]
    /\ signals' = signals + Cardinality(expired)
    /\ UNCHANGED spot

\* The ripples from the first on that has not run out.
StillRunning(running) ==
    LET first == CHOOSE k \in 1..(Len(running) + 1) :
                     /\ \A i \in 1..(k - 1) : running[i] > RippleTime
                     /\ k <= Len(running) => running[k] <= RippleTime
    IN SubSeq(running, first, Len(running))

\* A click that finds no slot is lost, and those after it wait for the next frame, even
\* when the slots that have run out are about to be free again.
UpdateClicks ==
    LET free == MaxAnimations - Len(ripples)
        begun == IF clicksSent < free THEN clicksSent ELSE free IN
    /\ clicksSent' = IF clicksSent > free THEN clicksSent - free - 1 ELSE 0
    /\ ripples' = StillRunning(ripples \o [i \in 1..begun |-> 0])
    /\ UNCHANGED clicked

Drawn ==
    /\ UpdateClicks
    /\ canvas' = [pointers |-> Truth, ripples |-> Len(ripples')]
    /\ behind' = 0 /\ UNCHANGED lost

FrameIsLost ==
    /\ lost < MaxLost /\ lost' = lost + 1
    /\ UNCHANGED <<clickVars, canvas, behind>>

RenderFrame ==
    /\ asked /\ asked' = FALSE /\ askedFor' = 0
    /\ HideInactive
    /\ Drawn \/ FrameIsLost
    /\ UNCHANGED threadVars

--------------------------------------------------------------------------------
(* Time. *)

UpTo(age, limit) == IF age > limit THEN age ELSE age + 1

Tick ==
    /\ signals = 0 /\ waited < Interval /\ (asked => askedFor < Lag)
    /\ waited' = waited + 1
    /\ sinceActivity' = UpTo(sinceActivity, RestsAfter)
    /\ askedFor' = IF asked THEN askedFor + 1 ELSE 0
    /\ shownFor' = [p \in Pointing |->
                        IF p \in showing THEN UpTo(shownFor[p], HidesAfter) ELSE 0]
    /\ ripples' = [i \in DOMAIN ripples |-> UpTo(ripples[i], RippleTime)]
    /\ behind' = IF UpToDate THEN 0 ELSE behind + 1
    /\ UNCHANGED <<signals, asked, spot, showing, clicksSent, clicked, canvas, lost>>

RedrawInit ==
    /\ signals = 0 /\ sinceActivity = 0 /\ waited = 0 /\ asked = FALSE /\ askedFor = 0
    /\ spot = [p \in Pointing |-> 0] /\ showing = {} /\ shownFor = [p \in Pointing |-> 0]
    /\ clicksSent = 0 /\ ripples = <<>> /\ clicked = 0
    /\ canvas = [pointers |-> [p \in Pointing |-> Nowhere], ripples |-> 0]
    /\ behind = 0 /\ lost = 0

RedrawNext ==
    \/ \E p \in Pointing : SetPosition(p) \/ Hide(p)
    \/ TriggerClickAnimation \/ ThreadHears \/ ThreadTimesOut \/ RenderFrame \/ Tick

RedrawSpec == RedrawInit /\ [][RedrawNext]_redrawVars

--------------------------------------------------------------------------------
\* Every variable has its type.
RedrawTypeOK ==
    /\ signals \in Nat /\ sinceActivity \in 0..(RestsAfter + 1) /\ waited \in 0..Interval
    /\ asked \in BOOLEAN /\ askedFor \in 0..Lag
    /\ spot \in [Pointing -> 0..MaxSpots] /\ showing \subseteq Pointing
    /\ shownFor \in [Pointing -> 0..(HidesAfter + 1)]
    /\ clicksSent \in 0..MaxClicks /\ clicked \in 0..MaxClicks
    /\ ripples \in Seq(0..(RippleTime + 1)) /\ Len(ripples) <= MaxAnimations
    /\ canvas \in [pointers : [Pointing -> 0..MaxSpots], ripples : 0..MaxAnimations]
    /\ behind \in Nat /\ lost \in 0..MaxLost

\* As long as skipping and waiting may take, once more for every frame that is lost.
Patience == (MaxLost + 1) * (2 * Interval + Lag)

Resting == sinceActivity > RestsAfter /\ signals = 0 /\ ~asked

\* However fast the activities come, what has changed is drawn within two intervals, and
\* when the thread rests nothing is left on the overlay: no pointer that has long stopped
\* and no ripple of a click (graphics_context.rs, redraw_thread).
NothingLeftBehind ==
    /\ behind <= Patience
    /\ Resting =>
        /\ UpToDate /\ showing = {}
        /\ canvas.ripples = 0
================================================================================
