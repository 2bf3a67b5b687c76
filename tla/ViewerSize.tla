------------------------------- MODULE ViewerSize -------------------------------
(***************************************************************************)
(* The size of the window in which a watcher sees the shared screen        *)
(* (core/src/window/screensharing_window.rs, window/aspect_ratio).         *)
(*                                                                         *)
(* A picture of another shape resizes the window, as large as the screen   *)
(* or as wide as the user has made it.  The window's resizes come back as  *)
(* events that tell neither who asked for them nor when.                   *)
(***************************************************************************)
EXTENDS Naturals, Sequences

CONSTANTS
    Dimensions,     \* the pictures' widths and heights
    NoDimensions,   \* no picture yet: 0
    Aspect,         \* the aspect ratio of dimensions
    FirstAspect,    \* 16:9
    Widest,         \* the width at which a window of an aspect fills the screen
    MaxReshapes,    \* bound: pictures of another shape, and new sharers
    MaxResizes      \* bound: the user's resizes

ASSUME ViewerSizeAssumption ==
    /\ NoDimensions \notin Dimensions
    /\ \A d \in Dimensions : Aspect[d] \in DOMAIN Widest
    /\ FirstAspect \in DOMAIN Widest
    /\ \A aspect \in DOMAIN Widest : Widest[aspect] \in Nat \ {0}
    /\ MaxReshapes \in Nat /\ MaxResizes \in Nat

VARIABLES
    streamShape,    \* last_stream_width, last_stream_height
    userResized,    \* user_has_resized
    target,         \* programmatic_resize_target: a size, or none
    system,         \* "macos" or "windows"
    size,           \* the window's size
    surface,        \* the surface's size
    resized,        \* Resized events
    reshapes, resizes

viewSizeVars == <<streamShape, userResized, target, system, size, surface, resized, reshapes,
                  resizes>>

--------------------------------------------------------------------------------
(* Sizes. *)

CurrentAspect == IF streamShape = NoDimensions THEN FirstAspect ELSE Aspect[streamShape]
CalculateMaxWindowSize(aspect) == [width |-> Widest[aspect], aspect |-> aspect]

\* As large as the screen, or as wide as the user made it.
SizeFor(aspect) ==
    IF userResized THEN [width |-> size.width, aspect |-> aspect]
    ELSE CalculateMaxWindowSize(aspect)

\* The system resizes the window, which may stay narrower; if the size changes it tells.
RequestInnerSize(wanted, events) ==
    \E width \in 1..wanted.width :
      /\ size' = [width |-> width, aspect |-> wanted.aspect]
      /\ resized' = IF size' = size THEN events ELSE Append(events, size')

--------------------------------------------------------------------------------
(* A new picture and a new sharer. *)

Reshape == reshapes < MaxReshapes /\ reshapes' = reshapes + 1

\* The redraw finds a picture of another shape in its slot.
StreamReshapes(d) ==
    /\ Reshape
    /\ d # streamShape /\ streamShape' = d
    /\ target' = <<SizeFor(Aspect[d])>>
    /\ RequestInnerSize(target'[1], resized)
    /\ UNCHANGED <<userResized, system, surface, resizes>>

\* update_window_with_new_sharer: the window stays as large as it is.
ForgetsSizes ==
    /\ Reshape
    /\ streamShape' = NoDimensions /\ userResized' = FALSE /\ target' = <<>>
    /\ UNCHANGED <<system, size, surface, resized, resizes>>

--------------------------------------------------------------------------------
(* The window is resized. *)

\* On macOS the system keeps the aspect; on Windows a maximised window need not have it.
UserResizes(s) ==
    /\ s # size /\ resizes < MaxResizes
    /\ system = "macos" => s.aspect = size.aspect
    /\ resizes' = resizes + 1
    /\ size' = s /\ resized' = Append(resized, s)
    /\ UNCHANGED <<streamShape, userResized, target, system, surface, reshapes>>

IsZoomed(s) == system = "macos" /\ s = CalculateMaxWindowSize(s.aspect)

\* correct_aspect_after_resize: what the size should be, if it is another.
CorrectAspectAfterResize(s) ==
    IF system = "macos" \/ s.aspect = CurrentAspect THEN <<>>
    ELSE IF s.width = Widest[s.aspect] THEN <<CalculateMaxWindowSize(CurrentAspect)>>
    ELSE <<[width |-> s.width, aspect |-> CurrentAspect]>>

\* An event while a target is awaited is not the user's, nor one before the first picture.
ByUser == target = <<>> /\ streamShape # NoDimensions

Corrects(s) == IF ByUser THEN CorrectAspectAfterResize(s) ELSE <<>>

\* A size that is corrected is not drawn: the correction's own event is awaited.
ResizedAndCorrected ==
    /\ resized # <<>> /\ Corrects(resized[1]) # <<>>
    /\ userResized' = TRUE
    /\ target' = Corrects(resized[1])
    /\ RequestInnerSize(target'[1], Tail(resized))
    /\ UNCHANGED <<streamShape, system, surface, reshapes, resizes>>

\* Mutant of DrawnSize: an event that is not the awaited one is ignored altogether.
DrawnUnlessStale(s) == IF target \in {<<>>, <<s>>} THEN s ELSE surface

\* Any other event's size is drawn, whoever asked for it.
DrawnSize(s) == s

Resized ==
    /\ resized # <<>> /\ Corrects(resized[1]) = <<>>
    /\ userResized' = (userResized \/ (ByUser /\ ~IsZoomed(resized[1])))
    /\ target' = IF target = <<resized[1]>> THEN <<>> ELSE target
    /\ surface' = DrawnSize(resized[1]) /\ resized' = Tail(resized)
    /\ UNCHANGED <<streamShape, system, size, reshapes, resizes>>

--------------------------------------------------------------------------------
(* Specification. *)

Widths == UNION {1..Widest[aspect] : aspect \in DOMAIN Widest}
Sizes == [width : Widths, aspect : DOMAIN Widest]

ViewSizeInit ==
    /\ streamShape = NoDimensions /\ userResized = FALSE /\ target = <<>>
    /\ size = [width |-> 1, aspect |-> FirstAspect] /\ surface = size
    /\ resized = <<>> /\ reshapes = 0 /\ resizes = 0
    /\ system \in {"macos", "windows"}

ViewSizeNext ==
    \/ \E d \in Dimensions : StreamReshapes(d)
    \/ ForgetsSizes
    \/ \E s \in Sizes : s.width <= Widest[s.aspect] /\ UserResizes(s)
    \/ ResizedAndCorrected \/ Resized

ViewSizeSpec == ViewSizeInit /\ [][ViewSizeNext]_viewSizeVars

--------------------------------------------------------------------------------
(* Correctness. *)

\* Every variable has its type.
ViewSizeTypeOK ==
    /\ streamShape \in Dimensions \cup {NoDimensions} /\ userResized \in BOOLEAN
    /\ size \in Sizes /\ surface \in Sizes /\ Len(target) <= 1
    /\ system \in {"macos", "windows"}
    /\ reshapes \in 0..MaxReshapes /\ resizes \in 0..MaxResizes

\* When no resize is on its way the window draws as large as it is, and if it waits for
\* none, in the shape of the picture.
DrawnToSize ==
    resized = <<>> =>
      /\ surface = size
      /\ (target = <<>> /\ streamShape # NoDimensions) => size.aspect = Aspect[streamShape]
================================================================================
