--------------------------------- MODULE Frames ---------------------------------
(***************************************************************************)
(* Rectangles on the desktop, in front-to-back order (core/src/lib.rs): which *)
(* windows can be seen, which is under the cursor, which comes next.  A frame  *)
(* is half-open, [x, x + w) by [y, y + h); the coordinates are whole numbers.  *)
(***************************************************************************)
EXTENDS Integers, Sequences

Frame == [x : Int, y : Int, w : Int, h : Int]

Box(x, y, w, h) == [x |-> x, y |-> y, w |-> w, h |-> h]

Covers(f, px, py) == px >= f.x /\ px < f.x + f.w /\ py >= f.y /\ py < f.y + f.h

Larger(a, b) == IF a >= b THEN a ELSE b
Smaller(a, b) == IF a <= b THEN a ELSE b

ValidFrame(f) == f.w > 0 /\ f.h > 0

\* The part of f that o covers: its left, top, right and bottom.
OverlapLeft(f, o) == Larger(f.x, o.x)
OverlapTop(f, o) == Larger(f.y, o.y)
OverlapRight(f, o) == Smaller(f.x + f.w, o.x + o.w)
OverlapBottom(f, o) == Smaller(f.y + f.h, o.y + o.h)

Overlaps(f, o) ==
    OverlapLeft(f, o) < OverlapRight(f, o) /\ OverlapTop(f, o) < OverlapBottom(f, o)

\* What is left of f above, below, left and right of the overlap.
Above(f, o) == Box(f.x, f.y, f.w, OverlapTop(f, o) - f.y)
Below(f, o) == Box(f.x, OverlapBottom(f, o), f.w, f.y + f.h - OverlapBottom(f, o))
LeftOf(f, o) ==
    Box(f.x, OverlapTop(f, o), OverlapLeft(f, o) - f.x, OverlapBottom(f, o) - OverlapTop(f, o))
RightOf(f, o) ==
    Box(OverlapRight(f, o), OverlapTop(f, o), f.x + f.w - OverlapRight(f, o),
        OverlapBottom(f, o) - OverlapTop(f, o))

\* Mutant of SubtractFrame: the right-hand part is forgotten.
SubtractAllButRight(f, o) ==
    IF ~Overlaps(f, o) THEN {f}
    ELSE {g \in {Above(f, o), Below(f, o), LeftOf(f, o)} : ValidFrame(g)}

SubtractFrame(f, o) ==
    IF ~Overlaps(f, o) THEN {f}
    ELSE {g \in {Above(f, o), Below(f, o), LeftOf(f, o), RightOf(f, o)} : ValidFrame(g)}

\* What is left of f when all the occluders are in front of it.
Fragments(f, occluders) ==
    LET left[i \in 0..Len(occluders)] ==
          IF i = 0 THEN {f} ELSE UNION {SubtractFrame(g, occluders[i]) : g \in left[i - 1]}
    IN left[Len(occluders)]

\* Windows, the front one first: identity, frame, and whether it is this process's.
DesktopWindow == [id : Nat \ {0}, frame : Frame, own : BOOLEAN]

FramesOf(windows) == [i \in DOMAIN windows |-> windows[i].frame]

\* The windows at some places, in their order, and the first of them: at most one.
AtPlaces(windows, places) ==
    LET taken[i \in 0..Len(windows)] ==
          IF i = 0 THEN <<>>
          ELSE IF i \in places THEN Append(taken[i - 1], windows[i]) ELSE taken[i - 1]
    IN taken[Len(windows)]

FirstAt(windows, places) ==
    IF places = {} THEN <<>>
    ELSE <<windows[CHOOSE i \in places : \A j \in places : i <= j]>>

\* The places of the windows of which something is seen; those that are not seen occlude
\* nothing more.
SeenPlaces(windows) ==
    LET seen[i \in 0..Len(windows)] ==
          IF i = 0 THEN {}
          ELSE IF /\ ValidFrame(windows[i].frame)
                  /\ Fragments(windows[i].frame, FramesOf(AtPlaces(windows, seen[i - 1]))) # {}
               THEN seen[i - 1] \cup {i} ELSE seen[i - 1]
    IN seen[Len(windows)]

VisibleWindows(windows) == AtPlaces(windows, SeenPlaces(windows))

\* The first that covers the point.
WindowAtCursor(windows, px, py) ==
    FirstAt(windows, {i \in DOMAIN windows : Covers(windows[i].frame, px, py)})

\* The window after or before the one with the identity id, the ends joined; the first
\* or the last when there is none.
CycleWindow(windows, id, forward) ==
    LET n == Len(windows)
        here == {i \in 1..n : windows[i].id = id}
        next == IF here = {} THEN (IF forward THEN 1 ELSE n)
                ELSE LET i == CHOOSE i \in here : \A j \in here : i <= j
                     IN IF forward THEN (i % n) + 1 ELSE IF i = 1 THEN n ELSE i - 1
    IN IF n = 0 THEN <<>> ELSE <<windows[next]>>

--------------------------------------------------------------------------------
(* Correctness: what the functions on windows are measured by. *)

\* The window that is seen at a point: the first that covers it.
SeenAt(windows, px, py) ==
    {i \in DOMAIN windows :
       /\ Covers(windows[i].frame, px, py)
       /\ \A j \in 1..(i - 1) : ~Covers(windows[j].frame, px, py)}

\* Windows that are in the order that they have in another list.
InOrder(windows, of) ==
    \A i, j \in DOMAIN windows :
      i < j => \E k, l \in DOMAIN of : k < l /\ of[k] = windows[i] /\ of[l] = windows[j]
================================================================================
