----------------------------- MODULE CaptureSession -----------------------------
(***************************************************************************)
(* What the screen capturer promises the rest of the core: one content is  *)
(* captured at a time, it changes only by a stop and a start, and a        *)
(* capture that has failed does not stay so: it recovers with the same     *)
(* content, it is stopped, or the process ends (which the application      *)
(* notices).  ScreenCapture implements this.                               *)
(***************************************************************************)
CONSTANTS Content, None

VARIABLES
    content,        \* what is captured, or None
    failing,        \* the capture has failed and gives no pictures
    over            \* the process has ended

vars == <<content, failing, over>>

Init == content = None /\ failing = FALSE /\ over = FALSE

Start(c) ==
    /\ content = None /\ ~over
    /\ content' = c
    /\ UNCHANGED <<failing, over>>

Stop ==
    /\ content # None /\ ~over
    /\ content' = None
    /\ failing' = FALSE
    /\ UNCHANGED over

Fail ==
    /\ content # None /\ ~failing /\ ~over
    /\ failing' = TRUE
    /\ UNCHANGED <<content, over>>

Recover ==
    /\ failing /\ ~over
    /\ failing' = FALSE
    /\ UNCHANGED <<content, over>>

Exit ==
    /\ ~over
    /\ over' = TRUE
    /\ UNCHANGED <<content, failing>>

Next == (\E c \in Content : Start(c)) \/ Stop \/ Fail \/ Recover \/ Exit

\* A failed capture is dealt with.
Spec == Init /\ [][Next]_vars /\ WF_vars(failing /\ (Recover \/ Stop \/ Exit))
================================================================================
