-------------------------------- MODULE MCCore --------------------------------
(* The core's call (CoreCall) and the cursors of a share (CursorControl).  They *)
(* share no state: in each behaviour one part runs and the other rests.         *)
EXTENDS CoreCall, CursorControl

VARIABLE part

coreVars == <<part, vars, cursorVars>>

CoreInit == part \in {"call", "cursors"} /\ Init /\ CursorInit

CoreNext ==
    \/ part = "call" /\ Next /\ UNCHANGED <<part, cursorVars>>
    \/ part = "cursors" /\ CursorNext /\ UNCHANGED <<part, vars>>

\* In a part that rests nothing that fairness is about can happen.
CoreSpec == CoreInit /\ [][CoreNext]_coreVars /\ Fairness /\ CursorFairness

\* Every variable of the call and the cursors has its type.
CoreTypeOK == TypeOK /\ CursorTypeOK
================================================================================
