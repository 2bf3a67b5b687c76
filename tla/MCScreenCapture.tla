---------------------------- MODULE MCScreenCapture ----------------------------
(* Instances of ScreenCapture for TLC. *)
EXTENDS ScreenCapture

CONSTANTS display, window

MCContent == {display, window}
================================================================================
