-------------------------- MODULE MCCaptureLifecycle --------------------------
(* CaptureLifecycle with up to MaxStarts presses of the start button. *)
EXTENDS CaptureLifecycle
===============================================================================
