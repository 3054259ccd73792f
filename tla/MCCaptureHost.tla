--------------------------- MODULE MCCaptureHost ---------------------------
(* CaptureHost with bounds on commands and faults. *)
EXTENDS CaptureHost
=============================================================================
