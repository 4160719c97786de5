------------------------------ MODULE MCPopup -------------------------------
(* Two calls, one of them a Connect, and two windows: a popup can be        *)
(* reopened, orphaned, shared.                                              *)
EXTENDS Popup

CONSTANTS connect, other
=============================================================================
