----------------------------- MODULE MCReconnect -----------------------------
(* The local widget's thread and the overlay's thread make the clicks; the *)
(* overlay has no Reconnect.                                               *)
EXTENDS Reconnect

CONSTANTS panel, overlay

Callers == {panel, overlay}
=============================================================================
