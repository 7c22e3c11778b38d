---------------------------- MODULE MCClientMod ----------------------------
(* The thread of the overlay: a setting starts and stops it, and its button *)
(* minimizes the frame.                                                     *)
EXTENDS ClientMod

Overlay == <<"helper">>
=============================================================================
