--------------------------- MODULE MCRelayProcess ---------------------------
(* One plugin object, the factory's lock, and a channel that may be in two *)
(* calls at once.                                                          *)
EXTENDS RelayProcess, TLC

CONSTANTS p, c, k1, k2

Calls   == {k1, k2}
OwnerOf == c :> p
=============================================================================
