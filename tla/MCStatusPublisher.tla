-------------------------- MODULE MCStatusPublisher --------------------------
(* Two ticking threads (the overlay's and the watchdog's) and the frame's. *)
EXTENDS StatusPublisher, TLC

CONSTANTS overlay, watchdog, uiThread

Tickers  == {overlay, watchdog}
Symmetry == Permutations(Tickers)
=============================================================================
