---------------------------- MODULE MCHostActions ----------------------------
(* Two or three clicks of the kinds a run is about.                        *)
EXTENDS HostActions, TLC

CONSTANTS a, b, c   \* clicks

Actions   == (a :> "minimize") @@ (b :> "fullscreen")
Mixed     == (a :> "fullscreen") @@ (b :> "clipboard")
Minimizes == (a :> "minimize") @@ (b :> "minimize") @@ (c :> "minimize")

TwoClicks   == {a, b}
ThreeClicks == {a, b, c}
Symmetry    == Permutations(ThreeClicks)
=============================================================================
