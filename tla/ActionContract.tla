--------------------------- MODULE ActionContract ---------------------------
(***************************************************************************)
(* What the toolkit promises the person who clicks Minimize or Fullscreen  *)
(* on the host taskbar, whatever the network, the relay and the client     *)
(* processes do.  A click names one client process lifetime.  Only that    *)
(* lifetime may carry the command out, and at most once.  The answer shown *)
(* is "refused" only if the command was not and will not be carried out,   *)
(* "succeeded" only if it was, and "unknown" when neither can be claimed   *)
(* (an unknown outcome may still be followed by a late execution).         *)
(***************************************************************************)
CONSTANTS Request,   \* the clicks
          Life,      \* client process lifetimes
          NoLife     \* no lifetime

VARIABLES asked,       \* asked[r]: the lifetime the click named, or NoLife
          carriedOut,  \* carriedOut[r]: the lifetimes that executed r, in order
          shown        \* shown[r]: the answer given for r

vars == <<asked, carriedOut, shown>>

Answers == {"nothing", "refused", "succeeded", "unknown"}

Init ==
  /\ asked = [r \in Request |-> NoLife]
  /\ carriedOut = [r \in Request |-> <<>>]
  /\ shown = [r \in Request |-> "nothing"]

Ask(r) ==
  /\ asked[r] = NoLife
  /\ \E l \in Life : asked' = [asked EXCEPT ![r] = l]
  /\ UNCHANGED <<carriedOut, shown>>

CarryOut(r) ==
  /\ asked[r] # NoLife
  /\ carriedOut[r] = <<>>
  /\ shown[r] # "refused"
  /\ carriedOut' = [carriedOut EXCEPT ![r] = <<asked[r]>>]
  /\ UNCHANGED <<asked, shown>>

Show(r, answer) ==
  /\ asked[r] # NoLife
  /\ shown[r] = "nothing"
  /\ answer = "refused" => carriedOut[r] = <<>>
  /\ answer = "succeeded" => carriedOut[r] # <<>>
  /\ shown' = [shown EXCEPT ![r] = answer]
  /\ UNCHANGED <<asked, carriedOut>>

Next ==
  \E r \in Request :
    \/ Ask(r)
    \/ CarryOut(r)
    \/ \E answer \in Answers \ {"nothing"} : Show(r, answer)

Spec == Init /\ [][Next]_vars
=============================================================================
