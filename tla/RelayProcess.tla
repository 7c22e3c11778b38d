---------------------------- MODULE RelayProcess ----------------------------
(***************************************************************************)
(* main() of dvc-relay-plugin.exe: its arguments decide whether a process  *)
(* changes the registration, runs as a COM server or returns at once.      *)
(* Either one process serves, or one after the other changes the registry. *)
(***************************************************************************)
EXTENDS Registration, RelayServer

VARIABLE mode   \* what the arguments of the (next) process ask for

vars == <<regVars, relayVars, mode>>

Argument == {"/register", "/unregister", "/machine", "-Embedding", "/?", "other"}

\* A machine-wide registration is refused, its removal is not.
Mode(args) ==
  CASE args \cap {"/?", "other"} # {} -> "usage"
    [] Cardinality(args \cap {"/register", "/unregister", "-Embedding"}) > 1 -> "usage"
    [] "/machine" \in args /\ "/unregister" \notin args -> "usage"
    [] "/register" \in args -> "register"
    [] "/unregister" \in args -> "unregister"
    [] OTHER -> "serve"

RunHelper ==
  /\ mode \in {"register", "unregister"}
  /\ Change(mode = "unregister")
  /\ \E args \in SUBSET Argument : Mode(args) # "serve" /\ mode' = Mode(args)
  /\ UNCHANGED relayVars

Helper ==
  /\ LeaveAlone \/ ChangeValue \/ ChangeFails \/ RollBackValue \/ Return \/ Killed
  /\ UNCHANGED <<relayVars, mode>>

Init ==
  /\ \E args \in SUBSET Argument : mode = Mode(args)
  /\ RegInit /\ RelayInit
  /\ mode = "serve" => registry = [i \in Value |-> "own"]

Serve ==
  /\ mode = "serve"
  /\ RelayNext
  /\ UNCHANGED <<regVars, mode>>

Next == RunHelper \/ Helper \/ Serve

Spec == Init /\ [][Next]_vars

FairSpec == Spec /\ (mode = "serve" => RelayFairness)

(* A server that no client keeps an object or a lock of comes to its end,  *)
(* whether it has been used or, after 30 s, not.                           *)
ServerEnds ==
  mode = "serve" => []<>(~Up \/ \E h \in Holder : life[h] \notin {"none", "gone"})
=============================================================================
