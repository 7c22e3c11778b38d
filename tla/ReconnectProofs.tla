--------------------------- MODULE ReconnectProofs ---------------------------
(* Proofs about Reconnect, for any set of clicking threads and any length  *)
(* of the grace period.                                                    *)
EXTENDS Reconnect, TLAPS

-----------------------------------------------------------------------------
(* Type correctness                                                        *)

\* Where each thread can be, and that the grace period is not over before it
\* has been waited for.
ThreadInv ==
  /\ \A t \in Caller : pc[t] \in {"idle", "park", "post", "unpark", "drop", "close", "show"}
  /\ pc["alert"] \in {"idle", "exchange", "start"}
  /\ pc["force"] \in {"idle", "park", "post", "sleep", "poll", "cancel", "clear",
                       "end", "guard", "create", "handBack", "kill"}
  /\ pc["ui"] \in {"idle", "enter", "take", "guard", "create", "handBack", "finish"}
  /\ pc["force"] \in {"sleep", "poll"} => waited < Grace
  /\ pc["force"] \in {"clear", "guard", "create", "handBack", "kill"} =>
       waited = Grace /\ ~closed

Typed == TypeOK /\ ThreadInv

LEMMA TypedInit == Init => Typed
<1>1. Init => TypeOK
  <2>1. 0 \in 0..MaxClose /\ 0 \in 0..Grace
    BY BoundAssumption
  <2>2. Init => /\ pc \in [Thread -> Place]
                /\ closes \in 0..MaxClose /\ waited \in 0..Grace
                /\ replacements \in Nat /\ later \subseteq Caller
    BY <2>1 DEF Init, Place
  <2>3. Init => /\ process \in {"running", "exited", "killed"}
                /\ frame \in {"open", "destroying", "gone"}
                /\ pending \in {"none", "fresh", "expired"}
                /\ unload \in {"loaded", "stopping", "quitting", "joined", "restoring", "showing",
                              "done"}
    BY DEF Init
  <2>4. Init => /\ hung \in BOOLEAN /\ launched \in BOOLEAN /\ inFlight \in BOOLEAN
                /\ closed \in BOOLEAN /\ stopping \in BOOLEAN /\ failed \in BOOLEAN
                /\ withdrawn \in BOOLEAN /\ cancelled \in BOOLEAN
    BY DEF Init
  <2> QED
    BY <2>2, <2>3, <2>4 DEF TypeOK
<1>2. Init => ThreadInv
  BY CallerAssumption DEF Init, ThreadInv, Thread
<1> QED
  BY <1>1, <1>2 DEF Typed

LEMMA TypedNext == Typed /\ [Next]_vars => Typed'
<1> SUFFICES ASSUME Typed, [Next]_vars PROVE TypeOK' /\ ThreadInv'
  BY DEF Typed
<1> USE CallerAssumption, BoundAssumption
    DEF Typed, TypeOK, ThreadInv, Place, Thread, Running, Goto, worldVars, planVars, forceVars, unloadVars,
    history
<1>1. ASSUME NEW t \in Caller, ClickReconnect(t) PROVE TypeOK' /\ ThreadInv'
  <2>1. TypeOK'
    <3>1. pc' \in [Thread -> Place]
      BY <1>1 DEF ClickReconnect
    <3>2. later' \subseteq Caller /\ withdrawn' \in BOOLEAN
      BY <1>1 DEF ClickReconnect
    <3> HIDE DEF Goto
    <3> QED
      BY <1>1, <3>1, <3>2 DEF ClickReconnect
  <2>2. ThreadInv'
    BY <1>1 DEF ClickReconnect
  <2> QED
    BY <2>1, <2>2
<1>2. ASSUME NEW t \in Caller, ClickDisconnect(t) PROVE TypeOK' /\ ThreadInv'
  BY <1>2 DEF ClickDisconnect, ReconnectClicked
<1>3. ASSUME NEW t \in Caller \cup {"force"}, SetPendingReconnect(t) PROVE TypeOK' /\ ThreadInv'
  BY <1>3 DEF SetPendingReconnect
<1>4. ASSUME NEW t \in Caller, PostReconnectClose(t) PROVE TypeOK' /\ ThreadInv'
  BY <1>4 DEF PostReconnectClose
<1>5. ASSUME NEW t \in Caller, Unpark(t) PROVE TypeOK' /\ ThreadInv'
  BY <1>5 DEF Unpark
<1>6. ASSUME NEW t \in Caller, ClearPendingReconnect(t) PROVE TypeOK' /\ ThreadInv'
  BY <1>6 DEF ClearPendingReconnect, Withdraws
<1>7. ASSUME NEW t \in Caller, PostPlainClose(t) PROVE TypeOK' /\ ThreadInv'
  BY <1>7 DEF PostPlainClose, PostClose
<1>8. ASSUME NEW t \in {"ui", "force"}, TakeGuard(t) PROVE TypeOK' /\ ThreadInv'
  BY <1>8 DEF TakeGuard, AfterLaunch
<1>9. ASSUME NEW t \in {"ui", "force"}, CreateReplacement(t) PROVE TypeOK' /\ ThreadInv'
  <2>1. TypeOK'
    <3>1. pc' \in [Thread -> Place]
      BY <1>9 DEF CreateReplacement, AfterLaunch
    <3>2. replacements' \in Nat /\ failed' \in BOOLEAN
      <4>1. CASE replacements' = replacements + 1 /\ failed' = failed
        BY <4>1
      <4>2. CASE replacements' = replacements /\ failed' = TRUE
        BY <4>2
      <4> QED
        BY <1>9, <4>1, <4>2 DEF CreateReplacement
    <3> HIDE DEF Goto
    <3> QED
      BY <1>9, <3>1, <3>2 DEF CreateReplacement, AfterLaunch
  <2>2. ThreadInv'
    BY <1>9 DEF CreateReplacement, AfterLaunch
  <2> QED
    BY <2>1, <2>2
<1>10. ASSUME NEW t \in {"ui", "force"}, HandBackGuard(t) PROVE TypeOK' /\ ThreadInv'
  <2>1. TypeOK'
    <3>1. pc' \in [Thread -> Place]
      BY <1>10 DEF HandBackGuard, AfterLaunch
    <3>2. launched' \in BOOLEAN
      BY <1>10 DEF HandBackGuard, AfterLaunch
    <3> HIDE DEF Goto
    <3> QED
      BY <1>10, <3>1, <3>2 DEF HandBackGuard, AfterLaunch
  <2>2. ThreadInv'
    BY <1>10 DEF HandBackGuard, AfterLaunch
  <2> QED
    BY <2>1, <2>2
<1>11. CASE ProcessClose
  BY <1>11 DEF ProcessClose
<1>12. CASE CloseByItself
  BY <1>12 DEF CloseByItself
<1>13. CASE EnterLaunchPending
  BY <1>13 DEF EnterLaunchPending
<1>14. CASE TakePlan
  BY <1>14 DEF TakePlan
<1>15. CASE FinishDestroy
  BY <1>15 DEF FinishDestroy
<1>16. CASE ProcessExits
  BY <1>16 DEF ProcessExits
<1>17. CASE HangOrRecover
  BY <1>17 DEF HangOrRecover
<1>18. CASE PlanExpires
  BY <1>18 DEF PlanExpires
<1>19. CASE ClickForce
  <2>1. TypeOK'
    <3>1. pc' \in [Thread -> Place]
      BY <1>19 DEF ClickForce
    <3>2. later' \subseteq Caller /\ withdrawn' \in BOOLEAN
      BY <1>19 DEF ClickForce
    <3> HIDE DEF Goto
    <3> QED
      BY <1>19, <3>1, <3>2 DEF ClickForce
  <2>2. ThreadInv'
    BY <1>19 DEF ClickForce
  <2> QED
    BY <2>1, <2>2
<1>20. CASE ExchangeInFlight
  BY <1>20 DEF ExchangeInFlight
<1>21. CASE StartForceThread
  <2>1. TypeOK'
    <3>1. pc' \in [Thread -> Place]
      BY <1>21 DEF StartForceThread
    <3>2. inFlight' \in BOOLEAN
      BY <1>21 DEF StartForceThread
    <3> HIDE DEF Goto
    <3> QED
      BY <1>21, <3>1, <3>2 DEF StartForceThread
  <2>2. ThreadInv'
    BY <1>21 DEF StartForceThread
  <2> QED
    BY <2>1, <2>2
<1>22. CASE PostForcedClose
  BY <1>22 DEF PostForcedClose, PostClose
<1>23. CASE Sleep
  BY <1>23 DEF Sleep
<1>24. CASE PollStopping
  BY <1>24 DEF PollStopping
<1>25. CASE ClearPendingForced
  BY <1>25 DEF ClearPendingForced
<1>26. CASE EndForceThread
  <2>1. TypeOK'
    <3>1. pc' \in [Thread -> Place]
      BY <1>26 DEF EndForceThread
    <3>2. inFlight' \in BOOLEAN
      BY <1>26 DEF EndForceThread
    <3>3. closed' \in BOOLEAN
      BY <1>26 DEF EndForceThread
    <3>4. waited' \in 0..Grace
      BY <1>26 DEF EndForceThread
    <3> HIDE DEF Goto
    <3> QED
      BY <1>26, <3>1, <3>2, <3>3, <3>4 DEF EndForceThread
  <2>2. ThreadInv'
    BY <1>26 DEF EndForceThread
  <2> QED
    BY <2>1, <2>2
<1>27. CASE TerminateProcess
  BY <1>27 DEF TerminateProcess
<1>28. CASE BeginUnload
  BY <1>28 DEF BeginUnload, GraceRuns
<1>29. CASE PostQuit
  BY <1>29 DEF PostQuit
<1>30. CASE JoinThreads
  BY <1>30 DEF JoinThreads
<1>31. CASE JoinForceThread
  BY <1>31 DEF JoinForceThread
<1>38. ASSUME NEW t \in Caller, ClickShow(t) \/ ShowReturns(t) PROVE TypeOK' /\ ThreadInv'
  BY <1>38 DEF ClickShow, ShowReturns
<1>39. CASE RestoreFrame \/ ShowBar
  BY <1>39 DEF RestoreFrame, ShowBar
<1>32. CASE UNCHANGED vars
  BY <1>32 DEF vars, unloadVars
<1> HIDE DEF Typed, TypeOK, ThreadInv, Place,
        Thread, Running, Goto, worldVars, planVars, forceVars, unloadVars, history
<1>33. ASSUME NEW t \in {"ui", "force"}, Launch(t) PROVE TypeOK' /\ ThreadInv'
  BY <1>8, <1>9, <1>10, <1>33 DEF Launch
<1>34. ASSUME NEW t \in Caller, Click(t) \/ Call(t) PROVE TypeOK' /\ ThreadInv'
  BY <1>1, <1>2, <1>3, <1>4, <1>5, <1>6, <1>7, <1>38, <1>34 DEF Click, Call
<1>35. CASE Ui
  BY <1>13, <1>14, <1>15, <1>33, <1>35 DEF Ui
<1>36. CASE ForceWorker
  <2>1. CASE SetPendingReconnect("force")
    BY <1>3, <2>1
  <2>2. CASE Launch("force")
    BY <1>33, <2>2
  <2>3. CASE PostForcedClose \/ Sleep \/ PollStopping
    BY <1>22, <1>23, <1>24, <2>3
  <2>4. CASE ClearPendingForced \/ EndForceThread \/ TerminateProcess
    BY <1>25, <1>26, <1>27, <2>4
  <2> QED
    BY <1>36, <2>1, <2>2, <2>3, <2>4 DEF ForceWorker
<1>37. CASE Alert \/ Unload
  BY <1>20, <1>21, <1>29, <1>30, <1>31, <1>37, <1>39 DEF Alert, Unload
<1> QED
  BY <1>11, <1>12, <1>16, <1>17, <1>18, <1>19, <1>28, <1>32, <1>34, <1>35, <1>36,
     <1>37, <1>38, <1>39 DEF Next

(* Every variable keeps its type; the grace period counts no further than  *)
(* its length.                                                             *)
THEOREM TypeCorrect == Spec => []TypeOK
<1>1. Typed => TypeOK
  BY DEF Typed
<1> QED
  BY <1>1, TypedInit, TypedNext, PTL DEF Spec

-----------------------------------------------------------------------------
(* Launching the replacement                                               *)

Launching(t) == pc[t] \in {"create", "handBack"}

\* The guard is set while a replacement exists or is being started; it is
\* handed back only by the thread that holds it.
LaunchInv ==
  /\ replacements <= 1
  /\ replacements = 1 => launched
  /\ \A t \in {"ui", "force"} : Launching(t) => launched /\ replacements = 0
  /\ ~(Launching("ui") /\ Launching("force"))

\* The frame's thread launches while it destroys the frame, the force thread
\* just before it terminates the process.
SessionInv ==
  /\ pc["ui"] # "idle" => frame = "destroying"
  /\ (replacements > 0 /\ Running /\ frame = "open") => pc["force"] = "kill"

Guarded == Typed /\ LaunchInv /\ SessionInv

LEMMA GuardedInit == Init => Guarded
BY TypedInit, CallerAssumption DEF Init, Guarded, LaunchInv, Launching, SessionInv, Thread

LEMMA GuardedNext == Guarded /\ [Next]_vars => Guarded'
<1> SUFFICES ASSUME Guarded, [Next]_vars PROVE LaunchInv' /\ SessionInv'
  BY TypedNext DEF Guarded
<1> USE CallerAssumption, BoundAssumption
    DEF Guarded, Typed, TypeOK, ThreadInv, Place, LaunchInv, Launching, SessionInv, Thread, Running, Goto, worldVars, planVars, forceVars, unloadVars,
    history
<1>1. ASSUME NEW t \in Caller, ClickReconnect(t) PROVE LaunchInv' /\ SessionInv'
  BY <1>1 DEF ClickReconnect
<1>2. ASSUME NEW t \in Caller, ClickDisconnect(t) PROVE LaunchInv' /\ SessionInv'
  BY <1>2 DEF ClickDisconnect, ReconnectClicked
<1>3. ASSUME NEW t \in Caller \cup {"force"}, SetPendingReconnect(t) PROVE LaunchInv' /\ SessionInv'
  BY <1>3 DEF SetPendingReconnect
<1>4. ASSUME NEW t \in Caller, PostReconnectClose(t) PROVE LaunchInv' /\ SessionInv'
  BY <1>4 DEF PostReconnectClose
<1>5. ASSUME NEW t \in Caller, Unpark(t) PROVE LaunchInv' /\ SessionInv'
  BY <1>5 DEF Unpark
<1>6. ASSUME NEW t \in Caller, ClearPendingReconnect(t) PROVE LaunchInv' /\ SessionInv'
  BY <1>6 DEF ClearPendingReconnect, Withdraws
<1>7. ASSUME NEW t \in Caller, PostPlainClose(t) PROVE LaunchInv' /\ SessionInv'
  BY <1>7 DEF PostPlainClose, PostClose
<1>8. ASSUME NEW t \in {"ui", "force"}, TakeGuard(t) PROVE LaunchInv' /\ SessionInv'
  BY <1>8 DEF TakeGuard, AfterLaunch
<1>9. ASSUME NEW t \in {"ui", "force"}, CreateReplacement(t) PROVE LaunchInv' /\ SessionInv'
  BY <1>9 DEF CreateReplacement, AfterLaunch
<1>10. ASSUME NEW t \in {"ui", "force"}, HandBackGuard(t) PROVE LaunchInv' /\ SessionInv'
  BY <1>10 DEF HandBackGuard, AfterLaunch
<1>11. CASE ProcessClose
  BY <1>11 DEF ProcessClose
<1>12. CASE CloseByItself
  BY <1>12 DEF CloseByItself
<1>13. CASE EnterLaunchPending
  BY <1>13 DEF EnterLaunchPending
<1>14. CASE TakePlan
  BY <1>14 DEF TakePlan
<1>15. CASE FinishDestroy
  BY <1>15 DEF FinishDestroy
<1>16. CASE ProcessExits
  BY <1>16 DEF ProcessExits
<1>17. CASE HangOrRecover
  BY <1>17 DEF HangOrRecover
<1>18. CASE PlanExpires
  BY <1>18 DEF PlanExpires
<1>19. CASE ClickForce
  BY <1>19 DEF ClickForce
<1>20. CASE ExchangeInFlight
  BY <1>20 DEF ExchangeInFlight
<1>21. CASE StartForceThread
  BY <1>21 DEF StartForceThread
<1>22. CASE PostForcedClose
  BY <1>22 DEF PostForcedClose, PostClose
<1>23. CASE Sleep
  BY <1>23 DEF Sleep
<1>24. CASE PollStopping
  BY <1>24 DEF PollStopping
<1>25. CASE ClearPendingForced
  BY <1>25 DEF ClearPendingForced
<1>26. CASE EndForceThread
  BY <1>26 DEF EndForceThread
<1>27. CASE TerminateProcess
  BY <1>27 DEF TerminateProcess
<1>28. CASE BeginUnload
  BY <1>28 DEF BeginUnload, GraceRuns
<1>29. CASE PostQuit
  BY <1>29 DEF PostQuit
<1>30. CASE JoinThreads
  BY <1>30 DEF JoinThreads
<1>31. CASE JoinForceThread
  BY <1>31 DEF JoinForceThread
<1>38. ASSUME NEW t \in Caller, ClickShow(t) \/ ShowReturns(t) PROVE LaunchInv' /\ SessionInv'
  BY <1>38 DEF ClickShow, ShowReturns
<1>39. CASE RestoreFrame \/ ShowBar
  BY <1>39 DEF RestoreFrame, ShowBar
<1>32. CASE UNCHANGED vars
  BY <1>32 DEF vars, unloadVars
<1> HIDE DEF Guarded, Typed, TypeOK, ThreadInv, Place, LaunchInv, Launching, SessionInv,
        Thread, Running, Goto, worldVars, planVars, forceVars, unloadVars, history
<1>33. ASSUME NEW t \in {"ui", "force"}, Launch(t) PROVE LaunchInv' /\ SessionInv'
  BY <1>8, <1>9, <1>10, <1>33 DEF Launch
<1>34. ASSUME NEW t \in Caller, Click(t) \/ Call(t) PROVE LaunchInv' /\ SessionInv'
  BY <1>1, <1>2, <1>3, <1>4, <1>5, <1>6, <1>7, <1>38, <1>34 DEF Click, Call
<1>35. CASE Ui
  BY <1>13, <1>14, <1>15, <1>33, <1>35 DEF Ui
<1>36. CASE ForceWorker
  <2>1. CASE SetPendingReconnect("force")
    BY <1>3, <2>1
  <2>2. CASE Launch("force")
    BY <1>33, <2>2
  <2>3. CASE PostForcedClose \/ Sleep \/ PollStopping
    BY <1>22, <1>23, <1>24, <2>3
  <2>4. CASE ClearPendingForced \/ EndForceThread \/ TerminateProcess
    BY <1>25, <1>26, <1>27, <2>4
  <2> QED
    BY <1>36, <2>1, <2>2, <2>3, <2>4 DEF ForceWorker
<1>37. CASE Alert \/ Unload
  BY <1>20, <1>21, <1>29, <1>30, <1>31, <1>37, <1>39 DEF Alert, Unload
<1> QED
  BY <1>11, <1>12, <1>16, <1>17, <1>18, <1>19, <1>28, <1>32, <1>34, <1>35, <1>36,
     <1>37, <1>38, <1>39 DEF Next

(* Both launch paths together start at most one replacement, whichever     *)
(* fails first, hands the guard back, or finds it taken.                   *)
THEOREM LaunchCorrect == Spec => []NeverDoubleLaunch
<1>1. Guarded => NeverDoubleLaunch
  BY DEF Guarded, LaunchInv, NeverDoubleLaunch
<1> QED
  BY <1>1, GuardedInit, GuardedNext, PTL DEF Spec

(* A replacement never runs beside an open session, except for the moment  *)
(* in which the force thread is about to terminate the process.            *)
THEOREM SessionCorrect == Spec => []OneClientPerSession
<1>1. Guarded => OneClientPerSession
  BY DEF Guarded, SessionInv, OneClientPerSession
<1> QED
  BY <1>1, GuardedInit, GuardedNext, PTL DEF Spec

-----------------------------------------------------------------------------
(* The unload                                                              *)

\* A force thread that the unload has found in its grace period sees the
\* stop flag before it can leave it for the launch.
CancelInv ==
  /\ stopping = (unload # "loaded")
  /\ cancelled => /\ stopping /\ process # "killed"
                  /\ pc["force"] \in {"idle", "park", "post", "sleep", "poll",
                                      "cancel", "end"}

\* Joined threads do not come back, and none of them starts a force thread.
JoinInv ==
  /\ unload \in {"joined", "restoring", "showing", "done"} => \A t \in Caller \cup {"alert"} : pc[t] = "idle"
  /\ unload \in {"restoring", "showing", "done"} => pc["force"] = "idle"

Unloads == Typed /\ CancelInv /\ JoinInv

LEMMA UnloadsInit == Init => Unloads
BY TypedInit, CallerAssumption DEF Init, Unloads, CancelInv, JoinInv, Thread

LEMMA UnloadsNext == Unloads /\ [Next]_vars => Unloads'
<1> SUFFICES ASSUME Unloads, [Next]_vars PROVE CancelInv' /\ JoinInv'
  BY TypedNext DEF Unloads
<1> USE CallerAssumption, BoundAssumption
    DEF Unloads, Typed, TypeOK, ThreadInv, Place, CancelInv, JoinInv, Thread, Running, Goto, worldVars, planVars, forceVars, unloadVars,
    history
<1>1. ASSUME NEW t \in Caller, ClickReconnect(t) PROVE CancelInv' /\ JoinInv'
  BY <1>1 DEF ClickReconnect
<1>2. ASSUME NEW t \in Caller, ClickDisconnect(t) PROVE CancelInv' /\ JoinInv'
  BY <1>2 DEF ClickDisconnect, ReconnectClicked
<1>3. ASSUME NEW t \in Caller \cup {"force"}, SetPendingReconnect(t) PROVE CancelInv' /\ JoinInv'
  BY <1>3 DEF SetPendingReconnect
<1>4. ASSUME NEW t \in Caller, PostReconnectClose(t) PROVE CancelInv' /\ JoinInv'
  BY <1>4 DEF PostReconnectClose
<1>5. ASSUME NEW t \in Caller, Unpark(t) PROVE CancelInv' /\ JoinInv'
  BY <1>5 DEF Unpark
<1>6. ASSUME NEW t \in Caller, ClearPendingReconnect(t) PROVE CancelInv' /\ JoinInv'
  BY <1>6 DEF ClearPendingReconnect, Withdraws
<1>7. ASSUME NEW t \in Caller, PostPlainClose(t) PROVE CancelInv' /\ JoinInv'
  BY <1>7 DEF PostPlainClose, PostClose
<1>8. ASSUME NEW t \in {"ui", "force"}, TakeGuard(t) PROVE CancelInv' /\ JoinInv'
  BY <1>8 DEF TakeGuard, AfterLaunch
<1>9. ASSUME NEW t \in {"ui", "force"}, CreateReplacement(t) PROVE CancelInv' /\ JoinInv'
  BY <1>9 DEF CreateReplacement, AfterLaunch
<1>10. ASSUME NEW t \in {"ui", "force"}, HandBackGuard(t) PROVE CancelInv' /\ JoinInv'
  BY <1>10 DEF HandBackGuard, AfterLaunch
<1>11. CASE ProcessClose
  BY <1>11 DEF ProcessClose
<1>12. CASE CloseByItself
  BY <1>12 DEF CloseByItself
<1>13. CASE EnterLaunchPending
  BY <1>13 DEF EnterLaunchPending
<1>14. CASE TakePlan
  BY <1>14 DEF TakePlan
<1>15. CASE FinishDestroy
  BY <1>15 DEF FinishDestroy
<1>16. CASE ProcessExits
  BY <1>16 DEF ProcessExits
<1>17. CASE HangOrRecover
  BY <1>17 DEF HangOrRecover
<1>18. CASE PlanExpires
  BY <1>18 DEF PlanExpires
<1>19. CASE ClickForce
  BY <1>19 DEF ClickForce
<1>20. CASE ExchangeInFlight
  BY <1>20 DEF ExchangeInFlight
<1>21. CASE StartForceThread
  BY <1>21 DEF StartForceThread
<1>22. CASE PostForcedClose
  BY <1>22 DEF PostForcedClose, PostClose
<1>23. CASE Sleep
  BY <1>23 DEF Sleep
<1>24. CASE PollStopping
  BY <1>24 DEF PollStopping
<1>25. CASE ClearPendingForced
  BY <1>25 DEF ClearPendingForced
<1>26. CASE EndForceThread
  BY <1>26 DEF EndForceThread
<1>27. CASE TerminateProcess
  BY <1>27 DEF TerminateProcess
<1>28. CASE BeginUnload
  BY <1>28 DEF BeginUnload, GraceRuns
<1>29. CASE PostQuit
  BY <1>29 DEF PostQuit
<1>30. CASE JoinThreads
  BY <1>30 DEF JoinThreads
<1>31. CASE JoinForceThread
  BY <1>31 DEF JoinForceThread
<1>38. ASSUME NEW t \in Caller, ClickShow(t) \/ ShowReturns(t) PROVE CancelInv' /\ JoinInv'
  BY <1>38 DEF ClickShow, ShowReturns
<1>39. CASE RestoreFrame \/ ShowBar
  BY <1>39 DEF RestoreFrame, ShowBar
<1>32. CASE UNCHANGED vars
  BY <1>32 DEF vars, unloadVars
<1> HIDE DEF Unloads, Typed, TypeOK, ThreadInv, Place, CancelInv, JoinInv,
        Thread, Running, Goto, worldVars, planVars, forceVars, unloadVars, history
<1>33. ASSUME NEW t \in {"ui", "force"}, Launch(t) PROVE CancelInv' /\ JoinInv'
  BY <1>8, <1>9, <1>10, <1>33 DEF Launch
<1>34. ASSUME NEW t \in Caller, Click(t) \/ Call(t) PROVE CancelInv' /\ JoinInv'
  BY <1>1, <1>2, <1>3, <1>4, <1>5, <1>6, <1>7, <1>38, <1>34 DEF Click, Call
<1>35. CASE Ui
  BY <1>13, <1>14, <1>15, <1>33, <1>35 DEF Ui
<1>36. CASE ForceWorker
  <2>1. CASE SetPendingReconnect("force")
    BY <1>3, <2>1
  <2>2. CASE Launch("force")
    BY <1>33, <2>2
  <2>3. CASE PostForcedClose \/ Sleep \/ PollStopping
    BY <1>22, <1>23, <1>24, <2>3
  <2>4. CASE ClearPendingForced \/ EndForceThread \/ TerminateProcess
    BY <1>25, <1>26, <1>27, <2>4
  <2> QED
    BY <1>36, <2>1, <2>2, <2>3, <2>4 DEF ForceWorker
<1>37. CASE Alert \/ Unload
  BY <1>20, <1>21, <1>29, <1>30, <1>31, <1>37, <1>39 DEF Alert, Unload
<1> QED
  BY <1>11, <1>12, <1>16, <1>17, <1>18, <1>19, <1>28, <1>32, <1>34, <1>35, <1>36,
     <1>37, <1>38, <1>39 DEF Next

(* An unload that begins during the grace period cancels the force thread: *)
(* it does not terminate the process.                                      *)
THEOREM CancelCorrect == Spec => []UnloadCancelsGrace
<1>1. Unloads => UnloadCancelsGrace
  BY DEF Unloads, CancelInv, UnloadCancelsGrace
<1> QED
  BY <1>1, UnloadsInit, UnloadsNext, PTL DEF Spec

(* After the unload no thread of the mod is left in the middle of a click, *)
(* of the alert or of a force reconnect.                                   *)
THEOREM QuietCorrect == Spec => []QuietAfterUnload
<1>1. Unloads => QuietAfterUnload
  BY DEF Unloads, JoinInv, QuietAfterUnload, Thread
<1> QED
  BY <1>1, UnloadsInit, UnloadsNext, PTL DEF Spec

-----------------------------------------------------------------------------
(* A plain Disconnect                                                      *)

\* While a Disconnect is the last click, no click on Reconnect is under way;
\* once it has dropped the plan nothing is left that parks or takes one.
WithdrawInv ==
  /\ later # {} => ~ReconnectClicked
  /\ withdrawn => /\ ~ReconnectClicked
                  /\ pending = "none" /\ pc["force"] # "park"
                  /\ pc["ui"] \notin {"guard", "create", "handBack"}

Withdrawable == Guarded /\ WithdrawInv

LEMMA WithdrawableInit == Init => Withdrawable
BY GuardedInit, CallerAssumption DEF Init, Withdrawable, WithdrawInv, ReconnectClicked

LEMMA WithdrawableNext == Withdrawable /\ [Next]_vars => Withdrawable'
<1> SUFFICES ASSUME Withdrawable, [Next]_vars PROVE WithdrawInv'
  BY GuardedNext DEF Withdrawable
<1> USE CallerAssumption, BoundAssumption
    DEF Withdrawable, Guarded, Typed, TypeOK, ThreadInv, Place, WithdrawInv, ReconnectClicked, SessionInv, Thread, Running, Goto, worldVars, planVars, forceVars, unloadVars,
    history
<1>1. ASSUME NEW t \in Caller, ClickReconnect(t) PROVE WithdrawInv'
  BY <1>1 DEF ClickReconnect
<1>2. ASSUME NEW t \in Caller, ClickDisconnect(t) PROVE WithdrawInv'
  BY <1>2 DEF ClickDisconnect
<1>3. ASSUME NEW t \in Caller \cup {"force"}, SetPendingReconnect(t) PROVE WithdrawInv'
  BY <1>3 DEF SetPendingReconnect
<1>4. ASSUME NEW t \in Caller, PostReconnectClose(t) PROVE WithdrawInv'
  BY <1>4 DEF PostReconnectClose
<1>5. ASSUME NEW t \in Caller, Unpark(t) PROVE WithdrawInv'
  BY <1>5 DEF Unpark
<1>6. ASSUME NEW t \in Caller, ClearPendingReconnect(t) PROVE WithdrawInv'
  BY <1>6 DEF ClearPendingReconnect, Withdraws
<1>7. ASSUME NEW t \in Caller, PostPlainClose(t) PROVE WithdrawInv'
  BY <1>7 DEF PostPlainClose, PostClose
<1>8. ASSUME NEW t \in {"ui", "force"}, TakeGuard(t) PROVE WithdrawInv'
  BY <1>8 DEF TakeGuard, AfterLaunch
<1>9. ASSUME NEW t \in {"ui", "force"}, CreateReplacement(t) PROVE WithdrawInv'
  BY <1>9 DEF CreateReplacement, AfterLaunch
<1>10. ASSUME NEW t \in {"ui", "force"}, HandBackGuard(t) PROVE WithdrawInv'
  BY <1>10 DEF HandBackGuard, AfterLaunch
<1>11. CASE ProcessClose
  BY <1>11 DEF ProcessClose
<1>12. CASE CloseByItself
  BY <1>12 DEF CloseByItself
<1>13. CASE EnterLaunchPending
  BY <1>13 DEF EnterLaunchPending
<1>14. CASE TakePlan
  BY <1>14 DEF TakePlan
<1>15. CASE FinishDestroy
  BY <1>15 DEF FinishDestroy
<1>16. CASE ProcessExits
  BY <1>16 DEF ProcessExits
<1>17. CASE HangOrRecover
  BY <1>17 DEF HangOrRecover
<1>18. CASE PlanExpires
  BY <1>18 DEF PlanExpires
<1>19. CASE ClickForce
  BY <1>19 DEF ClickForce
<1>20. CASE ExchangeInFlight
  BY <1>20 DEF ExchangeInFlight
<1>21. CASE StartForceThread
  BY <1>21 DEF StartForceThread
<1>22. CASE PostForcedClose
  BY <1>22 DEF PostForcedClose, PostClose
<1>23. CASE Sleep
  BY <1>23 DEF Sleep
<1>24. CASE PollStopping
  BY <1>24 DEF PollStopping
<1>25. CASE ClearPendingForced
  BY <1>25 DEF ClearPendingForced
<1>26. CASE EndForceThread
  BY <1>26 DEF EndForceThread
<1>27. CASE TerminateProcess
  BY <1>27 DEF TerminateProcess
<1>28. CASE BeginUnload
  BY <1>28 DEF BeginUnload, GraceRuns
<1>29. CASE PostQuit
  BY <1>29 DEF PostQuit
<1>30. CASE JoinThreads
  BY <1>30 DEF JoinThreads
<1>31. CASE JoinForceThread
  BY <1>31 DEF JoinForceThread
<1>38. ASSUME NEW t \in Caller, ClickShow(t) \/ ShowReturns(t) PROVE WithdrawInv'
  BY <1>38 DEF ClickShow, ShowReturns
<1>39. CASE RestoreFrame \/ ShowBar
  BY <1>39 DEF RestoreFrame, ShowBar
<1>32. CASE UNCHANGED vars
  BY <1>32 DEF vars, unloadVars
<1> HIDE DEF Withdrawable, Guarded, Guarded, Typed, TypeOK, ThreadInv, Place, WithdrawInv, ReconnectClicked, SessionInv,
        Thread, Running, Goto, worldVars, planVars, forceVars, unloadVars, history
<1>33. ASSUME NEW t \in {"ui", "force"}, Launch(t) PROVE WithdrawInv'
  BY <1>8, <1>9, <1>10, <1>33 DEF Launch
<1>34. ASSUME NEW t \in Caller, Click(t) \/ Call(t) PROVE WithdrawInv'
  BY <1>1, <1>2, <1>3, <1>4, <1>5, <1>6, <1>7, <1>38, <1>34 DEF Click, Call
<1>35. CASE Ui
  BY <1>13, <1>14, <1>15, <1>33, <1>35 DEF Ui
<1>36. CASE ForceWorker
  <2>1. CASE SetPendingReconnect("force")
    BY <1>3, <2>1
  <2>2. CASE Launch("force")
    BY <1>33, <2>2
  <2>3. CASE PostForcedClose \/ Sleep \/ PollStopping
    BY <1>22, <1>23, <1>24, <2>3
  <2>4. CASE ClearPendingForced \/ EndForceThread \/ TerminateProcess
    BY <1>25, <1>26, <1>27, <2>4
  <2> QED
    BY <1>36, <2>1, <2>2, <2>3, <2>4 DEF ForceWorker
<1>37. CASE Alert \/ Unload
  BY <1>20, <1>21, <1>29, <1>30, <1>31, <1>37, <1>39 DEF Alert, Unload
<1> QED
  BY <1>11, <1>12, <1>16, <1>17, <1>18, <1>19, <1>28, <1>32, <1>34, <1>35, <1>36,
     <1>37, <1>38, <1>39 DEF Next

(* After a Disconnect that is clicked when every click on Reconnect has     *)
(* returned and the plan is parked, whatever closes the frame starts        *)
(* nothing.  A replacement can come from the force thread only, with its    *)
(* own copy of the plan, after the whole grace period; it terminates the    *)
(* process next.                                                            *)
THEOREM DisconnectCorrect == Spec => NoCloseRelaunches
<1> DEFINE Step == (withdrawn /\ replacements' > replacements) =>
                     /\ pc["force"] = "create" /\ pc'["force"] = "kill"
                     /\ waited = Grace /\ ~closed
<1>1. ASSUME Withdrawable, [Next]_vars PROVE Step
  <2> SUFFICES ASSUME withdrawn, replacements' > replacements
               PROVE  /\ pc["force"] = "create" /\ pc'["force"] = "kill"
                      /\ waited = Grace /\ ~closed
    OBVIOUS
  <2>1. replacements \in Nat /\ replacements' # replacements
    BY <1>1 DEF Withdrawable, Guarded, Typed, TypeOK
  <2>2. CreateReplacement("ui") \/ CreateReplacement("force")
    BY <1>1, <2>1 DEF Next, Click, Call, Ui, Alert, ForceWorker, Unload, Launch, vars, history,
      ClickReconnect, ClickDisconnect, ClickShow, ShowReturns, SetPendingReconnect,
      PostReconnectClose, Unpark, ClearPendingReconnect, PostPlainClose, ProcessClose,
      CloseByItself, EnterLaunchPending, TakePlan, FinishDestroy, TakeGuard, HandBackGuard,
      ProcessExits, HangOrRecover, PlanExpires, ClickForce, ExchangeInFlight, StartForceThread,
      PostForcedClose, Sleep, PollStopping, ClearPendingForced, EndForceThread,
      TerminateProcess, BeginUnload, PostQuit, JoinThreads, JoinForceThread, RestoreFrame, ShowBar
  <2>3. ~CreateReplacement("ui")
    BY <1>1 DEF Withdrawable, WithdrawInv, CreateReplacement
  <2>4. pc["force"] = "create" /\ pc'["force"] \in {"kill", "handBack"}
    BY <1>1, <2>2, <2>3 DEF CreateReplacement, Goto, AfterLaunch, Withdrawable, Guarded, Typed,
      TypeOK, Thread
  <2>5. pc'["force"] = "kill"
    BY <1>1, <2>1, <2>2, <2>3 DEF CreateReplacement, Goto, AfterLaunch, Withdrawable, Guarded,
      Typed, TypeOK, Thread
  <2> QED
    BY <1>1, <2>4, <2>5 DEF Withdrawable, Guarded, Typed, ThreadInv
<1> QED
  BY <1>1, WithdrawableInit, WithdrawableNext, PTL DEF Spec, NoCloseRelaunches
=============================================================================
