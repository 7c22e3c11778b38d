------------------------------ MODULE Reconnect ------------------------------
(***************************************************************************)
(* Disconnect, Reconnect and Force reconnect inside one mstsc process.     *)
(* Reconnect parks a plan and posts WM_CLOSE; the frame's WM_DESTROY takes *)
(* the plan and starts the replacement.  Force reconnect does the same     *)
(* from a thread of its own, waits a grace period and, when the frame is   *)
(* still there, starts the replacement itself and terminates the process.  *)
(* A plain Disconnect drops the parked plan.  All of them, the user's own  *)
(* close and the unload of the mod interleave.  The threads that run these *)
(* clicks also minimize and restore the frame, and the unload shows the    *)
(* bar: calls that wait for the frame's thread, which may be hung.         *)
(*                                                                         *)
(* One process and one session frame; a plan is fresh or expired, its      *)
(* command line is left out.                                               *)
(***************************************************************************)
EXTENDS Naturals

CONSTANTS Caller,    \* threads that run the clicks: panel, relay, overlay
          Commander, \* those that may be asked to reconnect: the panel's
          Grace,     \* sleeps of the grace period (FORCE_GRACE_MS / 100)
          MaxClose   \* bound: WM_CLOSE messages under way

ASSUME CallerAssumption == Caller \cap {"alert", "force", "ui"} = {}
ASSUME CommanderAssumption == Commander \subseteq Caller
ASSUME BoundAssumption == Grace \in Nat \ {0} /\ MaxClose \in Nat

VARIABLES
  process,     \* "running", "exited" or "killed"
  frame,       \* the session frame: "open", "destroying" or "gone"
  hung,        \* the frame's thread does not process messages
  closes,      \* WM_CLOSE messages posted to the frame
  pending,     \* g_pendingReconnect
  launched,    \* g_reconnectLaunched
  inFlight,    \* g_forceReconnectInFlight
  pc,          \* pc[t]: what thread t does next
  closed,      \* local of ForceReconnectThread
  waited,      \* local of ForceReconnectThread: sleeps so far
  stopping,    \* g_clientStopping
  unload,      \* progress of ModUninit
  replacements,\* history: mstsc processes started
  failed,      \* history: a start has failed
  later,       \* history: Disconnects begun after every reconnect click
  withdrawn,   \* history: one of them has dropped the parked plan
  cancelled    \* history: the unload began during the grace period

worldVars  == <<process, frame, hung, closes>>
planVars   == <<pending, launched, inFlight>>
forceVars  == <<closed, waited>>
unloadVars == <<stopping, unload>>
history    == <<replacements, failed, later, withdrawn, cancelled>>
vars == <<worldVars, planVars, pc, forceVars, unloadVars, history>>

Thread == Caller \cup {"alert", "force", "ui"}
Running == process = "running"
Goto(t, place) == pc' = [pc EXCEPT ![t] = place]

\* PostMessage: a message is under way, or the call fails.
PostClose == closes' \in {closes, closes + 1} /\ closes' <= MaxClose

-----------------------------------------------------------------------------
(* ReconnectSessionClean                                                   *)

ClickReconnect(t) ==
  /\ t \in Commander /\ Running /\ pc[t] = "idle"
  /\ ~stopping /\ frame # "gone"
  /\ later' = {} /\ withdrawn' = FALSE
  /\ Goto(t, "park")
  /\ UNCHANGED <<worldVars, planVars, forceVars, unloadVars, replacements, failed,
                 cancelled>>

SetPendingReconnect(t) ==
  /\ Running /\ pc[t] = "park"
  /\ pending' = "fresh"
  /\ Goto(t, "post")
  /\ UNCHANGED <<worldVars, launched, inFlight, forceVars, unloadVars, history>>

PostReconnectClose(t) ==
  /\ Running /\ t \in Caller /\ pc[t] = "post"
  /\ \/ frame # "gone" /\ closes < MaxClose /\ closes' = closes + 1 /\ Goto(t, "idle")
     \/ UNCHANGED closes /\ Goto(t, "unpark")
  /\ UNCHANGED <<process, frame, hung, planVars, forceVars, unloadVars, history>>

Unpark(t) ==
  /\ Running /\ pc[t] = "unpark"
  /\ pending' = "none"
  /\ Goto(t, "idle")
  /\ UNCHANGED <<worldVars, launched, inFlight, forceVars, unloadVars, history>>

-----------------------------------------------------------------------------
(* DisconnectSession, from the overlay, its hotkey or the panel            *)

ReconnectClicked ==
  pc["alert"] # "idle" \/ \E t \in Caller : pc[t] \in {"park", "post", "unpark"}

ClickDisconnect(t) ==
  /\ Running /\ pc[t] = "idle"
  /\ unload \in {"loaded", "stopping"}
  /\ later' = IF ReconnectClicked THEN later ELSE later \cup {t}
  /\ Goto(t, "drop")
  /\ UNCHANGED <<worldVars, planVars, forceVars, unloadVars, replacements, failed,
                 withdrawn, cancelled>>

\* The plan of an accepted force reconnect may not have been parked yet.
Withdraws(t) == t \in later /\ frame = "open" /\ pc["force"] # "park"

\* Mutant: the plain Disconnect keeps the parked plan.
KeepPendingReconnect(t) ==
  /\ Running /\ pc[t] = "drop"
  /\ withdrawn' = (withdrawn \/ Withdraws(t))
  /\ later' = later \ {t}
  /\ Goto(t, "close")
  /\ UNCHANGED <<worldVars, planVars, forceVars, unloadVars, replacements, failed,
                 cancelled>>

ClearPendingReconnect(t) ==
  /\ Running /\ pc[t] = "drop"
  /\ pending' = "none"
  /\ withdrawn' = (withdrawn \/ Withdraws(t))
  /\ later' = later \ {t}
  /\ Goto(t, "close")
  /\ UNCHANGED <<worldVars, launched, inFlight, forceVars, unloadVars, replacements,
                 failed, cancelled>>

PostPlainClose(t) ==
  /\ Running /\ pc[t] = "close"
  /\ PostClose
  /\ Goto(t, "idle")
  /\ UNCHANGED <<process, frame, hung, planVars, forceVars, unloadVars, history>>

-----------------------------------------------------------------------------
(* MinimizeRdpFrame, RestoreRdpFrame and ToggleFullscreen on the same      *)
(* threads: ShowWindow returns when the frame's thread has handled it      *)

Responds == frame = "gone" \/ (~hung /\ pc["ui"] = "idle")

ClickShow(t) ==
  /\ Running /\ pc[t] = "idle"
  /\ unload \in {"loaded", "stopping"} /\ frame # "gone"
  /\ Goto(t, "show")
  /\ UNCHANGED <<worldVars, planVars, forceVars, unloadVars, history>>

ShowReturns(t) ==
  /\ Running /\ pc[t] = "show"
  /\ Responds
  /\ Goto(t, "idle")
  /\ UNCHANGED <<worldVars, planVars, forceVars, unloadVars, history>>

-----------------------------------------------------------------------------
(* The thread of the frame                                                 *)

Subclassed == unload \notin {"showing", "done"}

\* Mutant: the plan is launched on WM_CLOSE, before the user has confirmed.
LaunchOnClose ==
  /\ Running /\ ~hung /\ frame = "open" /\ pc["ui"] = "idle"
  /\ closes > 0
  /\ closes' = closes - 1
  /\ frame' \in {"open", "destroying"}
  /\ Goto("ui", IF Subclassed THEN "enter" ELSE "finish")
  /\ UNCHANGED <<process, hung, planVars, forceVars, unloadVars, history>>

\* The user may refuse in the prompt of mstsc; FrameSubclassProc sees
\* WM_DESTROY as long as the mod is loaded.
ProcessClose ==
  /\ Running /\ ~hung /\ frame = "open" /\ pc["ui"] = "idle"
  /\ closes > 0
  /\ closes' = closes - 1
  /\ \/ UNCHANGED <<frame, pc>>
     \/ /\ frame' = "destroying"
        /\ Goto("ui", IF Subclassed THEN "enter" ELSE "finish")
  /\ UNCHANGED <<process, hung, planVars, forceVars, unloadVars, history>>

\* The session ends, or the user closes the window.
CloseByItself ==
  /\ Running /\ ~hung /\ frame = "open" /\ pc["ui"] = "idle"
  /\ frame' = "destroying"
  /\ Goto("ui", IF Subclassed THEN "enter" ELSE "finish")
  /\ UNCHANGED <<process, hung, closes, planVars, forceVars, unloadVars, history>>

EnterLaunchPending ==
  /\ Running /\ pc["ui"] = "enter"
  /\ Goto("ui", IF stopping THEN "finish" ELSE "take")
  /\ UNCHANGED <<worldVars, planVars, forceVars, unloadVars, history>>

TakePlan ==
  /\ Running /\ pc["ui"] = "take"
  /\ pending' = "none"
  /\ Goto("ui", IF pending = "fresh" THEN "guard" ELSE "finish")
  /\ UNCHANGED <<worldVars, launched, inFlight, forceVars, unloadVars, history>>

FinishDestroy ==
  /\ Running /\ pc["ui"] = "finish"
  /\ frame' = IF frame = "destroying" THEN "gone" ELSE frame
  /\ Goto("ui", "idle")
  /\ UNCHANGED <<process, hung, closes, planVars, forceVars, unloadVars, history>>

\* mstsc exits soon after its frame has gone.
ProcessExits ==
  /\ Running /\ frame = "gone" /\ pc["ui"] = "idle"
  /\ process' = "exited"
  /\ UNCHANGED <<frame, hung, closes, planVars, pc, forceVars, unloadVars, history>>

HangOrRecover ==
  /\ Running /\ frame = "open" /\ pc["ui"] = "idle"
  /\ hung' = ~hung
  /\ UNCHANGED <<process, frame, closes, planVars, pc, forceVars, unloadVars, history>>

PlanExpires ==
  /\ pending = "fresh"
  /\ pending' = "expired"
  /\ UNCHANGED <<worldVars, launched, inFlight, pc, forceVars, unloadVars, history>>

-----------------------------------------------------------------------------
(* LaunchReconnect, from the frame's thread or the force thread            *)

AfterLaunch(t) == IF t = "ui" THEN "finish" ELSE "kill"

\* Mutant: the guard is looked at and not taken.
LookAtGuard(t) ==
  /\ Running /\ pc[t] = "guard"
  /\ Goto(t, IF launched THEN AfterLaunch(t) ELSE "create")
  /\ UNCHANGED <<worldVars, planVars, forceVars, unloadVars, history>>

TakeGuard(t) ==
  /\ Running /\ pc[t] = "guard"
  /\ launched' = TRUE
  /\ Goto(t, IF launched THEN AfterLaunch(t) ELSE "create")
  /\ UNCHANGED <<worldVars, pending, inFlight, forceVars, unloadVars, history>>

\* The connection file may be gone, or CreateProcessW fails.
CreateReplacement(t) ==
  /\ Running /\ pc[t] = "create"
  /\ \/ /\ replacements' = replacements + 1
        /\ Goto(t, AfterLaunch(t))
        /\ UNCHANGED failed
     \/ /\ failed' = TRUE
        /\ Goto(t, "handBack")
        /\ UNCHANGED replacements
  /\ UNCHANGED <<worldVars, planVars, forceVars, unloadVars, later, withdrawn,
                 cancelled>>

HandBackGuard(t) ==
  /\ Running /\ pc[t] = "handBack"
  /\ launched' = FALSE
  /\ Goto(t, AfterLaunch(t))
  /\ UNCHANGED <<worldVars, pending, inFlight, forceVars, unloadVars, history>>

-----------------------------------------------------------------------------
(* ForceReconnectSession, on the watchdog's thread                         *)

ClickForce ==
  /\ Running /\ pc["alert"] = "idle"
  /\ ~stopping
  /\ later' = {} /\ withdrawn' = FALSE
  /\ Goto("alert", "exchange")
  /\ UNCHANGED <<worldVars, planVars, forceVars, unloadVars, replacements, failed,
                 cancelled>>

ExchangeInFlight ==
  /\ Running /\ pc["alert"] = "exchange"
  /\ inFlight' = TRUE
  /\ Goto("alert", IF inFlight THEN "idle" ELSE "start")
  /\ UNCHANGED <<worldVars, pending, launched, forceVars, unloadVars, history>>

\* The previous force thread is joined; no frame, no plan and no thread are
\* failures.
StartForceThread ==
  /\ Running /\ pc["alert"] = "start" /\ pc["force"] = "idle"
  /\ \/ /\ frame # "gone"
        /\ pc' = [pc EXCEPT !["alert"] = "idle", !["force"] = "park"]
        /\ UNCHANGED inFlight
     \/ Goto("alert", "idle") /\ inFlight' = FALSE
  /\ UNCHANGED <<worldVars, pending, launched, forceVars, unloadVars, history>>

-----------------------------------------------------------------------------
(* ForceReconnectThread                                                    *)

PostForcedClose ==
  /\ Running /\ pc["force"] = "post"
  /\ PostClose
  /\ waited' = 0
  /\ Goto("force", "sleep")
  /\ UNCHANGED <<process, frame, hung, planVars, closed, unloadVars, history>>

Sleep ==
  /\ Running /\ pc["force"] = "sleep"
  /\ closed' = (frame = "gone")
  /\ Goto("force", "poll")
  /\ UNCHANGED <<worldVars, planVars, waited, unloadVars, history>>

\* Mutants: the end of the grace period is looked at before the stop flag;
\* only the stop flag and a frame that has gone end the loop.
PollGraceFirst ==
  /\ Running /\ pc["force"] = "poll"
  /\ waited' = waited + 1
  /\ Goto("force", IF closed THEN "end"
                   ELSE IF waited + 1 = Grace THEN "clear"
                   ELSE IF stopping THEN "cancel" ELSE "sleep")
  /\ UNCHANGED <<worldVars, planVars, closed, unloadVars, history>>

PollUntilClosed ==
  /\ Running /\ pc["force"] = "poll"
  /\ UNCHANGED waited
  /\ Goto("force", IF stopping THEN "cancel" ELSE IF closed THEN "end" ELSE "sleep")
  /\ UNCHANGED <<worldVars, planVars, closed, unloadVars, history>>

PollStopping ==
  /\ Running /\ pc["force"] = "poll"
  /\ waited' = waited + 1
  /\ Goto("force", IF stopping THEN "cancel"
                   ELSE IF closed THEN "end"
                   ELSE IF waited + 1 < Grace THEN "sleep" ELSE "clear")
  /\ UNCHANGED <<worldVars, planVars, closed, unloadVars, history>>

ClearPendingForced ==
  /\ Running /\ pc["force"] \in {"cancel", "clear"}
  /\ pending' = "none"
  /\ Goto("force", IF pc["force"] = "cancel" THEN "end" ELSE "guard")
  /\ UNCHANGED <<worldVars, launched, inFlight, forceVars, unloadVars, history>>

EndForceThread ==
  /\ Running /\ pc["force"] = "end"
  /\ inFlight' = FALSE
  /\ closed' = FALSE /\ waited' = 0
  /\ Goto("force", "idle")
  /\ UNCHANGED <<worldVars, pending, launched, unloadVars, history>>

TerminateProcess ==
  /\ Running /\ pc["force"] = "kill"
  /\ process' = "killed"
  /\ UNCHANGED <<frame, hung, closes, planVars, pc, forceVars, unloadVars, history>>

-----------------------------------------------------------------------------
(* ModUninit: stop, quit and join the threads, then join the force thread; *)
(* the hidden bar is shown at last                                         *)

GraceRuns == pc["force"] \in {"park", "post", "sleep", "poll"}

BeginUnload ==
  /\ Running /\ unload = "loaded"
  /\ stopping' = TRUE
  /\ unload' = "stopping"
  /\ cancelled' = (GraceRuns /\ ~closed)
  /\ UNCHANGED <<worldVars, planVars, pc, forceVars, replacements, failed, later,
                 withdrawn>>

PostQuit ==
  /\ Running /\ unload = "stopping"
  /\ unload' = "quitting"
  /\ UNCHANGED <<worldVars, planVars, pc, forceVars, stopping, history>>

JoinThreads ==
  /\ Running /\ unload = "quitting"
  /\ \A t \in Caller \cup {"alert"} : pc[t] = "idle"
  /\ unload' = "joined"
  /\ UNCHANGED <<worldVars, planVars, pc, forceVars, stopping, history>>

JoinForceThread ==
  /\ Running /\ unload = "joined"
  /\ pc["force"] = "idle"
  /\ unload' = "restoring"
  /\ UNCHANGED <<worldVars, planVars, pc, forceVars, stopping, history>>

\* The frame gets its procedure back; there may be no bar.
RestoreFrame ==
  /\ Running /\ unload = "restoring"
  /\ unload' \in {"showing", "done"}
  /\ UNCHANGED <<worldVars, planVars, pc, forceVars, stopping, history>>

\* ShowWindow of the bar, whose thread is the frame's.  What follows is bounded.
ShowBar ==
  /\ Running /\ unload = "showing"
  /\ Responds
  /\ unload' = "done"
  /\ UNCHANGED <<worldVars, planVars, pc, forceVars, stopping, history>>

-----------------------------------------------------------------------------

Init ==
  /\ process = "running" /\ frame = "open" /\ hung = FALSE /\ closes = 0
  /\ pending = "none" /\ launched = FALSE /\ inFlight = FALSE
  /\ pc = [t \in Thread |-> "idle"]
  /\ closed = FALSE /\ waited = 0
  /\ stopping = FALSE /\ unload = "loaded"
  /\ replacements = 0 /\ failed = FALSE /\ later = {} /\ withdrawn = FALSE /\ cancelled = FALSE

Click(t) == ClickReconnect(t) \/ ClickDisconnect(t) \/ ClickShow(t)
Call(t) ==
  \/ SetPendingReconnect(t) \/ PostReconnectClose(t) \/ Unpark(t)
  \/ ClearPendingReconnect(t) \/ PostPlainClose(t)
Launch(t) == TakeGuard(t) \/ CreateReplacement(t) \/ HandBackGuard(t)
Ui == EnterLaunchPending \/ TakePlan \/ Launch("ui") \/ FinishDestroy
Alert == ExchangeInFlight \/ StartForceThread
ForceWorker ==
  \/ SetPendingReconnect("force") \/ PostForcedClose \/ Sleep \/ PollStopping
  \/ ClearPendingForced \/ Launch("force") \/ EndForceThread \/ TerminateProcess
Unload == PostQuit \/ JoinThreads \/ JoinForceThread \/ RestoreFrame

Next ==
  \/ \E t \in Caller : Click(t) \/ Call(t) \/ ShowReturns(t)
  \/ ProcessClose \/ CloseByItself \/ Ui
  \/ ProcessExits \/ HangOrRecover \/ PlanExpires
  \/ ClickForce \/ Alert \/ ForceWorker
  \/ BeginUnload \/ Unload \/ ShowBar

Spec == Init /\ [][Next]_vars

-----------------------------------------------------------------------------
(* Properties                                                              *)

Place ==
  {"idle", "park", "post", "unpark", "drop", "close", "enter", "take", "finish",
   "guard", "create", "handBack", "exchange", "start", "sleep", "poll", "cancel",
   "clear", "end", "kill", "show"}

TypeOK ==
  /\ process \in {"running", "exited", "killed"}
  /\ frame \in {"open", "destroying", "gone"}
  /\ hung \in BOOLEAN /\ closes \in 0..MaxClose
  /\ pending \in {"none", "fresh", "expired"}
  /\ launched \in BOOLEAN /\ inFlight \in BOOLEAN
  /\ pc \in [Thread -> Place]
  /\ closed \in BOOLEAN /\ waited \in 0..Grace
  /\ stopping \in BOOLEAN
  /\ unload \in {"loaded", "stopping", "quitting", "joined", "restoring", "showing", "done"}
  /\ replacements \in Nat /\ later \subseteq Caller
  /\ failed \in BOOLEAN /\ withdrawn \in BOOLEAN /\ cancelled \in BOOLEAN

(* "Both launch paths funnel into LaunchReconnect's once-per-process guard *)
(* so they can never double-launch", although a failed launch hands the    *)
(* guard back and both paths may be on their way at once.                  *)
NeverDoubleLaunch == replacements <= 1

(* No two clients of one session: the replacement is started only once the *)
(* frame is being destroyed, or by the force thread, which then terminates *)
(* the process.  A close the user refuses in the prompt starts nothing.    *)
OneClientPerSession ==
  (replacements > 0 /\ Running /\ frame = "open") => pc["force"] = "kill"

(* "Client unload during a force-reconnect grace period cancels that       *)
(* worker": the process is not terminated by it later.                     *)
UnloadCancelsGrace == cancelled => process # "killed"

(* After the unload no thread of the mod is left that could still start a  *)
(* replacement or terminate the process.                                   *)
QuietAfterUnload ==
  (unload = "done" /\ Running) => \A t \in Thread \ {"ui"} : pc[t] = "idle"

(* "Every plain Disconnect drops any parked reconnect plan so a later      *)
(* ordinary close can never relaunch by surprise": when a Disconnect comes *)
(* after every reconnect click has returned and its plan has been parked,  *)
(* no close of the frame starts a replacement, at whatever step the thread *)
(* of the frame, the other clicks and the unload are.  The force thread of *)
(* a click before it is not called off: it has a plan of its own, which it *)
(* launches only when it has waited the whole grace period and has never   *)
(* seen the frame gone, and then it terminates the process.                *)
NoCloseRelaunches ==
  [][(withdrawn /\ replacements' > replacements) =>
       /\ pc["force"] = "create" /\ pc'["force"] = "kill"
       /\ waited = Grace /\ ~closed]_vars

(* "If the frame is still there, launch the replacement here and Terminate *)
(* Process this client": the client is not ended with no replacement and   *)
(* no attempt at one that failed.                                          *)
KilledOnlyWhenReplaced == process = "killed" => (replacements > 0 \/ failed)

(* The threads of the mod run; the user and the frame's thread need not.   *)
(* A call that waits for the frame's thread returns if that thread looks   *)
(* at its messages again and again.                                        *)
Fairness ==
  /\ WF_vars(\E t \in Caller : Call(t)) /\ WF_vars(Alert)
  /\ WF_vars(ForceWorker) /\ WF_vars(Unload)
  /\ SF_vars(ShowBar \/ \E t \in Caller : ShowReturns(t))

FairSpec == Spec /\ Fairness

(* A force reconnect that has been accepted always ends: the frame closes  *)
(* in time, the process is terminated, or the unload cancels it, also with *)
(* the frame's thread hung for good.  The unload ends too, unless it waits *)
(* for a thread that is for ever in a ShowWindow of the hung frame, or is  *)
(* in its own one of the bar: nothing else makes it wait.                  *)
BehindTheFrame ==
  ~Responds /\ (unload = "showing" \/ \E t \in Caller : pc[t] = "show")

ThreadsEnd ==
  /\ inFlight ~> (~inFlight \/ ~Running)
  /\ stopping ~> (unload = "done" \/ ~Running \/ []BehindTheFrame)
=============================================================================
