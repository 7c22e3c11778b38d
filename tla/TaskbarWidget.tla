---------------------------- MODULE TaskbarWidget ----------------------------
(***************************************************************************)
(* The taskbar widget, which the host mod and the explorer.exe branch of   *)
(* the client mod share line for line: a hook finds the taskbars, work for *)
(* the XAML thread goes through TrackedDispatch, which owns every delegate *)
(* until it has completed, and the unload has to take the widgets and the  *)
(* delegates back from a XAML thread that may have stalled.                *)
(***************************************************************************)
EXTENDS Naturals, Sequences, SequencesExt

CONSTANTS Root,  \* the root grids of the taskbars
          Limit  \* delegates TrackedDispatch keeps (128)

VARIABLES
  loader,      \* Wh_ModInit and the thread of PollForTaskbarViewDll
  trigger,     \* the thread of TriggerInitialScan: "none", "waiting" or "ended"
  uninit,      \* where Wh_ModUninit is; "no" before it is called
  unloading,   \* g_Unloading
  stopping,    \* TrackedDispatch::stopping_
  pinned,      \* RetainCode has been called
  left,        \* local of RemoveWidget: instances it still has to take away
  scanPending, \* g_ScanPending
  poster,      \* the thread that refreshes the widgets: "idle" or "posting"
  queue,       \* delegates the dispatcher has not started
  xaml,        \* what the XAML thread does, and for which root grid
  delegate,    \* the XAML thread is inside a delegate
  widget,      \* widget[r]: a widget of the mod is in the grid
  instance,    \* instance[r]: the entry of g_Instances: "none", "live" or "dead"
  bound        \* bound[r]: its tray has the handler whose token was stored

loadVars == <<loader, trigger>>
unloadVars == <<loadVars, uninit, unloading, stopping, pinned, left>>
widgetVars == <<widget, instance, bound>>
xamlVars == <<queue, xaml, delegate>>
vars == <<unloadVars, scanPending, poster, xamlVars, widgetVars>>

-----------------------------------------------------------------------------
(* ModInit, PollForTaskbarViewDll and TriggerInitialScan                   *)

Load(step) ==
  /\ loader' = step
  /\ UNCHANGED <<uninit, unloading, stopping, pinned, left, scanPending, poster, xamlVars,
                 widgetVars>>

\* Taskbar.View.dll is there and hooked, or will be polled for.  A ModInit that
\* cannot hook it stops what it has started.
ModInit ==
  /\ loader = "off"
  /\ \/ Load("poll") /\ trigger' = trigger
     \/ Load("ended") /\ trigger' = "waiting"

PollForTaskbarViewDll ==
  /\ loader = "poll"
  /\ Load("failed") \/ Load("hook")
  /\ UNCHANGED trigger

\* Windhawk takes no hook once it unloads the mod.
HookTaskbarViewDllSymbols ==
  /\ loader = "hook"
  /\ \/ Load("failed")
     \/ uninit = "no" /\ Load("hooked")
  /\ UNCHANGED trigger

\* g_Unloading may be set when it has been looked at.
LookAtUnloading ==
  /\ loader = "hooked"
  /\ Load(IF unloading THEN "ended" ELSE "trigger")
  /\ UNCHANGED trigger

TriggerInitialScan ==
  /\ loader = "trigger"
  /\ Load("ended")
  /\ trigger' = "waiting"

\* WM_SIZE is posted to the taskbars.
PostSize ==
  /\ trigger = "waiting"
  /\ trigger' = "ended"
  /\ Load(loader)

-----------------------------------------------------------------------------
(* TrackedDispatch                                                         *)

Work(kind, r) == [kind |-> kind, of |-> r]
Kept == Len(queue) + (IF delegate THEN 1 ELSE 0)

\* Post: dropped once the drain has begun, an exception when the list is full.
Posted(kind, r) == queue' = IF stopping \/ Kept >= Limit THEN queue ELSE Append(queue, Work(kind, r))
PostThrows == ~stopping /\ Kept >= Limit

At(at, r) == xaml' = [at |-> at, of |-> r]
Is(at, r) == xaml = [at |-> at, of |-> r]
Idle == Is("idle", "none")
Return == At("idle", "none") /\ delegate' = FALSE

\* The dispatcher takes a scan, of low priority, when there is nothing else.
Urgent == {i \in DOMAIN queue : queue[i].kind # "scan"}
IsNext(i) == IF Urgent = {} THEN i = 1 ELSE i \in Urgent /\ \A j \in Urgent : i <= j

StartDelegate ==
  /\ Idle
  /\ \E i \in DOMAIN queue :
       /\ IsNext(i)
       /\ queue' = RemoveAt(queue, i)
       /\ IF stopping /\ queue[i].kind # "cleanup"
            THEN Return
            ELSE At(queue[i].kind, queue[i].of) /\ delegate' = TRUE
  /\ UNCHANGED <<unloadVars, scanPending, poster, widgetVars>>

-----------------------------------------------------------------------------
(* TaskListButton_UpdateVisualStates_Hook and ScheduleScanAsync            *)

\* Windhawk removes the hook before it calls Wh_ModUninit.
EnterHook(r) ==
  /\ Idle /\ loader \in {"hooked", "trigger", "ended"} /\ uninit = "no"
  /\ At("hook", r)
  /\ UNCHANGED <<unloadVars, scanPending, poster, queue, delegate, widgetVars>>

TakeLatch(r) ==
  /\ Is("hook", r)
  /\ scanPending' = (scanPending \/ ~unloading)
  /\ At(IF unloading \/ scanPending THEN "leave" ELSE "post", r)
  /\ UNCHANGED <<unloadVars, poster, queue, delegate, widgetVars>>

PostScan(r) ==
  /\ Is("post", r)
  /\ Posted("scan", r)
  /\ scanPending' = ~PostThrows
  /\ At("leave", r)
  /\ UNCHANGED <<unloadVars, poster, delegate, widgetVars>>

LeaveHook(r) ==
  /\ Is("leave", r)
  /\ Return
  /\ UNCHANGED <<unloadVars, scanPending, poster, queue, widgetVars>>

HookCalls == xaml.at \in {"hook", "post", "leave"}

-----------------------------------------------------------------------------
(* InjectWidgetInto and BindSystemTrayFor, on the XAML thread              *)

\* The element or the root grid may be gone.
Scan(r) ==
  /\ Is("scan", r)
  /\ scanPending' = FALSE
  /\ \/ ~unloading /\ At("inject", r) /\ UNCHANGED delegate
     \/ Return
  /\ UNCHANGED <<unloadVars, poster, queue, widgetVars>>

\* A widget whose buttons and events call the mod.
BuildWidget(r) == widget' = [widget EXCEPT ![r] = TRUE]

Inject(r) ==
  /\ Is("inject", r)
  /\ BuildWidget(r)
  /\ IF widget[r]
       THEN /\ instance' = [instance EXCEPT ![r] = "live"]
            /\ bound' = [bound EXCEPT ![r] = @ /\ instance[r] = "live"]
            /\ Return
       ELSE /\ At("track", r)
            /\ UNCHANGED <<instance, bound, delegate>>
  /\ UNCHANGED <<unloadVars, scanPending, poster, queue>>

\* The entries of widgets that are gone are dropped.
Track(r) ==
  /\ Is("track", r)
  /\ instance' = [s \in Root |-> IF s = r THEN "live"
                               ELSE IF instance[s] = "dead" THEN "none" ELSE instance[s]]
  /\ bound' = [bound EXCEPT ![r] = FALSE]
  /\ At("bind", r)
  /\ UNCHANGED <<unloadVars, scanPending, poster, queue, delegate, widget>>

\* The tray may not be there yet.  The handler is added to it before the token
\* is stored; a token without an entry to store it in is lost.
Bind(r) ==
  /\ Is("bind", r)
  /\ \/ Return
     \/ ~(instance[r] = "live" /\ bound[r]) /\ At("store", r) /\ UNCHANGED delegate
  /\ UNCHANGED <<unloadVars, scanPending, poster, queue, widgetVars>>

Store(r) ==
  /\ Is("store", r)
  /\ bound' = [bound EXCEPT ![r] = @ \/ instance[r] = "live"]
  /\ Return
  /\ UNCHANGED <<unloadVars, scanPending, poster, queue, widget, instance>>

\* ApplyStateToWidget, and after a settings change the margin.
ApplyState(r) ==
  /\ Is("state", r)
  /\ \/ Return
     \/ widget[r] /\ At("bind", r) /\ UNCHANGED delegate
  /\ UNCHANGED <<unloadVars, scanPending, poster, queue, widgetVars>>

\* The Loaded event of the widget and the SizeChanged event of its tray.
WidgetEvent(r) ==
  /\ Idle /\ widget[r]
  /\ At("bind", r)
  /\ UNCHANGED <<unloadVars, scanPending, poster, queue, delegate, widgetVars>>

\* Explorer takes a taskbar away, with its grid and its tray.
LoseGrid(r) ==
  /\ Idle /\ widget[r]
  /\ widget' = [widget EXCEPT ![r] = FALSE]
  /\ instance' = [instance EXCEPT ![r] = IF @ = "live" THEN "dead" ELSE @]
  /\ bound' = [bound EXCEPT ![r] = FALSE]
  /\ UNCHANGED <<unloadVars, scanPending, poster, xamlVars>>

\* The delegate of RemoveWidget takes the handler off the tray and the widget
\* out of the grid.
CleanUp(r) ==
  /\ Is("cleanup", r)
  /\ widget' = [widget EXCEPT ![r] = FALSE]
  /\ bound' = [bound EXCEPT ![r] = FALSE]
  /\ Return
  /\ UNCHANGED <<unloadVars, scanPending, poster, queue, instance>>

-----------------------------------------------------------------------------
(* RefreshWidgetUI, from the thread of the notification window or the      *)
(* worker, which Wh_ModUninit joins                                        *)

RefreshWidgetUI ==
  /\ poster = "idle" /\ loader # "off" /\ ~unloading
  /\ poster' = "posting"
  /\ UNCHANGED <<unloadVars, scanPending, xamlVars, widgetVars>>

\* An exception is logged.
PostState(r) ==
  /\ poster = "posting" /\ instance[r] = "live"
  /\ Posted("state", r)
  /\ UNCHANGED <<unloadVars, scanPending, poster, xaml, delegate, widgetVars>>

EndRefresh ==
  /\ poster = "posting"
  /\ poster' = "idle"
  /\ UNCHANGED <<unloadVars, scanPending, xamlVars, widgetVars>>

-----------------------------------------------------------------------------
(* Wh_ModUninit                                                            *)

Go(step) == uninit' = step

BeginUninit ==
  /\ uninit = "no" /\ loader # "off"
  /\ unloading' = TRUE
  /\ Go("join")
  /\ UNCHANGED <<loadVars, stopping, pinned, left, scanPending, poster, xamlVars, widgetVars>>

Join(at, ended, next) ==
  /\ uninit = at /\ ended
  /\ Go(next)
  /\ UNCHANGED <<loadVars, unloading, stopping, pinned, left, scanPending, poster, xamlVars,
                 widgetVars>>

Polled == loader \in {"failed", "ended"}

\* Mutant: the thread the poll may still start is joined first.
JoinThreadsSwapped ==
  \/ Join("join", trigger # "waiting", "joinPoll")
  \/ Join("joinPoll", Polled, "joinStatus")
  \/ Join("joinStatus", poster = "idle", "stop")

\* The poll first, which starts the initial scan, then the status thread.
JoinThreads ==
  \/ Join("join", Polled, "joinScan")
  \/ Join("joinScan", trigger # "waiting", "joinStatus")
  \/ Join("joinStatus", poster = "idle", "stop")

StopDispatch ==
  /\ uninit = "stop"
  /\ stopping' = TRUE
  /\ Go("drain")
  /\ UNCHANGED <<loadVars, unloading, pinned, left, scanPending, poster, xamlVars, widgetVars>>

\* Mutant: the drain has no deadline.
DrainedAll == queue = <<>> /\ ~delegate /\ pinned' = pinned

\* Two seconds for all of them; then the code is retained.
Drained ==
  \/ queue = <<>> /\ ~delegate /\ pinned' = pinned
  \/ (queue # <<>> \/ delegate) /\ pinned' = TRUE

Drain ==
  /\ uninit = "drain" /\ Drained
  /\ Go("remove")
  /\ left' = {r \in Root : instance[r] = "live"}
  /\ instance' = [r \in Root |-> "none"]
  /\ UNCHANGED <<loadVars, unloading, stopping, scanPending, poster, xamlVars, widget, bound>>

\* PostCleanup is not refused; when it fails the code is retained.
RemoveWidget(r) ==
  /\ uninit = "remove" /\ r \in left
  /\ left' = left \ {r}
  /\ \/ queue' = Append(queue, Work("cleanup", r)) /\ UNCHANGED pinned
     \/ pinned' = TRUE /\ UNCHANGED queue
  /\ UNCHANGED <<loadVars, uninit, unloading, stopping, scanPending, poster, xaml, delegate, widgetVars>>

DrainCleanup ==
  /\ uninit = "remove" /\ left = {} /\ Drained
  /\ Go("hooks")
  /\ UNCHANGED <<loadVars, unloading, stopping, left, scanPending, poster, xamlVars, widgetVars>>

\* Spins without a deadline.
AwaitHooks ==
  /\ uninit = "hooks" /\ ~HookCalls
  /\ Go("done")
  /\ UNCHANGED <<loadVars, unloading, stopping, pinned, left, scanPending, poster, xamlVars, widgetVars>>

-----------------------------------------------------------------------------

Init ==
  /\ loader = "off" /\ trigger = "none"
  /\ uninit = "no" /\ unloading = FALSE /\ stopping = FALSE /\ pinned = FALSE /\ left = {}
  /\ scanPending = FALSE /\ poster = "idle"
  /\ queue = <<>> /\ xaml = [at |-> "idle", of |-> "none"] /\ delegate = FALSE
  /\ widget = [r \in Root |-> FALSE]
  /\ instance = [r \in Root |-> "none"]
  /\ bound = [r \in Root |-> FALSE]

Threads ==
  \/ PollForTaskbarViewDll \/ HookTaskbarViewDllSymbols \/ LookAtUnloading \/ TriggerInitialScan
  \/ PostSize

Hook == \E r \in Root : TakeLatch(r) \/ PostScan(r) \/ LeaveHook(r)

Xaml ==
  \/ StartDelegate
  \/ \E r \in Root : \/ EnterHook(r) \/ Scan(r) \/ Inject(r) \/ Track(r) \/ Bind(r) \/ Store(r)
                     \/ ApplyState(r) \/ WidgetEvent(r) \/ LoseGrid(r) \/ CleanUp(r)

Refresh == RefreshWidgetUI \/ \E r \in Root : PostState(r)

Uninit ==
  \/ JoinThreads \/ StopDispatch \/ Drain \/ DrainCleanup \/ AwaitHooks
  \/ \E r \in Root : RemoveWidget(r)

Next == ModInit \/ Threads \/ Hook \/ Xaml \/ Refresh \/ EndRefresh \/ BeginUninit \/ Uninit

Spec == Init /\ [][Next]_vars

\* The threads of the mod run and the hook comes to its end; the dispatcher may
\* stall for ever.
Fairness == WF_vars(Uninit) /\ WF_vars(Threads) /\ WF_vars(EndRefresh) /\ WF_vars(Hook)

FairSpec == Spec /\ Fairness

-----------------------------------------------------------------------------
(* Properties                                                              *)

\* When Wh_ModUninit has returned and has not retained the code, no thread of
\* the mod is left, also none that another one started late, no delegate of it is
\* queued or running, the XAML thread is in none of its handlers, no taskbar has
\* a widget whose buttons would call it and no tray a handler whose token an
\* entry had.
UnloadLeavesNothing ==
  uninit = "done" /\ ~pinned =>
    /\ Polled /\ trigger # "waiting" /\ poster = "idle"
    /\ queue = <<>> /\ Idle
    /\ \A r \in Root : ~widget[r] /\ ~bound[r]

\* Wh_ModUninit returns although the XAML thread may have stalled.
UnloadReturns == uninit # "no" ~> uninit = "done"
=============================================================================
