------------------------------ MODULE ClientMod ------------------------------
(***************************************************************************)
(* The life of the client mod inside one mstsc process: ModInit and        *)
(* ModSettingsChanged start and stop its message threads, its hooks        *)
(* subclass the session frame and the connection bar and advise an event   *)
(* sink on the RDP control, and ModUninit has to take all of it back,      *)
(* although the UI thread of mstsc may hang, before the code goes away.    *)
(*                                                                         *)
(* ModInit, ModSettingsChanged and ModUninit are sets of tasks, in one      *)
(* order, for the thread Windhawk calls them on.  What the threads do is   *)
(* left to the modules about them; here they only have to come and to go.  *)
(***************************************************************************)
EXTENDS Naturals, Sequences

CONSTANTS Worker,    \* message threads in the order ModUninit stops them
          Optional,  \* those that a setting starts and stops
          Acting,    \* those that minimize or restore the frame
          MaxChange  \* bound: settings changes

VARIABLES
  module,    \* "new", "starting", "loaded", "unloading", "unloaded" or "retained"
  todo,      \* what ModInit, ModSettingsChanged or ModUninit has left to do
  wanted,    \* the optional threads the settings ask for
  changes,   \* settings changes so far
  thread,    \* thread[t]: the handle, the readiness event, the thread itself
  stopping,  \* g_clientStopping
  ui,        \* what the UI thread of mstsc is in, and for which window
  window,    \* window[v]: "none", "shown" or "gone"
  proc,      \* proc[v]: the window procedure is "own" or that of the "mod"
  latched,   \* latched[v]: g_hRdpFrame and g_hBBar
  original,  \* original[v]: g_origFrameWndProc and g_origBBarWndProc are set
  calls,     \* g_SubclassCalls
  busy,      \* g_adviseBusy
  advised,   \* g_sinkAdvised
  connected, \* the control has a reference to the sink
  sent,      \* the call ModUninit waits in: "no", "teardown", "fence", "show"
             \*   or "answered"
  found,     \* locals of ModUninit: found[v] is "no", "seen" or "subclassed"
  keepMapped,\* local of ModUninit
  overlooked \* history: a hook was attaching when ModUninit looked

uiVars   == <<ui, window, proc, latched, original, calls>>
sinkVars == <<busy, advised, connected>>
uninitVars == <<sent, found, keepMapped, overlooked>>
modVars == <<module, todo, wanted, changes, thread, stopping>>
vars == <<modVars, uiVars, sinkVars, uninitVars>>

Window == {"frame", "bar"}
Workers == {Worker[i] : i \in DOMAIN Worker}
Always == Workers \ Optional

Task(do, of) == [do |-> do, of |-> of]
Start(set) == {Task("start", t) : t \in set}
Stop(set) == {Task("stop", t) : t \in set} \cup {Task("join", t) : t \in set}

\* A thread is joined before the next one is stopped, and all are before any is
\* started; the frame comes before the bar.
Phase == [flag |-> 1, awaitBusy |-> 2, stop |-> 3, join |-> 3, start |-> 4, hook |-> 5,
          look |-> 6, teardown |-> 7, restore |-> 8, show |-> 9, fence |-> 10, drain |-> 11,
          release |-> 12]
Place(of) ==
  IF of \in Workers THEN CHOOSE i \in DOMAIN Worker : Worker[i] = of
                    ELSE IF of = "bar" THEN 2 ELSE 1
Before(j, k) ==
  \/ Phase[j.do] < Phase[k.do]
  \/ Phase[j.do] = Phase[k.do] /\ Place(j.of) < Place(k.of)
  \/ j.of = k.of /\ j.do = "stop" /\ k.do = "join"

Doing(do, of) ==
  /\ Task(do, of) \in todo
  /\ \A k \in todo \ {Task(do, of)} : Before(Task(do, of), k)
Done(do, of) == todo' = todo \ {Task(do, of)}

-----------------------------------------------------------------------------
(* Start and Stop of a message thread                                      *)

StartThread(t) ==
  /\ Doing("start", t)
  /\ \/ /\ ~thread[t].handle
        /\ thread' = [thread EXCEPT ![t] =
             [handle |-> TRUE, ready |-> FALSE, at |-> "starting", quit |-> FALSE]]
     \/ UNCHANGED thread   \* it has been started, or the event or the thread fails
  /\ Done("start", t)
  /\ UNCHANGED <<module, wanted, changes, stopping, uiVars, sinkVars, uninitVars>>

CreateQueue(t) ==
  /\ thread[t].at = "starting"
  /\ thread' = [thread EXCEPT ![t].at = "queue"]
  /\ UNCHANGED <<module, todo, wanted, changes, stopping, uiVars, sinkVars, uninitVars>>

\* From here on also if the class or the window cannot be created.
SignalReady(t) ==
  /\ thread[t].at = "queue"
  /\ \E next \in {"loop", "exited"} :
       thread' = [thread EXCEPT ![t].at = next, ![t].ready = TRUE]
  /\ UNCHANGED <<module, todo, wanted, changes, stopping, uiVars, sinkVars, uninitVars>>

\* ShowWindow on the frame waits until its thread looks for messages.
ShowFrame(t) ==
  /\ thread[t].at = "loop" /\ t \in Acting /\ window["frame"] = "shown"
  /\ thread' = [thread EXCEPT ![t].at = "showing"]
  /\ UNCHANGED <<module, todo, wanted, changes, stopping, uiVars, sinkVars, uninitVars>>

Pumping == ui.at \in {"mstsc", "return"}

FrameShown(t) ==
  /\ thread[t].at = "showing" /\ (Pumping \/ window["frame"] # "shown")
  /\ thread' = [thread EXCEPT ![t].at = "loop"]
  /\ UNCHANGED <<module, todo, wanted, changes, stopping, uiVars, sinkVars, uninitVars>>

GetQuit(t) ==
  /\ thread[t].at = "loop" /\ thread[t].quit
  /\ thread' = [thread EXCEPT ![t].at = "exited"]
  /\ UNCHANGED <<module, todo, wanted, changes, stopping, uiVars, sinkVars, uninitVars>>

HasQueue(t) == thread[t].at \in {"queue", "loop", "showing"}

\* Mutant: WM_QUIT is posted without waiting for the event.
PostQuitAtOnce(t) ==
  /\ Doing("stop", t)
  /\ thread' = [thread EXCEPT ![t].quit = HasQueue(t)]
  /\ Done("stop", t)
  /\ UNCHANGED <<module, wanted, changes, stopping, uiVars, sinkVars, uninitVars>>

\* A message for a thread without a queue is lost.
PostQuit(t) ==
  /\ Doing("stop", t)
  /\ thread[t].handle => thread[t].ready
  /\ thread' = [thread EXCEPT ![t].quit = HasQueue(t)]
  /\ Done("stop", t)
  /\ UNCHANGED <<module, wanted, changes, stopping, uiVars, sinkVars, uninitVars>>

JoinThread(t) ==
  /\ Doing("join", t)
  /\ thread[t].handle => thread[t].at = "exited"
  /\ thread' = [thread EXCEPT ![t].handle = FALSE]
  /\ Done("join", t)
  /\ UNCHANGED <<module, wanted, changes, stopping, uiVars, sinkVars, uninitVars>>

-----------------------------------------------------------------------------
(* ModInit and ModSettingsChanged                                          *)

\* Windhawk applies the hooks once ModInit has returned.
ModInit ==
  /\ module = "new"
  /\ module' = "starting"
  /\ wanted' \in SUBSET Optional
  /\ todo' = Start(Always \cup wanted') \cup {Task("hook", "all")}
  /\ UNCHANGED <<changes, thread, stopping, uiVars, sinkVars, uninitVars>>

ApplyHooks ==
  /\ Doing("hook", "all")
  /\ module' = "loaded"
  /\ Done("hook", "all")
  /\ UNCHANGED <<wanted, changes, thread, stopping, uiVars, sinkVars, uninitVars>>

\* A setting that changes restarts its thread or stops it.
ModSettingsChanged ==
  /\ module = "loaded" /\ todo = {} /\ changes < MaxChange
  /\ changes' = changes + 1
  /\ wanted' \in SUBSET Optional
  /\ todo' = Stop(wanted \cup wanted') \cup Start(wanted')
  /\ UNCHANGED <<module, thread, stopping, uiVars, sinkVars, uninitVars>>

-----------------------------------------------------------------------------
(* CreateWindowExW_Hook                                                    *)

Hooked == module = "loaded"
InUi(at, v) == ui = [at |-> at, of |-> v]
Enter(at, v) == ui' = [at |-> at, of |-> v]
Leave == Enter("mstsc", "none")

\* A window made while no hook is in place is never subclassed.
CreateWindow(v) ==
  /\ InUi("mstsc", "none") /\ window[v] # "shown"
  /\ IF Hooked
       THEN Enter("create", v) /\ UNCHANGED <<window, proc>>
       ELSE /\ window' = [window EXCEPT ![v] = "shown"]
            /\ proc' = [proc EXCEPT ![v] = "own"]
            /\ UNCHANGED ui
  /\ UNCHANGED <<modVars, latched, original, calls, sinkVars, uninitVars>>

\* Neither is subclassed unless the settings ask for it, the frame only once.
Attach(v) ==
  /\ InUi("create", v)
  /\ window' = [window EXCEPT ![v] = "shown"]
  /\ \E p \in {"own", "mod"} : proc' = [proc EXCEPT ![v] = p]
  /\ \/ (v = "frame" => ~original["frame"]) /\ Enter("latch", v)
     \/ proc'[v] = "own" /\ Leave
  /\ UNCHANGED <<modVars, latched, original, calls, sinkVars, uninitVars>>

\* The bar names its frame, also one that was there before the mod.  A window
\* that could not be subclassed is latched all the same.
Latch(v) ==
  /\ InUi("latch", v)
  /\ latched' = IF v = "frame" THEN [latched EXCEPT !["frame"] = TRUE]
                  ELSE [latched EXCEPT !["bar"] = TRUE, !["frame"] = window["frame"] = "shown"]
  /\ original' = [original EXCEPT ![v] = proc[v] = "mod"]
  /\ Leave
  /\ UNCHANGED <<modVars, window, proc, calls, sinkVars, uninitVars>>

\* mstsc destroys a window that is not subclassed.
DestroyOwn(v) ==
  /\ InUi("mstsc", "none") /\ window[v] = "shown" /\ proc[v] = "own"
  /\ window' = [window EXCEPT ![v] = "gone"]
  /\ UNCHANGED <<modVars, ui, proc, latched, original, calls, sinkVars, uninitVars>>

-----------------------------------------------------------------------------
(* TryAdviseRdpControl, from the hooks that see the control being created  *)

CreateControl ==
  /\ InUi("mstsc", "none") /\ Hooked
  /\ Enter("control", "none")
  /\ UNCHANGED <<modVars, window, proc, latched, original, calls, sinkVars, uninitVars>>

CheckStopping ==
  /\ InUi("control", "none")
  /\ IF stopping \/ advised THEN Leave ELSE Enter("exchange", "none")
  /\ UNCHANGED <<modVars, window, proc, latched, original, calls, sinkVars, uninitVars>>

TakeBusy ==
  /\ InUi("exchange", "none")
  /\ busy' = TRUE
  /\ IF busy THEN Leave ELSE Enter("busy", "none")
  /\ UNCHANGED <<modVars, window, proc, latched, original, calls, advised, connected,
                 uninitVars>>

\* Mutant: the stop flag is not looked at again.
AdviseAnyway ==
  /\ InUi("busy", "none")
  /\ Enter("advise", "none")
  /\ UNCHANGED <<modVars, window, proc, latched, original, calls, sinkVars, uninitVars>>

CheckAgain ==
  /\ InUi("busy", "none")
  /\ Enter(IF stopping THEN "reset" ELSE "advise", "none")
  /\ UNCHANGED <<modVars, window, proc, latched, original, calls, sinkVars, uninitVars>>

\* The object is not the control, or Advise fails, or it succeeds.
Advise ==
  /\ InUi("advise", "none")
  /\ connected' \in BOOLEAN
  /\ Enter(IF connected' THEN "advised" ELSE "reset", "none")
  /\ UNCHANGED <<modVars, window, proc, latched, original, calls, busy, advised,
                 uninitVars>>

StoreSink ==
  /\ InUi("advised", "none")
  /\ advised' = TRUE
  /\ Enter("reset", "none")
  /\ UNCHANGED <<modVars, window, proc, latched, original, calls, busy, connected,
                 uninitVars>>

ResetBusy ==
  /\ InUi("reset", "none")
  /\ busy' = FALSE
  /\ Leave
  /\ UNCHANGED <<modVars, window, proc, latched, original, calls, advised, connected,
                 uninitVars>>

-----------------------------------------------------------------------------
(* FrameSubclassProc and BBarSubclassProc                                  *)

\* Any message, the end of the window among them; or the one ModUninit sends.
Dispatch(v) ==
  /\ InUi("mstsc", "none") /\ window[v] = "shown" /\ proc[v] = "mod"
  /\ Enter("message", v)
  /\ UNCHANGED <<modVars, window, proc, latched, original, calls, sinkVars, uninitVars>>

CountCall(v) ==
  /\ InUi("message", v)
  /\ calls' = calls + 1
  /\ \E at \in {"destroy", "return"} : Enter(at, v)
  /\ UNCHANGED <<modVars, window, proc, latched, original, sinkVars, uninitVars>>

\* UnadviseRdpEvents: the sink is kept when Unadvise fails.
Unadvise ==
  \/ ~advised /\ UNCHANGED sinkVars
  \/ advised /\ UNCHANGED sinkVars
  \/ advised /\ advised' = FALSE /\ connected' = FALSE /\ UNCHANGED busy

UnadviseOnDestroy(v) ==
  /\ InUi("destroy", v)
  /\ IF v = "frame" THEN Unadvise ELSE UNCHANGED sinkVars
  /\ Enter("forget", v)
  /\ UNCHANGED <<modVars, window, proc, latched, original, calls, uninitVars>>

\* Mutant: the end of the bar forgets the frame as well.
ForgetBoth(v) ==
  /\ InUi("forget", v)
  /\ proc' = [proc EXCEPT ![v] = "own"]
  /\ latched' = [u \in Window |-> FALSE]
  /\ original' = [original EXCEPT ![v] = FALSE]
  /\ Enter("last", v)
  /\ UNCHANGED <<modVars, window, calls, sinkVars, uninitVars>>

\* The end of the bar forgets a frame that is not subclassed.
ForgetWindow(v) ==
  /\ InUi("forget", v)
  /\ proc' = [proc EXCEPT ![v] = "own"]
  /\ latched' = [u \in Window |-> latched[u] /\ u # v /\ (u = "frame" => original[u])]
  /\ original' = [original EXCEPT ![v] = FALSE]
  /\ Enter("last", v)
  /\ UNCHANGED <<modVars, window, calls, sinkVars, uninitVars>>

\* The procedure returns after the original one; a window whose end it was is
\* destroyed by then.
ReturnCall(v) ==
  /\ \/ InUi("return", v) /\ UNCHANGED window
     \/ InUi("last", v) /\ window' = [window EXCEPT ![v] = "gone"]
  /\ calls' = calls - 1
  /\ Leave
  /\ UNCHANGED <<modVars, proc, latched, original, sinkVars, uninitVars>>

-----------------------------------------------------------------------------
(* The calls ModUninit makes into the UI thread.  It answers when it looks  *)
(* for messages, also from the original procedure of a message it is in.    *)

\* The teardown message runs in the subclass procedure.
EnterTeardown ==
  /\ sent = "teardown" /\ Pumping /\ proc["frame"] = "mod" /\ window["frame"] = "shown"
  /\ Enter("teardown", ui.of)
  /\ calls' = calls + 1
  /\ UNCHANGED <<modVars, window, proc, latched, original, sinkVars, uninitVars>>

AnswerTeardown ==
  /\ ui.at = "teardown"
  /\ Unadvise
  /\ calls' = calls - 1
  /\ sent' = IF sent = "teardown" THEN "answered" ELSE sent
  /\ Enter(IF ui.of = "none" THEN "mstsc" ELSE "return", ui.of)
  /\ UNCHANGED <<modVars, window, proc, latched, original, found, keepMapped, overlooked>>

AnswerSent ==
  /\ sent \in {"fence", "show"} /\ Pumping
  /\ sent' = "answered"
  /\ UNCHANGED <<modVars, uiVars, sinkVars, found, keepMapped, overlooked>>

-----------------------------------------------------------------------------
(* ModUninit                                                               *)

Uninit ==
  Stop(Workers) \cup
    {Task("flag", "all"), Task("awaitBusy", "all"), Task("look", "all"),
     Task("teardown", "frame"), Task("restore", "frame"), Task("restore", "bar"),
     Task("show", "bar"), Task("fence", "frame"), Task("fence", "bar"),
     Task("drain", "all"), Task("release", "all")}

\* Windhawk has removed the hooks before.
ModUninit ==
  /\ module = "loaded" /\ todo = {}
  /\ module' = "unloading"
  /\ todo' = Uninit
  /\ UNCHANGED <<wanted, changes, thread, stopping, uiVars, sinkVars, uninitVars>>

RaiseFlag ==
  /\ Doing("flag", "all")
  /\ stopping' = TRUE
  /\ Done("flag", "all")
  /\ UNCHANGED <<module, wanted, changes, thread, uiVars, sinkVars, uninitVars>>

\* For two seconds; an advise that is still busy keeps the module.
AwaitBusy ==
  /\ Doing("awaitBusy", "all")
  /\ keepMapped' = busy
  /\ Done("awaitBusy", "all")
  /\ UNCHANGED <<module, wanted, changes, thread, stopping, uiVars, sinkVars, sent, found,
                 overlooked>>

Look ==
  /\ Doing("look", "all")
  /\ found' = [v \in Window |-> IF ~latched[v] THEN "no"
                               ELSE IF original[v] THEN "subclassed" ELSE "seen"]
  /\ overlooked' = (ui.at \in {"create", "latch"})
  /\ Done("look", "all")
  /\ UNCHANGED <<module, wanted, changes, thread, stopping, uiVars, sinkVars, sent, keepMapped>>

Needed(do, v) ==
  /\ window[v] = "shown"
  /\ found[v] # "no"
  /\ do = "teardown" => found[v] = "subclassed" /\ ~keepMapped

Send(do, v) ==
  /\ Doing(do, v) /\ sent = "no"
  /\ IF Needed(do, v) THEN sent' = do /\ UNCHANGED todo
                      ELSE Done(do, v) /\ UNCHANGED sent
  /\ UNCHANGED <<module, wanted, changes, thread, stopping, uiVars, sinkVars, found,
                 keepMapped, overlooked>>

Returned == \E do \in {"teardown", "show", "fence"}, v \in Window : Doing(do, v) /\ Done(do, v)

Answered ==
  /\ sent = "answered"
  /\ sent' = "no"
  /\ Returned
  /\ UNCHANGED <<module, wanted, changes, thread, stopping, uiVars, sinkVars, found,
                 keepMapped, overlooked>>

\* Two seconds, a hung window, or one that is gone.
TimesOut ==
  /\ sent \in {"teardown", "fence"}
  /\ sent' = "no" /\ keepMapped' = TRUE
  /\ Returned
  /\ UNCHANGED <<module, wanted, changes, thread, stopping, uiVars, sinkVars, found, overlooked>>

\* ShowWindow returns for a window that is gone, and has no timeout.
ShowFails ==
  /\ sent = "show" /\ window["bar"] # "shown"
  /\ sent' = "answered"
  /\ UNCHANGED <<modVars, uiVars, sinkVars, found, keepMapped, overlooked>>

\* It fails for a window that has gone after it was looked for.
Restore(v) ==
  /\ Doing("restore", v)
  /\ \/ found[v] = "subclassed" /\ window[v] = "shown"
        /\ proc' = [proc EXCEPT ![v] = "own"] /\ UNCHANGED keepMapped
     \/ found[v] = "subclassed"
        /\ keepMapped' = TRUE /\ UNCHANGED proc
     \/ ~(found[v] = "subclassed" /\ window[v] = "shown")
        /\ UNCHANGED <<proc, keepMapped>>
  /\ Done("restore", v)
  /\ UNCHANGED <<module, wanted, changes, thread, stopping, ui, window, latched, original,
                 calls, sinkVars, sent, found, overlooked>>

\* For two seconds.
Drain ==
  /\ Doing("drain", "all")
  /\ keepMapped' = (keepMapped \/ calls # 0)
  /\ Done("drain", "all")
  /\ UNCHANGED <<module, wanted, changes, thread, stopping, uiVars, sinkVars, sent, found,
                 overlooked>>

\* The lock is deleted and the code may go, or the module is pinned.
Release ==
  /\ Doing("release", "all")
  /\ module' = IF keepMapped \/ advised THEN "retained" ELSE "unloaded"
  /\ Done("release", "all")
  /\ UNCHANGED <<wanted, changes, thread, stopping, uiVars, sinkVars, uninitVars>>

-----------------------------------------------------------------------------

Init ==
  /\ module = "new" /\ todo = {} /\ wanted = {} /\ changes = 0 /\ stopping = FALSE
  /\ thread = [t \in Workers |->
                 [handle |-> FALSE, ready |-> FALSE, at |-> "exited", quit |-> FALSE]]
  /\ ui = [at |-> "mstsc", of |-> "none"]
  /\ window = [v \in Window |-> "none"]
  /\ proc = [v \in Window |-> "own"]
  /\ latched = [v \in Window |-> FALSE]
  /\ original = [v \in Window |-> FALSE]
  /\ calls = 0
  /\ busy = FALSE /\ advised = FALSE /\ connected = FALSE
  /\ sent = "no" /\ keepMapped = FALSE /\ overlooked = FALSE
  /\ found = [v \in Window |-> "no"]

\* The thread Windhawk calls the mod on, once it has called.
Caller ==
  \/ \E t \in Workers : StartThread(t) \/ PostQuit(t) \/ JoinThread(t)
  \/ ApplyHooks \/ RaiseFlag \/ AwaitBusy \/ Look
  \/ \E v \in Window : Send("fence", v) \/ Restore(v)
  \/ Send("teardown", "frame") \/ Send("show", "bar")
  \/ Answered \/ TimesOut \/ ShowFails \/ Drain \/ Release

WorkerStep(t) == CreateQueue(t) \/ SignalReady(t) \/ FrameShown(t) \/ GetQuit(t)

\* What mstsc does with its windows and its control of its own accord.
Mstsc == CreateControl \/ \E v \in Window : CreateWindow(v) \/ DestroyOwn(v) \/ Dispatch(v)

\* The rest of what the UI thread has begun.
UiStep ==
  \/ \E v \in Window : \/ Attach(v) \/ Latch(v) \/ CountCall(v) \/ UnadviseOnDestroy(v)
                       \/ ForgetWindow(v) \/ ReturnCall(v)
  \/ CheckStopping \/ TakeBusy \/ CheckAgain \/ Advise \/ StoreSink \/ ResetBusy
  \/ AnswerTeardown

AnswerStep == EnterTeardown \/ AnswerSent

Next ==
  \/ ModInit \/ ModSettingsChanged \/ ModUninit
  \/ Caller \/ Mstsc \/ UiStep \/ AnswerStep
  \/ \E t \in Workers : ShowFrame(t) \/ WorkerStep(t)

Spec == Init /\ [][Next]_vars

\* The threads of the mod run and the waits that have a limit end. The UI thread
\* goes on, and handles sent messages before posted ones whenever it looks for
\* messages.
FairSpec ==
  /\ Spec /\ WF_vars(Caller) /\ WF_vars(UiStep) /\ SF_vars(AnswerStep)
  /\ \A t \in Workers : WF_vars(WorkerStep(t)) /\ SF_vars(FrameShown(t)) /\ SF_vars(GetQuit(t))

-----------------------------------------------------------------------------
(* Properties                                                              *)

InSubclass == {"message", "destroy", "forget", "return", "last", "teardown"}

\* When ModUninit has deleted the lock and the code may be unmapped, none of its
\* threads is left, no window of mstsc calls its procedures, the UI thread is in
\* none of them and the control has no reference to the sink.  The exception is
\* a CreateWindowExW hook that was running when ModUninit read which windows it
\* had to restore: nothing makes it stop or waits for it.
UnloadLeavesNothing ==
  module = "unloaded" =>
    /\ \A t \in Workers : thread[t].at = "exited"
    /\ ~connected
    /\ \/ overlooked
       \/ /\ ui.at \notin InSubclass
          /\ \A v \in Window : window[v] = "shown" => proc[v] = "own"

\* A window that calls a procedure of the mod is one ModUninit will find, with
\* the original procedure it has to put back.
SubclassedIsTracked ==
  \A v \in Window :
    proc[v] = "mod" /\ window[v] = "shown" /\ ~InUi("latch", v) => latched[v] /\ original[v]

\* ModUninit returns: no thread of the mod and no window of mstsc keeps it
\* waiting for ever.
UnloadReturns == module = "unloading" ~> module \in {"unloaded", "retained"}
=============================================================================
