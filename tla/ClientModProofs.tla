--------------------------- MODULE ClientModProofs ---------------------------
(***************************************************************************)
(* Proofs about ClientMod, for any set of message threads.  Two parts of   *)
(* the inductive invariant say what holds at any time: of the tasks, the   *)
(* threads and the call that is waited in (Tasks), and of the UI thread    *)
(* and the windows (Ui).  The others say what ModUninit has reached once a *)
(* task is behind it, as long as it does not keep the module.              *)
(***************************************************************************)
EXTENDS ClientMod, TLAPS

ThreadAt == {"exited", "starting", "queue", "loop", "showing"}
InAdvise == {"control", "exchange", "busy", "advise", "advised", "reset"}
InWindow == {"create", "latch", "message", "destroy", "forget", "return", "last"}

Typed ==
  thread \in [Workers -> [handle : BOOLEAN, ready : BOOLEAN, at : ThreadAt, quit : BOOLEAN]]

UiTyped ==
  /\ ui \in [at : {"mstsc", "teardown"} \cup InAdvise \cup InWindow, of : Window \cup {"none"}]
  /\ window \in [Window -> {"none", "shown", "gone"}]
  /\ proc \in [Window -> {"own", "mod"}]
  /\ latched \in [Window -> BOOLEAN] /\ original \in [Window -> BOOLEAN]
  /\ found \in [Window -> {"no", "seen", "subclassed"}]

-----------------------------------------------------------------------------
(* Tasks, threads and calls                                                *)

\* ModUninit does its tasks in their order, and the others have none of them.
Ordered ==
  /\ module \in {"new", "starting", "loaded", "unloading", "unloaded", "retained"}
  /\ module \in {"new", "starting", "loaded"} =>
       \A k \in todo : k.do \in {"start", "stop", "join", "hook"}
  /\ module = "unloading" =>
       /\ todo \subseteq Uninit
       /\ \A j \in Uninit \ todo, k \in todo : Phase[j.do] <= Phase[k.do]
  /\ module \in {"unloaded", "retained"} => todo = {}

\* A thread that runs has a handle, and ModUninit joins it.
Joined ==
  \A t \in Workers :
    /\ thread[t].at # "exited" => thread[t].handle
    /\ module \in {"unloading", "unloaded", "retained"} /\ Task("join", t) \notin todo
         => ~thread[t].handle

Calls == {"teardown", "show", "fence"}

\* ModUninit waits in one call at a time, that of its current task.
Waiting ==
  /\ sent \in Calls \cup {"no", "answered"}
  /\ sent \in Calls => \E v \in Window : Doing(sent, v)
  /\ sent = "answered" => \E do \in Calls, v \in Window : Doing(do, v)
  /\ sent # "no" => module = "unloading"

-----------------------------------------------------------------------------
(* The UI thread                                                           *)

\* The counter of the calls of a window procedure is right.
Counted ==
  calls = IF ui.at = "teardown" THEN IF ui.of = "none" THEN 1 ELSE 2
          ELSE IF ui.at \in {"destroy", "forget", "return", "last"} THEN 1 ELSE 0

Placed ==
  /\ ui.at \in InWindow => ui.of \in Window
  /\ ui.at \notin InWindow \cup {"teardown"} => ui.of = "none"
  /\ ui.at = "message" => window[ui.of] = "shown"

\* An advise that has begun is marked, and a sink the control has is known.
Advising ==
  /\ ui.at \in {"busy", "advise", "advised", "reset"} => busy
  /\ connected => advised \/ ui.at = "advised"

-----------------------------------------------------------------------------
(* What ModUninit has reached                                              *)

Past(do, of) == module \in {"unloading", "unloaded"} /\ Task(do, of) \notin todo

Stopped ==
  /\ Past("flag", "all") => stopping
  /\ Past("awaitBusy", "all") /\ ~keepMapped => ui.at \notin {"advise", "advised"}
  /\ module = "unloaded" => ~keepMapped /\ ~advised

\* A message runs in a procedure of the mod that ModUninit has not yet restored.
Running ==
  module \notin {"unloading", "unloaded", "retained"} \/ Task("look", "all") \in todo =>
    (ui.at = "message" => proc[ui.of] = "mod")

Looked ==
  Past("look", "all") /\ ~overlooked =>
    /\ ui.at \notin {"create", "latch"}
    /\ \A v \in Window : window[v] = "shown" /\ proc[v] = "mod" => found[v] = "subclassed"
    /\ ui.at = "message" => found[ui.of] = "subclassed"

Kept == keepMapped \/ overlooked

Restored ==
  \A v \in Window : Past("restore", v) /\ ~Kept /\ window[v] = "shown" => proc[v] = "own"

Fenced ==
  ~Kept =>
    /\ \A v \in Window : Past("fence", v) => ~InUi("message", v)
    /\ Past("show", "bar") /\ sent = "answered" => ui.at # "message"

Drained == Past("drain", "all") /\ ~Kept => ui.at \notin InSubclass

Inv ==
  /\ Typed /\ UiTyped /\ Ordered /\ Joined /\ Waiting
  /\ Counted /\ Placed /\ Advising /\ SubclassedIsTracked
  /\ Stopped /\ Running /\ Looked /\ Restored /\ Fenced /\ Drained

-----------------------------------------------------------------------------
(* The order of the tasks                                                  *)

LEMMA Phases ==
  /\ Phase["flag"] = 1 /\ Phase["awaitBusy"] = 2 /\ Phase["stop"] = 3 /\ Phase["join"] = 3
  /\ Phase["start"] = 4 /\ Phase["hook"] = 5 /\ Phase["look"] = 6 /\ Phase["teardown"] = 7
  /\ Phase["restore"] = 8 /\ Phase["show"] = 9 /\ Phase["fence"] = 10 /\ Phase["drain"] = 11
  /\ Phase["release"] = 12
BY DEF Phase

LEMMA UninitTasks ==
  ASSUME NEW k \in Uninit
  PROVE  /\ k.do \in {"flag", "awaitBusy", "stop", "join", "look", "teardown", "restore", "show",
                      "fence", "drain", "release"}
         /\ Phase[k.do] \in 1..12
<1>1. k.do \in {"flag", "awaitBusy", "stop", "join", "look", "teardown", "restore", "show",
                "fence", "drain", "release"}
  BY DEF Uninit, Stop, Task
<1> QED
  BY <1>1, Phases

\* The task that is next.
Current(k) == k \in todo /\ \A j \in todo \ {k} : Before(k, j)

LEMMA CurrentFirst ==
  ASSUME Ordered, module = "unloading", NEW k, Current(k), NEW j \in todo
  PROVE  k \in Uninit /\ Phase[k.do] <= Phase[j.do]
<1>1. k \in Uninit /\ j \in Uninit
  BY DEF Current, Ordered
<1>2. Phase[k.do] \in 1..12 /\ Phase[j.do] \in 1..12
  BY <1>1, UninitTasks
<1>3. CASE j = k
  BY <1>1, <1>2, <1>3
<1>4. CASE j # k
  <2>1. Before(k, j)
    BY <1>4 DEF Current
  <2> QED
    BY <1>1, <1>2, <2>1, Phases DEF Before
<1> QED
  BY <1>3, <1>4

\* What comes before the current task is done, and what comes after it is not.
LEMMA CurrentOrder ==
  ASSUME Ordered, module = "unloading", NEW k, Current(k), NEW j \in Uninit
  PROVE  /\ Phase[j.do] < Phase[k.do] => j \notin todo
         /\ Phase[j.do] > Phase[k.do] => j \in todo
<1>1. k \in Uninit /\ k \in todo
  BY CurrentFirst DEF Current, Ordered
<1>2. Phase[k.do] \in 1..12 /\ Phase[j.do] \in 1..12
  BY <1>1, UninitTasks
<1>3. j \in todo => Phase[k.do] <= Phase[j.do]
  BY CurrentFirst
<1>4. j \notin todo => Phase[j.do] <= Phase[k.do]
  BY <1>1 DEF Ordered
<1> QED
  BY <1>2, <1>3, <1>4

LEMMA CurrentIsOne ==
  ASSUME Ordered, module = "unloading", NEW k, NEW j, Current(k), Current(j)
  PROVE  Phase[k.do] = Phase[j.do]
<1>1. k \in Uninit /\ j \in Uninit /\ k \in todo /\ j \in todo
  BY CurrentFirst DEF Current
<1>2. Phase[k.do] \in 1..12 /\ Phase[j.do] \in 1..12
  BY <1>1, UninitTasks
<1> QED
  BY <1>1, <1>2, CurrentFirst

LEMMA DoingCurrent ==
  ASSUME NEW do, NEW of
  PROVE  Doing(do, of) <=> Current(Task(do, of))
BY DEF Doing, Current

LEMMA TaskSteps ==
  [Next]_vars =>
    \/ UNCHANGED <<module, todo>>
    \/ ModInit \/ ModSettingsChanged \/ ModUninit \/ ApplyHooks \/ Release
    \/ module' = module /\ \E k \in todo : Current(k) /\ todo' = todo \ {k}
<1> DEFINE TaskStep == module' = module /\ \E k \in todo : Current(k) /\ todo' = todo \ {k}
<1>1. ASSUME NEW do, NEW of, Doing(do, of), Done(do, of), module' = module PROVE TaskStep
  BY <1>1, DoingCurrent DEF Done, Current
<1> HIDE DEF TaskStep
<1>2. ASSUME NEW t \in Workers, StartThread(t) PROVE TaskStep
  BY <1>1, <1>2, Zenon DEF StartThread
<1>3. ASSUME NEW t \in Workers, PostQuit(t) PROVE TaskStep
  BY <1>1, <1>3, Zenon DEF PostQuit
<1>4. ASSUME NEW t \in Workers, JoinThread(t) PROVE TaskStep
  BY <1>1, <1>4, Zenon DEF JoinThread
<1>5. ASSUME RaiseFlag \/ AwaitBusy \/ Look \/ Drain PROVE TaskStep
  BY <1>1, <1>5, Zenon DEF RaiseFlag, AwaitBusy, Look, Drain
<1>6. ASSUME NEW do, NEW v \in Window, Send(do, v) PROVE TaskStep \/ UNCHANGED <<module, todo>>
  BY <1>1, <1>6, Zenon DEF Send
<1>7. ASSUME NEW v \in Window, Restore(v) PROVE TaskStep
  BY <1>1, <1>7, Zenon DEF Restore
<1>8. ASSUME Answered \/ TimesOut PROVE TaskStep
  BY <1>1, <1>8, Zenon DEF Answered, TimesOut, Returned
<1>9. ASSUME ShowFails \/ AnswerStep \/ UNCHANGED vars PROVE UNCHANGED <<module, todo>>
  BY <1>9 DEF ShowFails, AnswerStep, EnterTeardown, AnswerSent, vars, modVars
<1>10. CASE Mstsc
  BY <1>10 DEF Mstsc, CreateControl, CreateWindow, DestroyOwn, Dispatch, modVars
<1>11. CASE UiStep
  BY <1>11, Zenon
     DEF UiStep, Attach, Latch, CountCall, UnadviseOnDestroy, ForgetWindow, ReturnCall,
         CheckStopping, TakeBusy, CheckAgain, Advise, StoreSink, ResetBusy, AnswerTeardown,
         modVars
<1>12. ASSUME NEW t \in Workers, ShowFrame(t) \/ WorkerStep(t) PROVE UNCHANGED <<module, todo>>
  BY <1>12 DEF ShowFrame, WorkerStep, CreateQueue, SignalReady, FrameShown, GetQuit
<1>13. "frame" \in Window /\ "bar" \in Window
  BY DEF Window
<1>14. ASSUME Caller
       PROVE  TaskStep \/ UNCHANGED <<module, todo>> \/ ApplyHooks \/ Release
  BY <1>2, <1>3, <1>4, <1>5, <1>6, <1>7, <1>8, <1>9, <1>13, <1>14 DEF Caller
<1> QED
  BY <1>9, <1>10, <1>11, <1>12, <1>14 DEF Next, TaskStep

LEMMA OrderedNext == Ordered /\ [Next]_vars => Ordered'
<1> SUFFICES ASSUME Ordered, [Next]_vars PROVE Ordered'
  OBVIOUS
<1>1. CASE UNCHANGED <<module, todo>>
  BY <1>1 DEF Ordered
<1>2. CASE ModInit
  BY <1>2 DEF ModInit, Ordered, Start, Task
<1>3. CASE ModSettingsChanged
  BY <1>3 DEF ModSettingsChanged, Ordered, Start, Stop, Task
<1>4. CASE ModUninit
  <2>1. module' = "unloading" /\ todo' = Uninit
    BY <1>4 DEF ModUninit
  <2>2. todo' \subseteq Uninit /\ \A j \in Uninit : j \in todo'
    BY <2>1
  <2> QED
    BY <2>1, <2>2 DEF Ordered
<1>5. CASE ApplyHooks
  <2>1. module' = "loaded" /\ todo' \subseteq todo /\ Task("hook", "all") \in todo
    BY <1>5 DEF ApplyHooks, Doing, Done
  <2>2. Task("hook", "all").do = "hook"
    BY DEF Task
  <2>3. module \in {"new", "starting", "loaded"}
    BY <2>1, <2>2, UninitTasks DEF Ordered
  <2> QED
    BY <2>1, <2>3 DEF Ordered
<1>6. CASE Release
  <2>1. Current(Task("release", "all")) /\ todo' = todo \ {Task("release", "all")}
        /\ module' \in {"unloaded", "retained"}
    BY <1>6, DoingCurrent DEF Release, Done
  <2>2. module = "unloading"
    BY <2>1 DEF Ordered, Current, Task
  <2>3. Phase[Task("release", "all").do] = 12
    BY Phases DEF Task
  <2>4. ASSUME NEW k \in todo PROVE k = Task("release", "all")
    <3>1. k \in Uninit /\ 12 <= Phase[k.do] /\ Phase[k.do] \in 1..12
      BY <2>1, <2>2, <2>3, CurrentFirst, UninitTasks DEF Ordered
    <3>2. k.do = "release"
      BY <3>1, UninitTasks, Phases
    <3> QED
      BY <3>1, <3>2 DEF Uninit, Stop, Task
  <2> QED
    BY <2>1, <2>4 DEF Ordered
<1>7. CASE module' = module /\ \E k \in todo : Current(k) /\ todo' = todo \ {k}
  <2>1. PICK k \in todo : Current(k) /\ todo' = todo \ {k} /\ module' = module
    BY <1>7
  <2>2. module \in {"unloaded", "retained"} => FALSE
    BY <2>1 DEF Ordered
  <2>3. ASSUME module = "unloading", NEW j \in Uninit \ todo', NEW l \in todo'
        PROVE  Phase[j.do] <= Phase[l.do]
    <3>1. j = k \/ j \in Uninit \ todo
      BY <2>1, <2>3
    <3> QED
      BY <2>1, <2>3, <3>1, CurrentFirst DEF Ordered
  <2> QED
    BY <2>1, <2>2, <2>3 DEF Ordered
<1> QED
  BY <1>1, <1>2, <1>3, <1>4, <1>5, <1>6, <1>7, TaskSteps

\* While ModUninit waits in a call, no other task of its own is current.
LEMMA OneCall ==
  ASSUME Ordered, Waiting, sent # "no", NEW do, NEW of, Doing(do, of)
  PROVE  do \in Calls
<1>1. PICK call \in Calls, v \in Window : Doing(call, v)
  BY DEF Waiting
<1>2. module = "unloading"
  BY DEF Waiting
<1>3. Phase[Task(do, of).do] = Phase[Task(call, v).do]
  BY <1>1, <1>2, CurrentIsOne, DoingCurrent
<1>4. Phase[do] = Phase[call]
  BY <1>3 DEF Task
<1>5. Task(do, of) \in Uninit
  BY <1>2 DEF Doing, Ordered
<1>6. do \in {"flag", "awaitBusy", "stop", "join", "look", "teardown", "restore", "show",
              "fence", "drain", "release"}
  BY <1>5, UninitTasks DEF Task
<1> QED
  BY <1>4, <1>6, Phases DEF Calls

LEMMA JoinedNext == Typed /\ Ordered /\ Joined /\ [Next]_vars => Joined'
<1> SUFFICES ASSUME Typed, Ordered, Joined, [Next]_vars PROVE Joined'
  OBVIOUS
<1> DEFINE Unloads == {"unloading", "unloaded", "retained"}
<1>1. ASSUME thread' = thread,
             module' \in Unloads =>
               /\ module \in Unloads
               /\ \A t \in Workers : Task("join", t) \in todo => Task("join", t) \in todo'
      PROVE  Joined'
  BY <1>1 DEF Joined
<1>2. ASSUME NEW do, NEW of, Done(do, of), do # "join", UNCHANGED <<thread, module>>
      PROVE  Joined'
  <2>1. \A t : Task("join", t) # Task(do, of)
    BY <1>2 DEF Task
  <2> QED
    BY <1>1, <1>2, <2>1 DEF Done
<1>3. ASSUME NEW t \in Workers, StartThread(t) PROVE Joined'
  <2>1. Task("start", t) \in todo /\ Task("start", t).do = "start"
    BY <1>3 DEF StartThread, Doing, Task
  <2>2. module \notin Unloads
    BY <2>1, UninitTasks DEF Ordered
  <2> QED
    BY <1>3, <2>2 DEF StartThread, Joined, Typed
<1>4. ASSUME NEW t \in Workers, PostQuit(t) PROVE Joined'
  <2>1. \A u \in Workers : thread'[u].at = thread[u].at /\ thread'[u].handle = thread[u].handle
    BY <1>4 DEF PostQuit, Typed
  <2>2. \A u : Task("join", u) \in todo => Task("join", u) \in todo'
    BY <1>4 DEF PostQuit, Done, Task
  <2> QED
    BY <1>4, <2>1, <2>2 DEF PostQuit, Joined
<1>5. ASSUME NEW t \in Workers, JoinThread(t) PROVE Joined'
  <2>1. \A u \in Workers : u # t /\ Task("join", u) \in todo => Task("join", u) \in todo'
    BY <1>5 DEF JoinThread, Done, Task
  <2>2. thread'[t].handle = FALSE /\ thread'[t].at = "exited"
        /\ \A u \in Workers : u # t => thread'[u] = thread[u]
    BY <1>5 DEF JoinThread, Joined, Typed
  <2>3. module' = module
    BY <1>5 DEF JoinThread
  <2> QED
    BY <2>1, <2>2, <2>3 DEF Joined
<1>6. ASSUME NEW t \in Workers, ShowFrame(t) \/ WorkerStep(t) PROVE Joined'
  <2>1. UNCHANGED <<module, todo>> /\ thread[t].at # "exited"
    BY <1>6 DEF ShowFrame, WorkerStep, CreateQueue, SignalReady, FrameShown, GetQuit
  <2>2. \A u \in Workers : thread'[u].handle = thread[u].handle /\ (u # t => thread'[u] = thread[u])
    BY <1>6 DEF ShowFrame, WorkerStep, CreateQueue, SignalReady, FrameShown, GetQuit, Typed
  <2> QED
    BY <2>1, <2>2 DEF Joined
<1>7. ASSUME ModInit \/ ModSettingsChanged \/ ApplyHooks PROVE Joined'
  BY <1>1, <1>7 DEF ModInit, ModSettingsChanged, ApplyHooks
<1>8. ASSUME ModUninit PROVE Joined'
  <2>1. \A t \in Workers : Task("join", t) \in todo'
    BY <1>8 DEF ModUninit, Uninit, Stop
  <2> QED
    BY <1>8, <2>1 DEF ModUninit, Joined
<1>9. ASSUME Release PROVE Joined'
  <2>1. Current(Task("release", "all")) /\ Task("release", "all") \in todo
    BY <1>9, DoingCurrent DEF Release, Current
  <2>2. module = "unloading"
    BY <2>1 DEF Ordered, Task
  <2>3. \A t \in Workers : Task("join", t) \in Uninit
    BY DEF Uninit, Stop
  <2>4. \A t \in Workers : Phase[Task("join", t).do] < Phase[Task("release", "all").do]
    BY Phases DEF Task
  <2>5. \A t \in Workers : Task("join", t) \notin todo
    BY <2>1, <2>2, <2>3, <2>4, CurrentOrder
  <2> QED
    BY <1>9, <2>2, <2>5 DEF Release, Joined
<1>10. ASSUME RaiseFlag \/ AwaitBusy \/ Look \/ Drain PROVE Joined'
  BY <1>2, <1>10, Zenon DEF RaiseFlag, AwaitBusy, Look, Drain
<1>11. ASSUME UNCHANGED <<module, todo, thread>> PROVE Joined'
  BY <1>1, <1>11
<1>12. ASSUME NEW do, NEW v \in Window, do # "join", Send(do, v) PROVE Joined'
  BY <1>2, <1>11, <1>12, Zenon DEF Send
<1>13. ASSUME NEW v \in Window, Restore(v) PROVE Joined'
  BY <1>2, <1>13, Zenon DEF Restore
<1>14. ASSUME Answered \/ TimesOut PROVE Joined'
  <2>1. PICK do \in Calls, v \in Window : Done(do, v)
    BY <1>14 DEF Answered, TimesOut, Returned, Calls
  <2>2. do # "join"
    BY <2>1 DEF Calls
  <2> QED
    BY <1>2, <1>14, <2>1, <2>2 DEF Answered, TimesOut
<1>15. ASSUME ShowFails \/ AnswerStep \/ UNCHANGED vars PROVE UNCHANGED <<module, todo, thread>>
  BY <1>15 DEF ShowFails, AnswerStep, EnterTeardown, AnswerSent, vars, modVars
<1>16. ASSUME Mstsc PROVE UNCHANGED <<module, todo, thread>>
  BY <1>16 DEF Mstsc, CreateControl, CreateWindow, DestroyOwn, Dispatch, modVars
<1>17. ASSUME UiStep PROVE UNCHANGED <<module, todo, thread>>
  BY <1>17, Zenon
     DEF UiStep, Attach, Latch, CountCall, UnadviseOnDestroy, ForgetWindow, ReturnCall,
         CheckStopping, TakeBusy, CheckAgain, Advise, StoreSink, ResetBusy, AnswerTeardown,
         modVars
<1>18. "frame" \in Window /\ "bar" \in Window
  BY DEF Window
<1> HIDE DEF Joined
<1>19. ASSUME Caller PROVE Joined'
  BY <1>3, <1>4, <1>5, <1>7, <1>9, <1>10, <1>11, <1>12, <1>13, <1>14, <1>15, <1>18, <1>19
     DEF Caller
<1> QED
  BY <1>6, <1>7, <1>8, <1>11, <1>15, <1>16, <1>17, <1>19 DEF Next

LEMMA WaitingNext == Ordered /\ Waiting /\ [Next]_vars => Waiting'
<1> SUFFICES ASSUME Ordered, Waiting, [Next]_vars PROVE Waiting'
  OBVIOUS
<1>1. ASSUME sent' = "no" PROVE Waiting'
  BY <1>1 DEF Waiting, Calls
<1>2. ASSUME UNCHANGED <<sent, module, todo>> PROVE Waiting'
  BY <1>2 DEF Waiting, Doing
<1>3. ASSUME sent' = sent, module # "unloading" PROVE Waiting'
  BY <1>1, <1>3 DEF Waiting
<1>4. ASSUME NEW do, NEW of, Doing(do, of), do \notin Calls, sent' = sent PROVE Waiting'
  BY <1>1, <1>4, OneCall
<1>5. ASSUME sent' = "answered", sent \in Calls, UNCHANGED <<module, todo>> PROVE Waiting'
  BY <1>5 DEF Waiting, Doing, Calls
<1>6. ASSUME NEW do \in Calls, NEW v \in Window, Send(do, v) PROVE Waiting'
  <2>1. CASE Needed(do, v)
    <3>1. sent' = do /\ Doing(do, v)' /\ UNCHANGED <<module, todo>> /\ Task(do, v) \in todo
      BY <1>6, <2>1 DEF Send, Doing
    <3>2. Task(do, v).do \in Calls
      BY DEF Task
    <3>3. module = "unloading"
      BY <3>1, <3>2 DEF Ordered, Calls
    <3> QED
      BY <3>1, <3>3 DEF Waiting, Calls
  <2>2. CASE ~Needed(do, v)
    BY <1>1, <1>6, <2>2 DEF Send
  <2> QED
    BY <2>1, <2>2
<1>7. ASSUME NEW t \in Workers, StartThread(t) \/ PostQuit(t) \/ JoinThread(t) PROVE Waiting'
  BY <1>4, <1>7 DEF StartThread, PostQuit, JoinThread, uninitVars, Calls
<1>8. ASSUME ApplyHooks \/ RaiseFlag \/ AwaitBusy \/ Look \/ Drain \/ Release PROVE Waiting'
  BY <1>4, <1>8 DEF ApplyHooks, RaiseFlag, AwaitBusy, Look, Drain, Release, uninitVars, Calls
<1>9. ASSUME NEW v \in Window, Restore(v) PROVE Waiting'
  BY <1>4, <1>9 DEF Restore, Calls
<1>10. ASSUME Answered \/ TimesOut PROVE Waiting'
  BY <1>1, <1>10 DEF Answered, TimesOut
<1>11. ASSUME ShowFails PROVE Waiting'
  BY <1>5, <1>11 DEF ShowFails, modVars, Calls
<1>12. ASSUME AnswerStep PROVE Waiting'
  BY <1>2, <1>5, <1>12 DEF AnswerStep, EnterTeardown, AnswerSent, modVars, uninitVars, Calls
<1>13. ASSUME ModInit \/ ModSettingsChanged \/ ModUninit PROVE Waiting'
  BY <1>3, <1>13 DEF ModInit, ModSettingsChanged, ModUninit, uninitVars
<1>14. ASSUME Mstsc PROVE Waiting'
  BY <1>2, <1>14
     DEF Mstsc, CreateControl, CreateWindow, DestroyOwn, Dispatch, modVars, uninitVars
<1>15. ASSUME UiStep, ~AnswerTeardown PROVE UNCHANGED <<sent, module, todo>>
  BY <1>15, Zenon
     DEF UiStep, Attach, Latch, CountCall, UnadviseOnDestroy, ForgetWindow, ReturnCall,
         CheckStopping, TakeBusy, CheckAgain, Advise, StoreSink, ResetBusy, modVars, uninitVars
<1>16. ASSUME AnswerTeardown PROVE Waiting'
  BY <1>2, <1>5, <1>16 DEF AnswerTeardown, modVars, Calls
<1>17. ASSUME NEW t \in Workers, ShowFrame(t) \/ WorkerStep(t) PROVE Waiting'
  BY <1>2, <1>17
     DEF ShowFrame, WorkerStep, CreateQueue, SignalReady, FrameShown, GetQuit, uninitVars
<1>18. ASSUME UNCHANGED vars PROVE Waiting'
  BY <1>2, <1>18 DEF vars, modVars, uninitVars
<1>19. "frame" \in Window /\ "bar" \in Window /\ Calls = {"teardown", "show", "fence"}
  BY DEF Window, Calls
<1> HIDE DEF Waiting
<1>20. ASSUME Caller PROVE Waiting'
  BY <1>6, <1>7, <1>8, <1>9, <1>10, <1>11, <1>19, <1>20 DEF Caller
<1> QED
  BY <1>2, <1>12, <1>13, <1>14, <1>15, <1>16, <1>17, <1>18, <1>20 DEF Next

-----------------------------------------------------------------------------
(* The threads and the UI thread by themselves                             *)

\* What leaves the UI thread and its windows alone.
LEMMA UiStands ==
  [Next]_vars /\ ~Mstsc /\ ~UiStep /\ ~EnterTeardown /\ ~(\E v \in Window : Restore(v))
    => UNCHANGED uiVars /\ UNCHANGED sinkVars
<1> DEFINE Goal == UNCHANGED uiVars /\ UNCHANGED sinkVars
<1>1. ASSUME ModInit \/ ModSettingsChanged \/ ModUninit PROVE Goal
  BY <1>1, Zenon DEF ModInit, ModSettingsChanged, ModUninit
<1>2. ASSUME NEW t \in Workers, \/ StartThread(t) \/ PostQuit(t) \/ JoinThread(t) \/ ShowFrame(t)
                                \/ WorkerStep(t)
      PROVE  Goal
  BY <1>2, Zenon
     DEF StartThread, PostQuit, JoinThread, ShowFrame, WorkerStep, CreateQueue, SignalReady,
         FrameShown, GetQuit
<1>3. ASSUME \/ ApplyHooks \/ RaiseFlag \/ AwaitBusy \/ Look \/ Answered \/ TimesOut \/ ShowFails
             \/ Drain \/ Release \/ AnswerSent
      PROVE  Goal
  BY <1>3, Zenon
     DEF ApplyHooks, RaiseFlag, AwaitBusy, Look, Answered, TimesOut, ShowFails, Drain, Release,
         AnswerSent
<1>4. ASSUME NEW do, NEW v, Send(do, v) PROVE Goal
  BY <1>4, Zenon DEF Send
<1>5. ASSUME UNCHANGED vars PROVE Goal
  BY <1>5 DEF vars, uiVars, sinkVars
<1> HIDE DEF Goal
<1> SUFFICES ASSUME [Next]_vars, ~Mstsc, ~UiStep, ~EnterTeardown, ~\E v \in Window : Restore(v)
             PROVE  Goal
  BY DEF Goal
<1> QED
  BY <1>1, <1>2, <1>3, <1>4, <1>5, Zenon DEF Next, Caller, AnswerStep

LEMMA PlacedNext ==
  UiTyped /\ Placed /\ Counted /\ [Next]_vars => Placed' /\ Counted'
<1> SUFFICES ASSUME UiTyped, Placed, Counted, [Next]_vars PROVE Placed' /\ Counted'
  OBVIOUS
<1> USE DEF UiTyped, Placed, Counted, InWindow, InAdvise, Window, InUi, Enter, Leave
<1>1. ASSUME UNCHANGED <<ui, window, calls>> PROVE Placed' /\ Counted'
  BY <1>1
<1>2. ASSUME NEW v \in Window, CreateWindow(v) PROVE Placed' /\ Counted'
  BY <1>2 DEF CreateWindow
<1>3. ASSUME NEW v \in Window, DestroyOwn(v) \/ Dispatch(v) PROVE Placed' /\ Counted'
  BY <1>3 DEF DestroyOwn, Dispatch
<1>4. ASSUME NEW v \in Window, Attach(v) \/ Latch(v) PROVE Placed' /\ Counted'
  <2>1. calls' = 0
    <3>1. calls' = calls /\ (ui = [at |-> "create", of |-> v] \/ ui = [at |-> "latch", of |-> v])
      BY <1>4, Zenon DEF Attach, Latch
    <3> QED
      BY <3>1
  <2>2. ui' = [at |-> "latch", of |-> v] \/ ui' = [at |-> "mstsc", of |-> "none"]
    <3>1. ASSUME Attach(v) PROVE <2>2!1 \/ <2>2!2
      BY <3>1, Zenon DEF Attach
    <3>2. ASSUME Latch(v) PROVE <2>2!1 \/ <2>2!2
      BY <3>2, Zenon DEF Latch
    <3> QED
      BY <1>4, <3>1, <3>2
  <2> QED
    BY <2>1, <2>2
<1>5. ASSUME NEW v \in Window, CountCall(v) PROVE Placed' /\ Counted'
  BY <1>5 DEF CountCall
<1>6. ASSUME NEW v \in Window, UnadviseOnDestroy(v) \/ ForgetWindow(v) PROVE Placed' /\ Counted'
  BY <1>6 DEF UnadviseOnDestroy, ForgetWindow
<1>7. ASSUME NEW v \in Window, ReturnCall(v) PROVE Placed' /\ Counted'
  BY <1>7 DEF ReturnCall
<1>8. ASSUME CreateControl \/ CheckStopping \/ TakeBusy PROVE Placed' /\ Counted'
  BY <1>8 DEF CreateControl, CheckStopping, TakeBusy
<1>9. ASSUME CheckAgain \/ Advise \/ StoreSink \/ ResetBusy PROVE Placed' /\ Counted'
  BY <1>9 DEF CheckAgain, Advise, StoreSink, ResetBusy
<1>10. ASSUME EnterTeardown PROVE Placed' /\ Counted'
  BY <1>10 DEF EnterTeardown, Pumping
<1>11. ASSUME AnswerTeardown PROVE Placed' /\ Counted'
  BY <1>11 DEF AnswerTeardown
<1>12. ASSUME NEW v \in Window, Restore(v) PROVE Placed' /\ Counted'
  BY <1>1, <1>12 DEF Restore
<1> HIDE DEF UiTyped, Placed, Counted, Window
<1> QED
  BY <1>1, <1>2, <1>3, <1>4, <1>5, <1>6, <1>7, <1>8, <1>9, <1>10, <1>11, <1>12, UiStands
     DEF Mstsc, UiStep, uiVars

\* The locals of ModUninit: what it found is read once, and only the wait for
\* the advise may take the decision to keep the module back.
LEMMA Locals ==
  [Next]_vars => /\ ~Look => UNCHANGED <<found, overlooked>>
                 /\ ~AwaitBusy /\ keepMapped => keepMapped'
                 /\ todo = {} => UNCHANGED keepMapped
<1> DEFINE Goal == /\ ~Look => UNCHANGED <<found, overlooked>>
                   /\ ~AwaitBusy /\ keepMapped => keepMapped'
                   /\ todo = {} => UNCHANGED keepMapped
<1>1. ASSUME UNCHANGED <<found, overlooked, keepMapped>> PROVE Goal
  BY <1>1
<1>2. ASSUME ModInit \/ ModSettingsChanged \/ ModUninit PROVE Goal
  BY <1>1, <1>2 DEF ModInit, ModSettingsChanged, ModUninit, uninitVars
<1>3. ASSUME NEW t \in Workers, \/ StartThread(t) \/ PostQuit(t) \/ JoinThread(t) \/ ShowFrame(t)
                                \/ WorkerStep(t)
      PROVE  Goal
  BY <1>1, <1>3
     DEF StartThread, PostQuit, JoinThread, ShowFrame, WorkerStep, CreateQueue, SignalReady,
         FrameShown, GetQuit, uninitVars
<1>4. ASSUME ApplyHooks \/ RaiseFlag \/ Answered \/ ShowFails \/ Release \/ AnswerStep PROVE Goal
  BY <1>1, <1>4
     DEF ApplyHooks, RaiseFlag, Answered, ShowFails, Release, AnswerStep, EnterTeardown,
         AnswerSent, uninitVars
<1>5. ASSUME AwaitBusy \/ Look PROVE Goal
  <2>1. AwaitBusy => UNCHANGED <<found, overlooked>>
    BY Zenon DEF AwaitBusy
  <2>2. Look /\ keepMapped => keepMapped'
    BY Zenon DEF Look
  <2>3. todo # {}
    BY <1>5 DEF AwaitBusy, Look, Doing
  <2> QED
    BY <1>5, <2>1, <2>2, <2>3, Zenon
<1>6. ASSUME TimesOut \/ Drain \/ \E v \in Window : Restore(v) PROVE Goal
  <2>1. UNCHANGED <<found, overlooked>>
    BY <1>6, Zenon DEF TimesOut, Drain, Restore
  <2>2. keepMapped => keepMapped'
    BY <1>6, Zenon DEF TimesOut, Drain, Restore
  <2>3. todo # {}
    BY <1>6 DEF TimesOut, Drain, Restore, Returned, Doing
  <2> QED
    BY <2>1, <2>2, <2>3
<1>7. ASSUME NEW do, NEW v, Send(do, v) PROVE Goal
  BY <1>1, <1>7 DEF Send
<1>8. ASSUME Mstsc PROVE Goal
  BY <1>1, <1>8 DEF Mstsc, CreateControl, CreateWindow, DestroyOwn, Dispatch, uninitVars
<1>9. ASSUME UiStep PROVE UNCHANGED <<found, overlooked, keepMapped>>
  BY <1>9, Zenon
     DEF UiStep, Attach, Latch, CountCall, UnadviseOnDestroy, ForgetWindow, ReturnCall,
         CheckStopping, TakeBusy, CheckAgain, Advise, StoreSink, ResetBusy, AnswerTeardown,
         uninitVars
<1>10. ASSUME UNCHANGED vars PROVE Goal
  BY <1>1, <1>10 DEF vars, uninitVars
<1> HIDE DEF Goal
<1> SUFFICES ASSUME [Next]_vars PROVE Goal
  BY DEF Goal
<1> QED
  BY <1>1, <1>2, <1>3, <1>4, <1>5, <1>6, <1>7, <1>8, <1>9, <1>10, Zenon DEF Next, Caller

LEMMA UiTypedNext == UiTyped /\ Placed /\ [Next]_vars => UiTyped'
<1> SUFFICES ASSUME UiTyped, Placed, [Next]_vars PROVE UiTyped'
  OBVIOUS
<1> USE DEF UiTyped, InWindow, InAdvise, Window, InUi, Enter, Leave
<1>1. ASSUME UNCHANGED uiVars, ~Look PROVE UiTyped'
  BY <1>1, Locals DEF uiVars
<1>2. ASSUME Look PROVE UiTyped'
  BY <1>2 DEF Look, uiVars
<1>3. ASSUME NEW v \in Window, CreateWindow(v) PROVE UiTyped'
  BY <1>3 DEF CreateWindow, uninitVars
<1>4. ASSUME NEW v \in Window, DestroyOwn(v) \/ Dispatch(v) PROVE UiTyped'
  BY <1>4 DEF DestroyOwn, Dispatch, uninitVars
<1>5. ASSUME NEW v \in Window, Attach(v) PROVE UiTyped'
  <2>1. ui' = [at |-> "latch", of |-> v] \/ ui' = [at |-> "mstsc", of |-> "none"]
    BY <1>5, Zenon DEF Attach
  <2>2. window' \in [Window -> {"none", "shown", "gone"}] /\ proc' \in [Window -> {"own", "mod"}]
    BY <1>5 DEF Attach
  <2>3. UNCHANGED <<latched, original, found>>
    BY <1>5, Zenon DEF Attach, uninitVars
  <2> QED
    BY <2>1, <2>2, <2>3
<1>6. ASSUME NEW v \in Window, Latch(v) PROVE UiTyped'
  BY <1>6 DEF Latch, uninitVars
<1>7. ASSUME NEW v \in Window, CountCall(v) \/ UnadviseOnDestroy(v) \/ ReturnCall(v) PROVE UiTyped'
  BY <1>7 DEF CountCall, UnadviseOnDestroy, ReturnCall, uninitVars
<1>8. ASSUME NEW v \in Window, ForgetWindow(v) PROVE UiTyped'
  BY <1>8 DEF ForgetWindow, uninitVars
<1>9. ASSUME CreateControl \/ CheckStopping \/ TakeBusy PROVE UiTyped'
  BY <1>9 DEF CreateControl, CheckStopping, TakeBusy, uninitVars
<1>10. ASSUME CheckAgain \/ Advise \/ StoreSink \/ ResetBusy PROVE UiTyped'
  BY <1>10 DEF CheckAgain, Advise, StoreSink, ResetBusy, uninitVars
<1>11. ASSUME EnterTeardown \/ AnswerTeardown PROVE UiTyped'
  BY <1>11 DEF EnterTeardown, AnswerTeardown, uninitVars
<1>12. ASSUME NEW v \in Window, Restore(v) PROVE UiTyped'
  <2>1. proc' \in [Window -> {"own", "mod"}]
    BY <1>12 DEF Restore
  <2>2. UNCHANGED <<ui, window, latched, original, found>>
    BY <1>12, Zenon DEF Restore
  <2> QED
    BY <2>1, <2>2
<1> HIDE DEF UiTyped, Window
<1> QED
  BY <1>1, <1>2, <1>3, <1>4, <1>5, <1>6, <1>7, <1>8, <1>9, <1>10, <1>11, <1>12, UiStands
     DEF Mstsc, UiStep

LEMMA TypedNext == Typed /\ [Next]_vars => Typed'
<1> SUFFICES ASSUME Typed, [Next]_vars PROVE Typed'
  OBVIOUS
<1>1. ASSUME UNCHANGED thread PROVE Typed'
  BY <1>1 DEF Typed
<1>2. ASSUME NEW t \in Workers, NEW at \in ThreadAt, NEW handle \in BOOLEAN, NEW ready \in BOOLEAN,
             NEW quit \in BOOLEAN,
             thread' = [thread EXCEPT ![t] =
               [handle |-> handle, ready |-> ready, at |-> at, quit |-> quit]]
      PROVE  Typed'
  BY <1>2 DEF Typed
<1>3. ASSUME NEW t \in Workers, StartThread(t) PROVE Typed'
  BY <1>1, <1>2, <1>3 DEF StartThread, ThreadAt
<1>4. ASSUME NEW t \in Workers, PostQuit(t) \/ JoinThread(t) PROVE Typed'
  <2>1. CASE PostQuit(t)
    <3>1. HasQueue(t) \in BOOLEAN
      BY DEF HasQueue
    <3>2. thread' = [thread EXCEPT ![t].quit = HasQueue(t)]
      BY <2>1 DEF PostQuit
    <3> QED
      BY <3>1, <3>2 DEF Typed
  <2>2. CASE JoinThread(t)
    BY <2>2 DEF JoinThread, Typed
  <2> QED
    BY <1>4, <2>1, <2>2
<1>5. ASSUME NEW t \in Workers, CreateQueue(t) \/ ShowFrame(t) \/ FrameShown(t) \/ GetQuit(t)
      PROVE  Typed'
  <2>1. PICK at \in ThreadAt : thread' = [thread EXCEPT ![t].at = at]
    BY <1>5 DEF CreateQueue, ShowFrame, FrameShown, GetQuit, ThreadAt
  <2> QED
    BY <2>1 DEF Typed
<1>6. ASSUME NEW t \in Workers, SignalReady(t) PROVE Typed'
  <2>1. PICK next \in {"loop", "exited"} :
          thread' = [thread EXCEPT ![t].at = next, ![t].ready = TRUE]
    BY <1>6 DEF SignalReady
  <2> QED
    BY <2>1 DEF Typed, ThreadAt
<1>7. ASSUME ModInit \/ ModSettingsChanged \/ ModUninit PROVE Typed'
  BY <1>1, <1>7 DEF ModInit, ModSettingsChanged, ModUninit
<1>8. ASSUME ApplyHooks \/ RaiseFlag \/ AwaitBusy \/ Look \/ Drain \/ Release PROVE Typed'
  BY <1>1, <1>8 DEF ApplyHooks, RaiseFlag, AwaitBusy, Look, Drain, Release
<1>9. ASSUME NEW do, NEW v, Send(do, v) \/ Restore(v) PROVE Typed'
  BY <1>1, <1>9, Zenon DEF Send, Restore
<1>10. ASSUME Answered \/ TimesOut \/ ShowFails \/ AnswerStep \/ UNCHANGED vars PROVE Typed'
  BY <1>1, <1>10
     DEF Answered, TimesOut, ShowFails, AnswerStep, EnterTeardown, AnswerSent, modVars, vars
<1>11. ASSUME Mstsc PROVE Typed'
  BY <1>1, <1>11 DEF Mstsc, CreateControl, CreateWindow, DestroyOwn, Dispatch, modVars
<1>12. ASSUME UiStep PROVE UNCHANGED thread
  BY <1>12, Zenon
     DEF UiStep, Attach, Latch, CountCall, UnadviseOnDestroy, ForgetWindow, ReturnCall,
         CheckStopping, TakeBusy, CheckAgain, Advise, StoreSink, ResetBusy, AnswerTeardown,
         modVars
<1> HIDE DEF Typed
<1> QED
  BY <1>1, <1>3, <1>4, <1>5, <1>6, <1>7, <1>8, <1>9, <1>10, <1>11, <1>12, Zenon
     DEF Next, Caller, WorkerStep

LEMMA AdvisingNext == UiTyped /\ Advising /\ [Next]_vars => Advising'
<1> SUFFICES ASSUME UiTyped, Advising, [Next]_vars PROVE Advising'
  OBVIOUS
<1> USE DEF Advising, InUi, Enter, Leave
<1>1. ASSUME ui.at # "advised", ui'.at \notin {"busy", "advise", "advised", "reset"},
             UNCHANGED sinkVars
      PROVE  Advising'
  BY <1>1 DEF sinkVars
<1>2. ASSUME UNCHANGED <<ui, sinkVars>> PROVE Advising'
  BY <1>2 DEF sinkVars
<1>3. ASSUME Mstsc PROVE Advising'
  BY <1>1, <1>2, <1>3 DEF Mstsc, CreateControl, CreateWindow, DestroyOwn, Dispatch
<1>4. ASSUME NEW v \in Window, \/ Attach(v) \/ Latch(v) \/ CountCall(v) \/ ForgetWindow(v)
                               \/ ReturnCall(v)
      PROVE  Advising'
  <2>1. UNCHANGED sinkVars
    BY <1>4, Zenon DEF Attach, Latch, CountCall, ForgetWindow, ReturnCall
  <2>2. /\ \/ ui = [at |-> "create", of |-> v] \/ ui = [at |-> "latch", of |-> v]
           \/ ui = [at |-> "message", of |-> v] \/ ui = [at |-> "forget", of |-> v]
           \/ ui = [at |-> "return", of |-> v] \/ ui = [at |-> "last", of |-> v]
        /\ \/ ui' = [at |-> "latch", of |-> v] \/ ui' = [at |-> "mstsc", of |-> "none"]
           \/ ui' = [at |-> "destroy", of |-> v] \/ ui' = [at |-> "return", of |-> v]
           \/ ui' = [at |-> "last", of |-> v]
    BY <1>4, Zenon DEF Attach, Latch, CountCall, ForgetWindow, ReturnCall
  <2> QED
    BY <1>1, <2>1, <2>2
<1>5. ASSUME NEW v \in Window, UnadviseOnDestroy(v) PROVE Advising'
  <2>1. ui.at = "destroy" /\ ui'.at = "forget"
    BY <1>5 DEF UnadviseOnDestroy
  <2>2. connected' => advised'
    BY <1>5, <2>1 DEF UnadviseOnDestroy, Unadvise, sinkVars
  <2> QED
    BY <2>1, <2>2
<1>6. ASSUME AnswerTeardown PROVE Advising'
  <2>1. ui.at = "teardown" /\ ui'.at \in {"mstsc", "return"}
    BY <1>6 DEF AnswerTeardown
  <2>2. connected' => advised'
    BY <1>6, <2>1 DEF AnswerTeardown, Unadvise, sinkVars
  <2> QED
    BY <2>1, <2>2
<1>7. ASSUME EnterTeardown PROVE Advising'
  BY <1>1, <1>7 DEF EnterTeardown, Pumping
<1>8. ASSUME CheckStopping \/ CheckAgain PROVE Advising'
  BY <1>8 DEF CheckStopping, CheckAgain, sinkVars
<1>9. ASSUME TakeBusy PROVE Advising'
  BY <1>9 DEF TakeBusy
<1>10. ASSUME Advise PROVE Advising'
  BY <1>10 DEF Advise
<1>11. ASSUME StoreSink \/ ResetBusy PROVE Advising'
  BY <1>11 DEF StoreSink, ResetBusy
<1>12. ASSUME NEW v \in Window, Restore(v) PROVE Advising'
  BY <1>2, <1>12, Zenon DEF Restore
<1>13. ASSUME UNCHANGED uiVars, UNCHANGED sinkVars PROVE Advising'
  BY <1>2, <1>13 DEF uiVars
<1> HIDE DEF Advising
<1> QED
  BY <1>3, <1>4, <1>5, <1>6, <1>7, <1>8, <1>9, <1>10, <1>11, <1>12, <1>13, UiStands DEF UiStep

LEMMA TrackedNext ==
  UiTyped /\ Placed /\ SubclassedIsTracked /\ [Next]_vars => SubclassedIsTracked'
<1> SUFFICES ASSUME UiTyped, Placed, SubclassedIsTracked, [Next]_vars
             PROVE  SubclassedIsTracked'
  OBVIOUS
<1> USE DEF SubclassedIsTracked, InUi, Enter, Leave
<1>1. ASSUME UNCHANGED <<window, proc, latched, original>>, ui.at # "latch" \/ ui' = ui
      PROVE  SubclassedIsTracked'
  BY <1>1 DEF UiTyped
<1>2. ASSUME NEW v \in Window, CreateWindow(v) PROVE SubclassedIsTracked'
  BY <1>2 DEF CreateWindow, UiTyped
<1>3. ASSUME NEW v \in Window, DestroyOwn(v) \/ Dispatch(v) PROVE SubclassedIsTracked'
  BY <1>3 DEF DestroyOwn, Dispatch, UiTyped
<1>4. ASSUME NEW v \in Window, Attach(v) PROVE SubclassedIsTracked'
  <2>1. \A u \in Window \ {v} : window'[u] = window[u] /\ proc'[u] = proc[u]
    BY <1>4, Zenon DEF Attach, UiTyped
  <2>2. ui' = [at |-> "latch", of |-> v] \/ proc'[v] = "own"
    BY <1>4, Zenon DEF Attach
  <2>3. UNCHANGED <<latched, original>> /\ ui = [at |-> "create", of |-> v]
    BY <1>4, Zenon DEF Attach
  <2> QED
    BY <2>1, <2>2, <2>3
<1>5. ASSUME NEW v \in Window, Latch(v) PROVE SubclassedIsTracked'
  BY <1>5 DEF Latch, UiTyped, Window
<1>6. ASSUME NEW v \in Window, ForgetWindow(v) PROVE SubclassedIsTracked'
  BY <1>6 DEF ForgetWindow, UiTyped
<1>7. ASSUME NEW v \in Window, CountCall(v) \/ UnadviseOnDestroy(v) PROVE SubclassedIsTracked'
  BY <1>1, <1>7 DEF CountCall, UnadviseOnDestroy
<1>8. ASSUME NEW v \in Window, ReturnCall(v) PROVE SubclassedIsTracked'
  BY <1>8 DEF ReturnCall, UiTyped
<1>9. ASSUME \/ CreateControl \/ CheckStopping \/ TakeBusy \/ CheckAgain \/ Advise \/ StoreSink
             \/ ResetBusy \/ EnterTeardown \/ AnswerTeardown
      PROVE  SubclassedIsTracked'
  <2>1. UNCHANGED <<window, proc, latched, original>>
    BY <1>9, Zenon
       DEF CreateControl, CheckStopping, TakeBusy, CheckAgain, Advise, StoreSink, ResetBusy,
           EnterTeardown, AnswerTeardown
  <2>2. ui.at # "latch"
    BY <1>9
       DEF CreateControl, CheckStopping, TakeBusy, CheckAgain, Advise, StoreSink, ResetBusy,
           EnterTeardown, AnswerTeardown, Pumping
  <2> QED
    BY <1>1, <2>1, <2>2
<1>10. ASSUME NEW v \in Window, Restore(v) PROVE SubclassedIsTracked'
  <2>1. \A u \in Window : proc'[u] = proc[u] \/ proc'[u] = "own"
    BY <1>10 DEF Restore, UiTyped
  <2>2. UNCHANGED <<ui, window, latched, original>>
    BY <1>10, Zenon DEF Restore
  <2> QED
    BY <2>1, <2>2
<1>11. ASSUME UNCHANGED uiVars PROVE SubclassedIsTracked'
  BY <1>1, <1>11 DEF uiVars
<1> HIDE DEF SubclassedIsTracked
<1> QED
  BY <1>2, <1>3, <1>4, <1>5, <1>6, <1>7, <1>8, <1>9, <1>10, <1>11, UiStands DEF Mstsc, UiStep

-----------------------------------------------------------------------------
(* What is behind ModUninit                                                *)

LEMMA PastOrder ==
  ASSUME Ordered, NEW do, NEW of, Past(do, of), Task(do, of) \in Uninit,
         NEW before, NEW what, Task(before, what) \in Uninit, Phase[before] < Phase[do]
  PROVE  Past(before, what)
<1>1. CASE module = "unloading"
  <2>1. Task(do, of) \in Uninit \ todo
    BY DEF Past
  <2>2. Phase[do] \in 1..12 /\ Phase[before] \in 1..12
    BY UninitTasks DEF Task
  <2>3. Task(before, what) \in todo => Phase[Task(do, of).do] <= Phase[Task(before, what).do]
    BY <1>1, <2>1 DEF Ordered
  <2> QED
    BY <1>1, <2>2, <2>3 DEF Past, Task
<1>2. CASE module = "unloaded"
  BY <1>2 DEF Ordered, Past
<1> QED
  BY <1>1, <1>2 DEF Past

LEMMA DoingOrder ==
  ASSUME Ordered, module = "unloading", NEW do, NEW of, Doing(do, of),
         NEW before, NEW what, Task(before, what) \in Uninit, Phase[before] < Phase[do]
  PROVE  Past(before, what)
<1>1. Current(Task(do, of))
  BY DoingCurrent
<1>2. Phase[Task(before, what).do] < Phase[Task(do, of).do]
  BY DEF Task
<1>3. Task(before, what) \notin todo
  BY <1>1, <1>2, CurrentOrder
<1> QED
  BY <1>3 DEF Past

\* A task is behind ModUninit once it has been done.
LEMMA PastNext ==
  ASSUME Ordered, [Next]_vars, NEW do, NEW of, Task(do, of) \in Uninit, Past(do, of)', ~Past(do, of)
  PROVE  module = "unloading" /\ Doing(do, of) /\ Done(do, of)
<1> DEFINE k == Task(do, of)
<1>1. k \notin todo' /\ module' \in {"unloading", "unloaded"}
  BY DEF Past
<1> HIDE DEF k
<1>2. CASE UNCHANGED <<module, todo>>
  BY <1>1, <1>2 DEF Past, k
<1>3. CASE ModInit \/ ModSettingsChanged \/ ModUninit \/ ApplyHooks
  BY <1>1, <1>3 DEF ModInit, ModSettingsChanged, ModUninit, ApplyHooks, k
<1>4. ASSUME NEW j \in todo, Current(j), todo' = todo \ {j}, module = "unloading"
      PROVE  module = "unloading" /\ Doing(do, of) /\ Done(do, of)
  <2>1. k \in todo
    BY <1>4 DEF Past, k
  <2>2. k = j
    BY <1>1, <1>4, <2>1
  <2> QED
    BY <1>4, <2>2, DoingCurrent DEF Done, k
<1>5. CASE Release
  <2>1. Task("release", "all") \in todo /\ Task("release", "all").do = "release"
        /\ Current(Task("release", "all")) /\ todo' = todo \ {Task("release", "all")}
    BY <1>5, DoingCurrent DEF Release, Doing, Done, Task
  <2>2. module = "unloading"
    BY <2>1 DEF Ordered
  <2> QED
    BY <1>4, <2>1, <2>2
<1>6. CASE module' = module /\ \E j \in todo : Current(j) /\ todo' = todo \ {j}
  <2>1. PICK j \in todo : Current(j) /\ todo' = todo \ {j}
    BY <1>6
  <2>2. module = "unloading"
    BY <1>1, <1>6, <2>1 DEF Ordered
  <2> QED
    BY <1>4, <2>1, <2>2
<1> QED
  BY <1>2, <1>3, <1>5, <1>6, TaskSteps

\* Only the action of a task takes it from what is left to do.
LEMMA TaskAction ==
  ASSUME [Next]_vars, module = "unloading", NEW do, NEW of, Doing(do, of), Done(do, of)
  PROVE  /\ do = "flag" => RaiseFlag
         /\ do = "awaitBusy" => AwaitBusy
         /\ do = "look" => Look
         /\ do = "restore" => Restore(of)
         /\ do = "drain" => Drain
         /\ do \in Calls => Send(do, of) \/ Answered \/ TimesOut
<1> DEFINE Goal == /\ do = "flag" => RaiseFlag
                   /\ do = "awaitBusy" => AwaitBusy
                   /\ do = "look" => Look
                   /\ do = "restore" => Restore(of)
                   /\ do = "drain" => Drain
                   /\ do \in Calls => Send(do, of) \/ Answered \/ TimesOut
<1>1. Task(do, of) \in todo /\ Task(do, of) \notin todo'
  BY DEF Doing, Done
<1>2. ASSUME NEW other, NEW what, Done(other, what) PROVE other = do /\ what = of
  BY <1>1, <1>2 DEF Done, Task
<1>3. ASSUME UNCHANGED todo PROVE FALSE
  BY <1>1, <1>3
<1>4. ASSUME NEW t \in Workers, StartThread(t) \/ PostQuit(t) \/ JoinThread(t) PROVE Goal
  BY <1>2, <1>4 DEF StartThread, PostQuit, JoinThread, Calls
<1>5. ASSUME ApplyHooks \/ Release PROVE Goal
  BY <1>2, <1>5 DEF ApplyHooks, Release, Calls
<1>6. ASSUME RaiseFlag PROVE Goal
  <2>1. do = "flag"
    BY <1>2, <1>6 DEF RaiseFlag
  <2> QED
    BY <1>6, <2>1 DEF Calls
<1>7. ASSUME AwaitBusy PROVE Goal
  <2>1. do = "awaitBusy"
    BY <1>2, <1>7 DEF AwaitBusy
  <2> QED
    BY <1>7, <2>1 DEF Calls
<1>8. ASSUME Look PROVE Goal
  <2>1. do = "look"
    BY <1>2, <1>8 DEF Look
  <2> QED
    BY <1>8, <2>1 DEF Calls
<1>9. ASSUME Drain PROVE Goal
  <2>1. do = "drain"
    BY <1>2, <1>9 DEF Drain
  <2> QED
    BY <1>9, <2>1 DEF Calls
<1>10. ASSUME NEW v \in Window, Restore(v) PROVE Goal
  <2>1. do = "restore" /\ of = v
    BY <1>2, <1>10 DEF Restore
  <2> QED
    BY <1>10, <2>1 DEF Calls
<1>11. ASSUME NEW call \in Calls, NEW v, Send(call, v) PROVE Goal
  <2>1. do = call /\ of = v
    BY <1>2, <1>3, <1>11 DEF Send
  <2> QED
    BY <1>11, <2>1 DEF Calls
<1>12. ASSUME Answered \/ TimesOut PROVE Goal
  <2>1. PICK call \in Calls, v \in Window : Done(call, v)
    BY <1>12 DEF Answered, TimesOut, Returned, Calls
  <2>2. do \in Calls
    BY <1>2, <2>1
  <2> QED
    BY <1>12, <2>2 DEF Calls
<1>13. ASSUME ModInit \/ ModSettingsChanged \/ ModUninit PROVE Goal
  BY <1>13 DEF ModInit, ModSettingsChanged, ModUninit
<1>14. ASSUME ShowFails \/ AnswerStep \/ UNCHANGED vars PROVE Goal
  BY <1>3, <1>14 DEF ShowFails, AnswerStep, EnterTeardown, AnswerSent, vars, modVars
<1>15. ASSUME Mstsc PROVE Goal
  BY <1>3, <1>15 DEF Mstsc, CreateControl, CreateWindow, DestroyOwn, Dispatch, modVars
<1>16. ASSUME UiStep PROVE UNCHANGED todo
  BY <1>16, Zenon
     DEF UiStep, Attach, Latch, CountCall, UnadviseOnDestroy, ForgetWindow, ReturnCall,
         CheckStopping, TakeBusy, CheckAgain, Advise, StoreSink, ResetBusy, AnswerTeardown,
         modVars
<1>17. ASSUME NEW t \in Workers, ShowFrame(t) \/ WorkerStep(t) PROVE Goal
  BY <1>3, <1>17 DEF ShowFrame, WorkerStep, CreateQueue, SignalReady, FrameShown, GetQuit
<1>18. "teardown" \in Calls /\ "show" \in Calls /\ "fence" \in Calls
  BY DEF Calls
<1> HIDE DEF Goal
<1>19. ASSUME Caller PROVE Goal
  BY <1>4, <1>5, <1>6, <1>7, <1>8, <1>9, <1>10, <1>11, <1>12, <1>14, <1>18, <1>19 DEF Caller
<1>20. Goal
  BY <1>3, <1>13, <1>14, <1>15, <1>16, <1>17, <1>19 DEF Next
<1> QED
  BY <1>20 DEF Goal

\* What the UI thread may come to, and from where.
LEMMA UiGoes ==
  ASSUME UiTyped, [Next]_vars
  PROVE  /\ ui'.at = "create" => ui.at = "create" \/ Hooked
         /\ ui'.at = "latch" => ui.at \in {"create", "latch"}
         /\ ui'.at \in {"advise", "advised"} => ui.at \in {"advise", "advised"} \/ ~stopping
         /\ ui'.at = "message" => ui' = ui \/ \E v \in Window : Dispatch(v) /\ ui'.of = v
         /\ ui'.at \in InSubclass =>
              ui.at \in InSubclass \/ EnterTeardown \/ \E v \in Window : Dispatch(v)
<1> DEFINE Goal == /\ ui'.at = "create" => ui.at = "create" \/ Hooked
                   /\ ui'.at = "latch" => ui.at \in {"create", "latch"}
                   /\ ui'.at \in {"advise", "advised"} =>
                        ui.at \in {"advise", "advised"} \/ ~stopping
                   /\ ui'.at = "message" => ui' = ui \/ \E v \in Window : Dispatch(v) /\ ui'.of = v
                   /\ ui'.at \in InSubclass =>
                        ui.at \in InSubclass \/ EnterTeardown \/ \E v \in Window : Dispatch(v)
<1> USE DEF InUi, Enter, Leave, InSubclass
<1>1. ASSUME ui' = ui PROVE Goal
  BY <1>1
<1>2. ASSUME NEW v \in Window, CreateWindow(v) PROVE Goal
  BY <1>1, <1>2 DEF CreateWindow
<1>3. ASSUME NEW v \in Window, DestroyOwn(v) PROVE Goal
  BY <1>1, <1>3 DEF DestroyOwn
<1>4. ASSUME NEW v \in Window, Dispatch(v) PROVE Goal
  <2>1. ui'.at = "message" /\ ui'.of = v
    BY <1>4 DEF Dispatch
  <2> HIDE DEF InUi, Enter, Leave, InSubclass
  <2> QED
    BY <1>4, <2>1
<1>5. ASSUME CreateControl PROVE Goal
  BY <1>5 DEF CreateControl
<1>6. ASSUME NEW v \in Window, Attach(v) \/ Latch(v) PROVE Goal
  <2>1. ui.at \in {"create", "latch"} /\ (ui'.at = "mstsc" \/ (ui'.at = "latch"))
    <3>1. /\ ui = [at |-> "create", of |-> v] \/ ui = [at |-> "latch", of |-> v]
          /\ ui' = [at |-> "latch", of |-> v] \/ ui' = [at |-> "mstsc", of |-> "none"]
      BY <1>6, Zenon DEF Attach, Latch
    <3> QED
      BY <3>1
  <2> QED
    BY <2>1
<1>7. ASSUME NEW v \in Window, CountCall(v) \/ UnadviseOnDestroy(v) \/ ForgetWindow(v) PROVE Goal
  BY <1>7 DEF CountCall, UnadviseOnDestroy, ForgetWindow
<1>8. ASSUME NEW v \in Window, ReturnCall(v) PROVE Goal
  BY <1>8 DEF ReturnCall
<1>9. ASSUME CheckStopping \/ TakeBusy PROVE Goal
  BY <1>9 DEF CheckStopping, TakeBusy
<1>10. ASSUME CheckAgain \/ Advise \/ StoreSink \/ ResetBusy PROVE Goal
  BY <1>10 DEF CheckAgain, Advise, StoreSink, ResetBusy
<1>11. ASSUME AnswerTeardown PROVE Goal
  BY <1>11 DEF AnswerTeardown
<1>12. ASSUME EnterTeardown PROVE Goal
  <2>1. ui'.at = "teardown"
    BY <1>12 DEF EnterTeardown
  <2> QED
    BY <1>12, <2>1
<1>13. ASSUME NEW v \in Window, Restore(v) PROVE Goal
  BY <1>1, <1>13, Zenon DEF Restore
<1>14. ASSUME UNCHANGED uiVars PROVE Goal
  BY <1>1, <1>14 DEF uiVars
<1> HIDE DEF Goal
<1>15. Goal
  BY <1>2, <1>3, <1>4, <1>5, <1>6, <1>7, <1>8, <1>9, <1>10, <1>11, <1>12, <1>13, <1>14, UiStands
     DEF Mstsc, UiStep
<1> QED
  BY <1>15 DEF Goal

\* Without its hook the mod subclasses no window, and only ModUninit restores
\* one behind the back of a message.
LEMMA ProcGoes ==
  ASSUME UiTyped, [Next]_vars
  PROVE  /\ ui.at # "create" =>
              \A v \in Window : window'[v] = "shown" /\ proc'[v] = "mod"
                                  => window[v] = "shown" /\ proc[v] = "mod"
         /\ ui.at = "message" /\ ui' = ui => UNCHANGED proc \/ \E v \in Window : Restore(v)
<1> DEFINE Goal == /\ ui.at # "create" =>
                        \A v \in Window : window'[v] = "shown" /\ proc'[v] = "mod"
                                            => window[v] = "shown" /\ proc[v] = "mod"
                   /\ ui.at = "message" /\ ui' = ui
                        => UNCHANGED proc \/ \E v \in Window : Restore(v)
<1> USE DEF InUi, Enter, Leave
<1>1. ASSUME UNCHANGED <<window, proc>> PROVE Goal
  BY <1>1
<1>2. ASSUME NEW v \in Window, CreateWindow(v) PROVE Goal
  BY <1>2 DEF CreateWindow, UiTyped
<1>3. ASSUME NEW v \in Window, DestroyOwn(v) PROVE Goal
  BY <1>3 DEF DestroyOwn, UiTyped
<1>4. ASSUME NEW v \in Window, Attach(v) PROVE Goal
  BY <1>4 DEF Attach
<1>5. ASSUME NEW v \in Window, ForgetWindow(v) PROVE Goal
  BY <1>5 DEF ForgetWindow, UiTyped
<1>6. ASSUME NEW v \in Window, ReturnCall(v) PROVE Goal
  BY <1>6 DEF ReturnCall, UiTyped
<1>7. ASSUME NEW v \in Window, Restore(v) PROVE Goal
  <2>1. \A u \in Window : proc'[u] = proc[u] \/ proc'[u] = "own"
    BY <1>7 DEF Restore, UiTyped
  <2>2. UNCHANGED window
    BY <1>7, Zenon DEF Restore
  <2> QED
    BY <1>7, <2>1, <2>2
<1>8. ASSUME NEW v \in Window, Dispatch(v) \/ Latch(v) \/ CountCall(v) \/ UnadviseOnDestroy(v)
      PROVE  Goal
  BY <1>1, <1>8 DEF Dispatch, Latch, CountCall, UnadviseOnDestroy
<1>9. ASSUME \/ CreateControl \/ CheckStopping \/ TakeBusy \/ CheckAgain \/ Advise \/ StoreSink
             \/ ResetBusy \/ EnterTeardown \/ AnswerTeardown
      PROVE  UNCHANGED <<window, proc>>
  BY <1>9, Zenon
     DEF CreateControl, CheckStopping, TakeBusy, CheckAgain, Advise, StoreSink, ResetBusy,
         EnterTeardown, AnswerTeardown
<1>10. ASSUME UNCHANGED uiVars PROVE Goal
  BY <1>1, <1>10 DEF uiVars
<1> HIDE DEF Goal
<1>11. Goal
  BY <1>1, <1>2, <1>3, <1>4, <1>5, <1>6, <1>7, <1>8, <1>9, <1>10, UiStands DEF Mstsc, UiStep
<1> QED
  BY <1>11 DEF Goal

LEMMA SinkGoes ==
  ASSUME UiTyped, [Next]_vars
  PROVE  advised' => advised \/ ui.at = "advised"
<1> DEFINE Goal == advised' => advised \/ ui.at = "advised"
<1>1. ASSUME UNCHANGED advised PROVE Goal
  BY <1>1
<1>2. ASSUME NEW v \in Window, UnadviseOnDestroy(v) PROVE Goal
  BY <1>2 DEF UnadviseOnDestroy, Unadvise, sinkVars
<1>3. ASSUME AnswerTeardown PROVE Goal
  BY <1>3 DEF AnswerTeardown, Unadvise, sinkVars
<1>4. ASSUME StoreSink PROVE Goal
  BY <1>4 DEF StoreSink, InUi
<1>5. ASSUME NEW v \in Window, \/ Attach(v) \/ Latch(v) \/ CountCall(v) \/ ForgetWindow(v)
                               \/ ReturnCall(v) \/ Restore(v)
      PROVE  UNCHANGED advised
  BY <1>5, Zenon DEF Attach, Latch, CountCall, ForgetWindow, ReturnCall, Restore, sinkVars
<1>6. ASSUME \/ CheckStopping \/ TakeBusy \/ CheckAgain \/ Advise \/ ResetBusy \/ EnterTeardown
      PROVE  UNCHANGED advised
  BY <1>6, Zenon
     DEF CheckStopping, TakeBusy, CheckAgain, Advise, ResetBusy, EnterTeardown, sinkVars
<1>7. ASSUME Mstsc PROVE Goal
  BY <1>1, <1>7 DEF Mstsc, CreateControl, CreateWindow, DestroyOwn, Dispatch, sinkVars
<1>8. ASSUME UNCHANGED sinkVars PROVE Goal
  BY <1>1, <1>8 DEF sinkVars
<1> HIDE DEF Goal
<1>9. Goal
  BY <1>1, <1>2, <1>3, <1>4, <1>5, <1>6, <1>7, <1>8, UiStands DEF UiStep
<1> QED
  BY <1>9 DEF Goal

LEMMA FlagGoes ==
  ASSUME [Next]_vars, stopping
  PROVE  stopping'
<1>1. ASSUME UNCHANGED stopping PROVE stopping'
  BY <1>1
<1>2. ASSUME RaiseFlag PROVE stopping'
  BY <1>2 DEF RaiseFlag
<1>3. ASSUME ModInit \/ ModSettingsChanged \/ ModUninit PROVE UNCHANGED stopping
  BY <1>3, Zenon DEF ModInit, ModSettingsChanged, ModUninit
<1>4. ASSUME NEW t \in Workers, \/ StartThread(t) \/ PostQuit(t) \/ JoinThread(t) \/ ShowFrame(t)
                                \/ WorkerStep(t)
      PROVE  UNCHANGED stopping
  BY <1>4, Zenon
     DEF StartThread, PostQuit, JoinThread, ShowFrame, WorkerStep, CreateQueue, SignalReady,
         FrameShown, GetQuit
<1>5. ASSUME \/ ApplyHooks \/ AwaitBusy \/ Look \/ Answered \/ TimesOut \/ ShowFails
             \/ Drain \/ Release \/ AnswerStep
      PROVE  UNCHANGED stopping
  BY <1>5, Zenon
     DEF ApplyHooks, AwaitBusy, Look, Answered, TimesOut, ShowFails, Drain, Release, AnswerStep,
         EnterTeardown, AnswerSent, modVars
<1>6. ASSUME NEW do, NEW v, Send(do, v) \/ Restore(v) PROVE UNCHANGED stopping
  BY <1>6, Zenon DEF Send, Restore
<1>7. ASSUME Mstsc \/ UiStep PROVE UNCHANGED stopping
  BY <1>7, Zenon
     DEF Mstsc, CreateControl, CreateWindow, DestroyOwn, Dispatch, UiStep, Attach, Latch,
         CountCall, UnadviseOnDestroy, ForgetWindow, ReturnCall, CheckStopping, TakeBusy,
         CheckAgain, Advise, StoreSink, ResetBusy, AnswerTeardown, modVars
<1>8. ASSUME UNCHANGED vars PROVE UNCHANGED stopping
  BY <1>8 DEF vars, modVars
<1> QED
  BY <1>1, <1>2, <1>3, <1>4, <1>5, <1>6, <1>7, <1>8, Zenon DEF Next, Caller

LEMMA SentGoes ==
  ASSUME [Next]_vars, sent' = "answered", sent # "answered"
  PROVE  /\ UNCHANGED <<module, todo>>
         /\ sent \in {"teardown", "show"} \/ (sent = "fence" /\ ui' = ui /\ Pumping)
<1> DEFINE Goal == /\ UNCHANGED <<module, todo>>
                   /\ sent \in {"teardown", "show"} \/ (sent = "fence" /\ ui' = ui /\ Pumping)
<1>1. ASSUME UNCHANGED sent PROVE FALSE
  BY <1>1
<1>2. ASSUME AnswerTeardown PROVE Goal
  BY <1>1, <1>2 DEF AnswerTeardown, modVars
<1>3. ASSUME AnswerSent PROVE Goal
  BY <1>3 DEF AnswerSent, modVars, uiVars
<1>4. ASSUME ShowFails PROVE Goal
  BY <1>4 DEF ShowFails, modVars
<1>5. ASSUME Answered \/ TimesOut PROVE FALSE
  BY <1>5 DEF Answered, TimesOut
<1>6. ASSUME NEW do \in Calls, NEW v, Send(do, v) PROVE FALSE
  BY <1>1, <1>6 DEF Send, Calls
<1>7. ASSUME ModInit \/ ModSettingsChanged \/ ModUninit PROVE FALSE
  BY <1>1, <1>7 DEF ModInit, ModSettingsChanged, ModUninit, uninitVars
<1>8. ASSUME NEW t \in Workers, \/ StartThread(t) \/ PostQuit(t) \/ JoinThread(t) \/ ShowFrame(t)
                                \/ WorkerStep(t)
      PROVE  UNCHANGED sent
  BY <1>8, Zenon
     DEF StartThread, PostQuit, JoinThread, ShowFrame, WorkerStep, CreateQueue, SignalReady,
         FrameShown, GetQuit, uninitVars
<1>9. ASSUME \/ ApplyHooks \/ RaiseFlag \/ AwaitBusy \/ Look \/ Drain \/ Release \/ EnterTeardown
             \/ \E v \in Window : Restore(v)
      PROVE  UNCHANGED sent
  BY <1>9, Zenon
     DEF ApplyHooks, RaiseFlag, AwaitBusy, Look, Drain, Release, EnterTeardown, Restore, uninitVars
<1>10. ASSUME Mstsc PROVE UNCHANGED sent
  BY <1>10, Zenon DEF Mstsc, CreateControl, CreateWindow, DestroyOwn, Dispatch, uninitVars
<1>11. ASSUME UiStep, ~AnswerTeardown PROVE UNCHANGED sent
  BY <1>11, Zenon
     DEF UiStep, Attach, Latch, CountCall, UnadviseOnDestroy, ForgetWindow, ReturnCall,
         CheckStopping, TakeBusy, CheckAgain, Advise, StoreSink, ResetBusy, uninitVars
<1>12. ASSUME UNCHANGED vars PROVE FALSE
  BY <1>1, <1>12 DEF vars, uninitVars
<1>13. "teardown" \in Calls /\ "show" \in Calls /\ "fence" \in Calls
  BY DEF Calls
<1> HIDE DEF Goal
<1>14. Goal
  BY <1>1, <1>2, <1>3, <1>4, <1>5, <1>6, <1>7, <1>8, <1>9, <1>10, <1>11, <1>12, <1>13
     DEF Next, Caller, AnswerStep
<1> QED
  BY <1>14 DEF Goal

LEMMA InUninit ==
  /\ Task("flag", "all") \in Uninit /\ Task("awaitBusy", "all") \in Uninit
  /\ Task("look", "all") \in Uninit /\ Task("drain", "all") \in Uninit
  /\ Task("show", "bar") \in Uninit /\ Task("release", "all") \in Uninit
  /\ \A v \in Window : Task("restore", v) \in Uninit /\ Task("fence", v) \in Uninit
BY DEF Uninit, Window

\* A task that is current is not behind ModUninit.
LEMMA NotPast ==
  ASSUME NEW do, NEW of, Doing(do, of)
  PROVE  ~Past(do, of)
BY DEF Doing, Past

\* Once the tasks it stands on are done, ModUninit does not go back on them.
LEMMA KeptNext ==
  ASSUME Ordered, [Next]_vars, Past("look", "all"), ~Kept'
  PROVE  ~Kept /\ ~keepMapped /\ ~overlooked /\ UNCHANGED found
<1>1. Past("awaitBusy", "all")
  BY PastOrder, InUninit, Phases
<1>2. ~AwaitBusy /\ ~Look
  BY <1>1, NotPast DEF AwaitBusy, Look
<1> QED
  BY <1>2, Locals DEF Kept

LEMMA ReleaseLast ==
  ASSUME Ordered, Release
  PROVE  module = "unloading" /\ \A k \in Uninit : k.do # "release" => k \notin todo
<1>1. Current(Task("release", "all")) /\ Task("release", "all") \in todo
  BY DoingCurrent DEF Release, Doing
<1>2. module = "unloading"
  BY <1>1 DEF Ordered, Task
<1>3. ASSUME NEW k \in Uninit, k.do # "release" PROVE k \notin todo
  <2>1. Phase[k.do] < Phase[Task("release", "all").do]
    BY <1>3, UninitTasks, Phases DEF Task
  <2> QED
    BY <1>1, <1>2, <2>1, CurrentOrder
<1> QED
  BY <1>2, <1>3

LEMMA StoppedNext == UiTyped /\ Ordered /\ Advising /\ Stopped /\ [Next]_vars => Stopped'
<1> SUFFICES ASSUME UiTyped, Ordered, Advising, Stopped, [Next]_vars PROVE Stopped'
  OBVIOUS
<1>1. ASSUME Past("flag", "all")' PROVE stopping'
  <2>1. CASE Past("flag", "all")
    BY <2>1, FlagGoes DEF Stopped
  <2>2. CASE ~Past("flag", "all")
    <3>1. RaiseFlag
      BY <1>1, <2>2, PastNext, TaskAction, InUninit
    <3> QED
      BY <3>1 DEF RaiseFlag
  <2> QED
    BY <2>1, <2>2
<1>2. ASSUME Past("awaitBusy", "all")', ~keepMapped' PROVE ui'.at \notin {"advise", "advised"}
  <2>1. CASE Past("awaitBusy", "all")
    <3>1. Past("flag", "all")
      BY <2>1, PastOrder, InUninit, Phases
    <3>2. ~AwaitBusy
      BY <2>1, NotPast DEF AwaitBusy
    <3>3. ~keepMapped /\ stopping
      BY <1>2, <3>1, <3>2, Locals DEF Stopped
    <3> QED
      BY <2>1, <3>3, UiGoes DEF Stopped
  <2>2. CASE ~Past("awaitBusy", "all")
    <3>1. AwaitBusy
      BY <1>2, <2>2, PastNext, TaskAction, InUninit
    <3>2. ~busy /\ ui' = ui
      BY <1>2, <3>1 DEF AwaitBusy, uiVars
    <3> QED
      BY <3>2 DEF Advising
  <2> QED
    BY <2>1, <2>2
<1>3. ASSUME module' = "unloaded" PROVE ~keepMapped' /\ ~advised'
  <2>1. CASE module = "unloaded"
    <3>1. todo = {} /\ ~keepMapped /\ ~advised
      BY <2>1 DEF Ordered, Stopped
    <3>2. ui.at \notin {"advise", "advised"}
      BY <2>1, <3>1 DEF Stopped, Past
    <3>3. UNCHANGED keepMapped
      BY <3>1, Locals
    <3> QED
      BY <3>1, <3>2, <3>3, SinkGoes
  <2>2. CASE module # "unloaded"
    <3>1. Release
      BY <1>3, <2>2, TaskSteps DEF ModInit, ModSettingsChanged, ModUninit, ApplyHooks
    <3>2. ~keepMapped /\ ~advised
      BY <1>3, <3>1 DEF Release
    <3> QED
      BY <3>1, <3>2 DEF Release, sinkVars, uninitVars
  <2> QED
    BY <2>1, <2>2
<1> QED
  BY <1>1, <1>2, <1>3 DEF Stopped

LEMMA RunningNext == UiTyped /\ Ordered /\ Running /\ [Next]_vars => Running'
<1> DEFINE Reading(m, t) ==
             m \notin {"unloading", "unloaded", "retained"} \/ Task("look", "all") \in t
<1> SUFFICES ASSUME UiTyped, Ordered, Running, [Next]_vars, Reading(module', todo'),
                    ui'.at = "message"
             PROVE  proc'[ui'.of] = "mod"
  BY DEF Running
<1>1. Reading(module, todo)
  <2>1. CASE UNCHANGED <<module, todo>>
    BY <2>1
  <2>2. CASE ModInit \/ ModSettingsChanged \/ ModUninit
    BY <2>2 DEF ModInit, ModSettingsChanged, ModUninit
  <2>3. CASE ApplyHooks
    <3>1. Task("hook", "all") \in todo /\ Task("hook", "all").do = "hook"
      BY <2>3 DEF ApplyHooks, Doing, Task
    <3> QED
      BY <3>1, UninitTasks DEF Ordered
  <2>4. CASE Release
    <3>1. todo' \subseteq todo /\ module' \in {"unloaded", "retained"}
      BY <2>4 DEF Release, Done
    <3> QED
      BY <3>1
  <2>5. CASE module' = module /\ \E k \in todo : Current(k) /\ todo' = todo \ {k}
    BY <2>5
  <2> QED
    BY <2>1, <2>2, <2>3, <2>4, <2>5, TaskSteps
<1>2. CASE ui' = ui
  <2>1. proc[ui.of] = "mod"
    BY <1>1, <1>2 DEF Running
  <2>2. ASSUME NEW v \in Window, Restore(v) PROVE FALSE
    <3>1. Current(Task("restore", v)) /\ Task("restore", v) \in todo /\ Task("restore", v).do = "restore"
      BY <2>2, DoingCurrent DEF Restore, Doing, Task
    <3>2. module = "unloading"
      BY <3>1 DEF Ordered
    <3>3. Phase[Task("look", "all").do] < Phase[Task("restore", v).do]
      BY Phases DEF Task
    <3>4. Task("look", "all") \notin todo
      BY <3>1, <3>2, <3>3, CurrentOrder, InUninit
    <3> QED
      BY <1>1, <3>2, <3>4
  <2>3. UNCHANGED proc
    BY <1>2, <2>2, ProcGoes
  <2> QED
    BY <1>2, <2>1, <2>3
<1>3. ASSUME NEW v \in Window, Dispatch(v), ui'.of = v PROVE proc'[ui'.of] = "mod"
  BY <1>3 DEF Dispatch
<1> QED
  BY <1>2, <1>3, UiGoes

LEMMA LookedNext ==
  UiTyped /\ Ordered /\ Placed /\ SubclassedIsTracked /\ Running /\ Looked /\ [Next]_vars
    => Looked'
<1> SUFFICES ASSUME UiTyped, Ordered, Placed, SubclassedIsTracked, Running, Looked, [Next]_vars,
                    Past("look", "all")', ~overlooked'
             PROVE  /\ ui'.at \notin {"create", "latch"}
                    /\ \A v \in Window :
                         window'[v] = "shown" /\ proc'[v] = "mod" => found'[v] = "subclassed"
                    /\ ui'.at = "message" => found'[ui'.of] = "subclassed"
  BY DEF Looked
<1>1. CASE ~Past("look", "all")
  <2>1. Look /\ Task("look", "all") \in todo
    BY <1>1, PastNext, TaskAction, InUninit DEF Doing
  <2>2. UNCHANGED <<ui, window, proc>> /\ ui.at \notin {"create", "latch"}
    BY <2>1 DEF Look, uiVars
  <2>3. \A v \in Window : latched[v] /\ original[v] => found'[v] = "subclassed"
    BY <2>1 DEF Look
  <2>4. \A v \in Window : window[v] = "shown" /\ proc[v] = "mod" => latched[v] /\ original[v]
    BY <2>2 DEF SubclassedIsTracked, InUi
  <2>5. ui.at = "message" => ui.of \in Window /\ window[ui.of] = "shown" /\ proc[ui.of] = "mod"
    BY <2>1 DEF Placed, Running, InWindow
  <2> QED
    BY <2>2, <2>3, <2>4, <2>5
<1>2. CASE Past("look", "all")
  <2>1. ~Look
    BY <1>2, NotPast DEF Look
  <2>2. UNCHANGED <<found, overlooked>> /\ ~overlooked
    BY <2>1, Locals
  <2>3. /\ ui.at \notin {"create", "latch"}
        /\ \A v \in Window : window[v] = "shown" /\ proc[v] = "mod" => found[v] = "subclassed"
        /\ ui.at = "message" => found[ui.of] = "subclassed"
    BY <1>2, <2>2 DEF Looked
  <2>4. ~Hooked
    BY <1>2 DEF Past, Hooked
  <2>5. ASSUME NEW v \in Window, Dispatch(v) PROVE found[v] = "subclassed"
    BY <2>3, <2>5 DEF Dispatch
  <2> QED
    BY <2>2, <2>3, <2>4, <2>5, UiGoes, ProcGoes
<1> QED
  BY <1>1, <1>2

LEMMA RestoredNext ==
  UiTyped /\ Ordered /\ Placed /\ Looked /\ Restored /\ [Next]_vars => Restored'
<1> SUFFICES ASSUME UiTyped, Ordered, Placed, Looked, Restored, [Next]_vars,
                    NEW v \in Window, Past("restore", v)', ~Kept', window'[v] = "shown",
                    proc'[v] # "own"
             PROVE  FALSE
  BY DEF Restored
<1>1. proc'[v] = "mod"
  BY UiTypedNext DEF UiTyped
<1>2. Past("look", "all")
  <2>1. CASE Past("restore", v)
    BY <2>1, PastOrder, InUninit, Phases
  <2>2. CASE ~Past("restore", v)
    BY <2>2, PastNext, DoingOrder, InUninit, Phases
  <2> QED
    BY <2>1, <2>2
<1>3. ~Kept /\ ~keepMapped /\ ~overlooked
  BY <1>2, KeptNext
<1>4. window[v] = "shown" /\ proc[v] = "mod" /\ found[v] = "subclassed"
  BY <1>1, <1>2, <1>3, ProcGoes DEF Looked
<1>5. CASE Past("restore", v)
  BY <1>3, <1>4, <1>5 DEF Restored
<1>6. CASE ~Past("restore", v)
  <2>1. Restore(v)
    BY <1>6, PastNext, TaskAction, InUninit
  <2>2. proc' = [proc EXCEPT ![v] = "own"] \/ keepMapped' = TRUE
    BY <1>4, <2>1, Zenon DEF Restore
  <2> QED
    BY <1>1, <2>2 DEF Kept, UiTyped
<1> QED
  BY <1>5, <1>6

\* Nothing enters a procedure of the mod once both windows are restored.
LEMMA NoDispatch ==
  ASSUME Ordered, Restored, ~Kept, NEW do, NEW of, Past(do, of), Task(do, of) \in Uninit,
         Phase[do] > 8, NEW v \in Window
  PROVE  ~Dispatch(v)
<1>1. Past("restore", v)
  BY PastOrder, InUninit, Phases
<1> QED
  BY <1>1 DEF Restored, Dispatch

LEMMA FencedNext ==
  UiTyped /\ Ordered /\ Waiting /\ Placed /\ Looked /\ Restored /\ Fenced /\ [Next]_vars => Fenced'
<1> SUFFICES ASSUME UiTyped, Ordered, Waiting, Placed, Looked, Restored, Fenced, [Next]_vars,
                    ~Kept'
             PROVE  /\ \A v \in Window : Past("fence", v)' => ~InUi("message", v)'
                    /\ Past("show", "bar")' /\ sent' = "answered" => ui'.at # "message"
  BY DEF Fenced
<1>1. ASSUME NEW v \in Window, Past("fence", v)', InUi("message", v)' PROVE FALSE
  <2>1. ui'.at = "message" /\ ui'.of = v
    BY <1>1 DEF InUi
  <2>2. CASE Past("fence", v)
    <3>1. Past("look", "all")
      BY <2>2, PastOrder, InUninit, Phases
    <3>2. ~Kept
      BY <3>1, KeptNext
    <3>3. ui' # ui
      BY <1>1, <2>2, <3>2 DEF Fenced, InUi
    <3> QED
      BY <2>1, <2>2, <3>2, <3>3, UiGoes, NoDispatch, InUninit, Phases
  <2>3. CASE ~Past("fence", v)
    <3>1. module = "unloading" /\ Doing("fence", v)
      BY <1>1, <2>3, PastNext, InUninit
    <3>2. Past("look", "all") /\ Past("show", "bar")
      BY <3>1, DoingOrder, InUninit, Phases
    <3>3. ~Kept /\ ~keepMapped /\ ~overlooked
      BY <3>2, KeptNext
    <3>4. Send("fence", v) \/ Answered \/ TimesOut
      BY <1>1, <2>3, PastNext, TaskAction, InUninit DEF Calls
    <3>5. ui' = ui
      BY <3>4 DEF Send, Answered, TimesOut, uiVars
    <3>6. window[v] = "shown" /\ found[v] = "subclassed"
      BY <2>1, <3>2, <3>3, <3>5 DEF Placed, Looked
    <3>7. ~Send("fence", v)
      <4>1. Needed("fence", v)
        BY <3>6 DEF Needed
      <4> QED
        BY <1>1, <2>3, <4>1 DEF Send, Past
    <3>8. ~Answered
      BY <2>1, <3>2, <3>3, <3>5 DEF Answered, Fenced
    <3>9. ~TimesOut
      BY DEF TimesOut, Kept
    <3> QED
      BY <3>4, <3>7, <3>8, <3>9
  <2> QED
    BY <2>2, <2>3
<1>2. ASSUME Past("show", "bar")', sent' = "answered", ui'.at = "message" PROVE FALSE
  <2>1. CASE ~Past("show", "bar")
    <3>1. Send("show", "bar") \/ Answered \/ TimesOut
      BY <1>2, <2>1, PastNext, TaskAction, InUninit DEF Calls
    <3> QED
      BY <1>2, <3>1 DEF Send, Answered, TimesOut
  <2>2. CASE Past("show", "bar")
    <3>1. Past("look", "all")
      BY <2>2, PastOrder, InUninit, Phases
    <3>2. ~Kept
      BY <3>1, KeptNext
    <3>3. ui' = ui
      BY <1>2, <2>2, <3>2, UiGoes, NoDispatch, InUninit, Phases
    <3>4. sent # "answered"
      BY <1>2, <2>2, <3>2, <3>3 DEF Fenced
    <3>5. CASE sent \in {"teardown", "show"}
      <4>1. PICK v \in Window : Doing(sent, v)
        BY <3>5 DEF Waiting, Calls
      <4>2. module = "unloading" /\ Task(sent, v) \in todo
        BY <3>5, <4>1 DEF Waiting, Doing
      <4>3. Task(sent, v) \in Uninit
        BY <4>2 DEF Ordered
      <4>4. sent = "show" => v = "bar"
        BY <4>3 DEF Uninit, Stop, Task
      <4>5. sent = "teardown" => Past(sent, v)
        BY <2>2, <4>3, PastOrder, InUninit, Phases
      <4> QED
        BY <2>2, <3>5, <4>2, <4>4, <4>5 DEF Past
    <3>6. CASE sent = "fence" /\ ui' = ui /\ Pumping
      BY <1>2, <3>6 DEF Pumping
    <3> QED
      BY <1>2, <3>4, <3>5, <3>6, SentGoes
  <2> QED
    BY <2>1, <2>2
<1> QED
  BY <1>1, <1>2

LEMMA DrainedNext ==
  /\ UiTyped /\ Ordered /\ Waiting /\ Counted /\ Placed /\ Looked /\ Restored /\ Fenced /\ Drained
  /\ [Next]_vars
  => Drained'
<1> SUFFICES ASSUME UiTyped, Ordered, Waiting, Counted, Placed, Looked, Restored, Fenced, Drained,
                    [Next]_vars, Past("drain", "all")', ~Kept', ui'.at \in InSubclass
             PROVE  FALSE
  BY DEF Drained
<1>1. CASE Past("drain", "all")
  <2>1. Past("look", "all")
    BY <1>1, PastOrder, InUninit, Phases
  <2>2. ~Kept
    BY <2>1, KeptNext
  <2>3. ui.at \notin InSubclass
    BY <1>1, <2>2 DEF Drained
  <2>4. EnterTeardown
    BY <1>1, <2>2, <2>3, UiGoes, NoDispatch, InUninit, Phases
  <2>5. PICK v \in Window : Doing("teardown", v)
    BY <2>4 DEF EnterTeardown, Waiting, Calls
  <2>6. module = "unloading" /\ Task("teardown", v) \in todo
    BY <2>4, <2>5 DEF EnterTeardown, Waiting, Doing
  <2>7. Past("teardown", v)
    BY <1>1, <2>6, PastOrder, InUninit, Phases DEF Ordered
  <2> QED
    BY <2>5, <2>7, NotPast
<1>2. CASE ~Past("drain", "all")
  <2>1. Drain /\ module = "unloading" /\ Doing("drain", "all")
    BY <1>2, PastNext, TaskAction, InUninit
  <2>2. Past("look", "all") /\ \A v \in Window : Past("fence", v)
    BY <2>1, DoingOrder, InUninit, Phases
  <2>3. ~Kept
    BY <2>2, KeptNext
  <2>4. ui' = ui
    BY <2>1 DEF Drain, uiVars
  <2>5. calls = 0
    BY <2>1 DEF Drain, Kept
  <2>6. ui.at = "message"
    BY <2>4, <2>5 DEF Counted, InSubclass
  <2>7. ui.of \in Window /\ ui = [at |-> "message", of |-> ui.of]
    BY <2>6 DEF Placed, InWindow, UiTyped
  <2> QED
    BY <2>2, <2>3, <2>7 DEF Fenced, InUi
<1> QED
  BY <1>1, <1>2

-----------------------------------------------------------------------------
(* The theorems                                                            *)

LEMMA InvInit == Init => Inv
<1> SUFFICES ASSUME Init PROVE Inv
  OBVIOUS
<1>1. Typed /\ UiTyped
  BY DEF Init, Typed, UiTyped, ThreadAt, Window
<1>2. Ordered /\ Waiting
  BY DEF Init, Ordered, Waiting, Calls
<1>3. Joined
  BY DEF Init, Joined
<1>4. Counted /\ Placed /\ Advising /\ SubclassedIsTracked
  BY DEF Init, Counted, Placed, Advising, SubclassedIsTracked, InWindow, Window
<1>5. Stopped /\ Running /\ Looked /\ Restored /\ Fenced /\ Drained
  BY DEF Init, Stopped, Running, Looked, Restored, Fenced, Drained, Past
<1> QED
  BY <1>1, <1>2, <1>3, <1>4, <1>5 DEF Inv

LEMMA InvNext == Inv /\ [Next]_vars => Inv'
BY TypedNext, UiTypedNext, OrderedNext, JoinedNext, WaitingNext, PlacedNext, AdvisingNext,
   TrackedNext, StoppedNext, RunningNext, LookedNext, RestoredNext, FencedNext, DrainedNext, Zenon
   DEF Inv

LEMMA Invariant == Spec => []Inv
BY InvInit, InvNext, PTL DEF Spec

\* Whatever its threads, the settings and mstsc do, what ModUninit lets go of is
\* free: no thread of the mod runs, the control has no reference to the sink and,
\* unless a hook was attaching when it looked, no window calls the mod.
THEOREM UnloadCorrect == Spec => []UnloadLeavesNothing
<1>1. Inv => UnloadLeavesNothing
  <2> SUFFICES ASSUME Inv, module = "unloaded" PROVE UnloadLeavesNothing
    BY DEF UnloadLeavesNothing
  <2>1. todo = {} /\ \A do, of : Past(do, of)
    BY DEF Inv, Ordered, Past
  <2>2. ~keepMapped /\ ~advised
    BY DEF Inv, Stopped
  <2>3. \A t \in Workers : thread[t].at = "exited"
    BY <2>1 DEF Inv, Joined
  <2>4. ~connected
    BY <2>1, <2>2 DEF Inv, Stopped, Advising
  <2>5. ~overlooked =>
           /\ ui.at \notin InSubclass
           /\ \A v \in Window : window[v] = "shown" => proc[v] = "own"
    BY <2>1, <2>2 DEF Inv, Drained, Restored, Kept
  <2> QED
    BY <2>3, <2>4, <2>5 DEF UnloadLeavesNothing
<1> QED
  BY <1>1, Invariant, PTL

\* A window that calls a procedure of the mod is known with the procedure to put
\* back, whatever becomes of the windows meanwhile.
THEOREM TrackedCorrect == Spec => []SubclassedIsTracked
<1>1. Inv => SubclassedIsTracked
  BY DEF Inv
<1> QED
  BY <1>1, Invariant, PTL
=============================================================================
