-------------------------- MODULE ModProcessProofs --------------------------
(***************************************************************************)
(* Proofs about the processes the mods are loaded in, for any set of       *)
(* processes, process ids and taskbars and any bounds.  Every part has an  *)
(* inductive invariant of its own; a behaviour of ProcessSpec is, in the   *)
(* variables of each part, a behaviour of that part.                       *)
(***************************************************************************)
EXTENDS ModProcess, Sequences, TLAPS

-----------------------------------------------------------------------------
(* The parts                                                               *)

LEMMA SecretPart == ProcessSpec => SecretSpec
<1>1. ProcessInit => SecretInit
  BY DEF ProcessInit
<1>2. [ProcessNext]_processVars => [SecretNext]_secretVars
  BY DEF ProcessNext, processVars, EnsureLocalWidgetSecret, Mstsc, Explore, Host
<1> QED
  BY <1>1, <1>2, PTL DEF ProcessSpec, SecretSpec

LEMMA WatchdogPart == ProcessSpec => Spec
<1>1. ProcessInit => Init
  BY DEF ProcessInit
<1>2. [ProcessNext]_processVars => [Next]_vars
  BY DEF ProcessNext, processVars, EnsureLocalWidgetSecret, Mstsc, Explore, Host
<1> QED
  BY <1>1, <1>2, PTL DEF ProcessSpec, Spec

LEMMA ExplorerPart == ProcessSpec => Explorer!Spec
<1>1. ProcessInit => Explorer!Init
  BY DEF ProcessInit
<1>2. [ProcessNext]_processVars => [Explorer!Next]_(Explorer!vars)
  BY DEF ProcessNext, processVars, EnsureLocalWidgetSecret, Mstsc, Explore, Host, explorerVars,
         Explorer!vars, Explorer!unloadVars, Explorer!loadVars, Explorer!xamlVars,
         Explorer!widgetVars
<1> QED
  BY <1>1, <1>2, PTL DEF ProcessSpec, Explorer!Spec

LEMMA ClipboardPart == ProcessSpec => Clipboard!Spec
<1>1. ProcessInit => Clipboard!Init
  BY DEF ProcessInit
<1>2. [ProcessNext]_processVars => [Clipboard!Next]_(Clipboard!vars)
  BY DEF ProcessNext, processVars, EnsureLocalWidgetSecret, Mstsc, Explore, Host, clipboardVars,
         Clipboard!vars, Clipboard!worldVars, Clipboard!restartVars, Clipboard!queryVars
<1> QED
  BY <1>1, <1>2, PTL DEF ProcessSpec, Clipboard!Spec

-----------------------------------------------------------------------------
(* Secret                                                                  *)

Places == {"new", "wait", "read", "generate", "release", "done", "killed"}

\* Behind the mutex a process that has found no secret is still right.
Exclusive ==
  ~late => /\ \A p \in Process : at[p] \in {"read", "generate", "release"} => owner = p
           /\ \A p \in Process : at[p] = "generate" => secret = "none"

SecretInv == at \in [Process -> Places] /\ Exclusive

LEMMA SecretInvInit == SecretInit => SecretInv
BY DEF SecretInit, SecretInv, Places, Exclusive

LEMMA SecretInvNext == SecretInv /\ [SecretNext]_secretVars => SecretInv'
<1> SUFFICES ASSUME SecretInv, [SecretNext]_secretVars PROVE SecretInv'
  OBVIOUS
<1> USE ProcessAssumption DEF SecretInv, Places, Exclusive, Step
<1>1. ASSUME NEW p \in Process, OpenMutex(p) PROVE SecretInv'
  BY <1>1 DEF OpenMutex
<1>2. ASSUME NEW p \in Process, Acquire(p) PROVE SecretInv'
  BY <1>2 DEF Acquire
<1>3. ASSUME NEW p \in Process, WaitTimesOut(p) PROVE SecretInv'
  BY <1>3 DEF WaitTimesOut
<1>4. ASSUME NEW p \in Process, ReadLocalWidgetSecret(p) PROVE SecretInv'
  BY <1>4 DEF ReadLocalWidgetSecret
<1>5. ASSUME NEW p \in Process, Generate(p) PROVE SecretInv'
  BY <1>5 DEF Generate
<1>6. ASSUME NEW p \in Process, Release(p) PROVE SecretInv'
  BY <1>6 DEF Release
<1>7. ASSUME NEW p \in Process, Kill(p) PROVE SecretInv'
  BY <1>7 DEF Kill
<1>8. CASE UNCHANGED secretVars
  BY <1>8 DEF secretVars
<1> QED
  BY <1>1, <1>2, <1>3, <1>4, <1>5, <1>6, <1>7, <1>8 DEF SecretNext

(* However many processes start at once, and wherever they are killed, the *)
(* secret one of them has drawn is not replaced by another one, unless a   *)
(* process went on without the mutex.                                      *)
THEOREM StableCorrect == ProcessSpec => SecretIsStable
<1>1. ASSUME SecretInv, [SecretNext]_secretVars
      PROVE  secret' # secret => secret = "none" \/ late
  <2>1. ASSUME NEW p \in Process, Generate(p) PROVE secret' # secret => secret = "none" \/ late
    BY <1>1, <2>1 DEF SecretInv, Exclusive, Generate, Step
  <2>2. CASE UNCHANGED secret
    BY <2>2
  <2> QED
    BY <1>1, <2>1, <2>2
       DEF SecretNext, secretVars, OpenMutex, Acquire, WaitTimesOut, ReadLocalWidgetSecret,
           Release, Kill
<1> QED
  BY <1>1, SecretInvInit, SecretInvNext, SecretPart, PTL DEF SecretSpec, SecretIsStable

-----------------------------------------------------------------------------
(* ClipboardRestart                                                        *)

\* The id of a process that is open is not used again: what has been verified
\* on the handle stays true until the process ends.
Opened == restart = "verify" => handle \in Pid
Verified == restart = "terminate" => handle \in Pid /\ kind[handle] \in {"helper", "none"}

RestartInv ==
  /\ kind \in [Pid -> Clipboard!Kind \cup {"none"}]
  /\ found \subseteq Pid
  /\ Opened /\ Verified

LEMMA RestartInvInit == Clipboard!Init => RestartInv
BY DEF Clipboard!Init, RestartInv, Opened, Verified

LEMMA RestartInvNext == RestartInv /\ [Clipboard!Next]_(Clipboard!vars) => RestartInv'
<1> SUFFICES ASSUME RestartInv, [Clipboard!Next]_(Clipboard!vars) PROVE RestartInv'
  OBVIOUS
<1> USE DEF RestartInv, Opened, Verified, Clipboard!Kind, Clipboard!Go, Clipboard!Fail,
            Clipboard!worldVars, Clipboard!restartVars, Clipboard!queryVars
<1>1. CASE Clipboard!SwitchProtocol
  BY <1>1 DEF Clipboard!SwitchProtocol
<1>2. ASSUME NEW p \in Pid, Clipboard!StartProcess(p) PROVE RestartInv'
  BY <1>2 DEF Clipboard!StartProcess
<1>3. ASSUME NEW p \in Pid, Clipboard!ExitProcess(p) PROVE RestartInv'
  BY <1>3 DEF Clipboard!ExitProcess
<1>4. CASE Clipboard!BeginRestart
  BY <1>4 DEF Clipboard!BeginRestart
<1>5. CASE Clipboard!Enumerate
  BY <1>5 DEF Clipboard!Enumerate, Clipboard!Enumerated
<1>6. CASE Clipboard!Resolve
  BY <1>6 DEF Clipboard!Resolve, Clipboard!Verified
<1>7. ASSUME NEW p \in Pid, Clipboard!OpenProcess(p) PROVE RestartInv'
  BY <1>7 DEF Clipboard!OpenProcess
<1>8. CASE Clipboard!Verify
  BY <1>8 DEF Clipboard!Verify
<1>9. CASE Clipboard!TerminateProcess
  BY <1>9 DEF Clipboard!TerminateProcess
<1>10. CASE Clipboard!EnumerateAgain
  BY <1>10 DEF Clipboard!EnumerateAgain, Clipboard!Enumerated
<1>11. CASE Clipboard!ResolveAgain
  BY <1>11 DEF Clipboard!ResolveAgain
<1>12. CASE Clipboard!Launch
  BY <1>12 DEF Clipboard!Launch
<1>13. CASE Clipboard!Notified \/ Clipboard!ApplyStateToWidget
  BY <1>13 DEF Clipboard!Notified, Clipboard!ApplyStateToWidget
<1>14. ASSUME NEW t \in Clipboard!Thread, Clipboard!QueryWtsState(t) PROVE RestartInv'
  BY <1>14 DEF Clipboard!QueryWtsState, Clipboard!QueryFacts, Clipboard!QueryClipboard,
               Clipboard!Store, Clipboard!RefreshWidgetUI
<1>15. CASE UNCHANGED Clipboard!vars
  BY <1>15 DEF Clipboard!vars
<1> HIDE DEF RestartInv
<1>16. CASE Clipboard!Restart
  BY <1>5, <1>6, <1>7, <1>8, <1>9, <1>10, <1>11, <1>12, <1>16 DEF Clipboard!Restart
<1> QED
  BY <1>1, <1>2, <1>3, <1>4, <1>13, <1>14, <1>15, <1>16 DEF Clipboard!Next

(* However many helpers the session has and however their ids are used     *)
(* again during a restart, only the session's own helper is terminated.    *)
THEOREM RestartCorrect == ProcessSpec => OnlyTheHelperIsKilled
<1>1. RestartInv /\ Clipboard!TerminateProcess => kind[handle] \in {"helper", "none"}
  BY DEF RestartInv, Verified, Clipboard!TerminateProcess
<1> QED
  BY <1>1, RestartInvInit, RestartInvNext, ClipboardPart, PTL
     DEF Clipboard!Spec, OnlyTheHelperIsKilled, Clipboard!OnlyTheHelperIsKilled

-----------------------------------------------------------------------------
(* Watchdog                                                                *)

Counted ==
  /\ episode \in Nat
  /\ \A e \in dismissedIn : e \in Nat /\ e <= episode

\* Until it ends, an episode in which the alert was dismissed is one of which
\* the watchdog still knows it.
Remembered == hung /\ episode \in dismissedIn => dismissed

\* An alert that outlives its hang is not yet taken down by a poll, and a
\* dismissal that is older than the episode not yet forgotten by one.
Stale ==
  /\ visible /\ ~hung => ~settled
  /\ dismissed /\ settled => hung /\ episode \in dismissedIn

WatchdogInv == Counted /\ Remembered /\ DismissedForTheEpisode /\ Stale

LEMMA WatchdogInvInit == Init => WatchdogInv
BY DEF Init, WatchdogInv, Counted, Remembered, DismissedForTheEpisode, Stale

LEMMA CountedNext == Counted /\ [Next]_vars => Counted'
<1> SUFFICES ASSUME Counted, [Next]_vars PROVE Counted'
  OBVIOUS
<1>1. /\ episode' = episode \/ episode' = episode + 1
      /\ dismissedIn' = dismissedIn \/ dismissedIn' = dismissedIn \cup {episode}
  BY Zenon
     DEF Next, vars, frameVars, ToggleFrame, Hang, Recover, Poll, PollResponding, PollHung,
         ClickDismiss, StopWatchdogThread, StartWatchdogThread, ChangeThreshold
<1>2. episode \in Nat /\ episode' \in Nat /\ episode <= episode'
  BY <1>1 DEF Counted
<1>3. ASSUME NEW e \in dismissedIn' PROVE e \in Nat /\ e <= episode'
  <2>1. e \in dismissedIn \/ e = episode
    BY <1>1, <1>3, Zenon
  <2> QED
    BY <1>2, <2>1 DEF Counted
<1> QED
  BY <1>2, <1>3 DEF Counted

LEMMA WatchdogInvNext == WatchdogInv /\ [Next]_vars => WatchdogInv'
<1> SUFFICES ASSUME WatchdogInv, [Next]_vars PROVE WatchdogInv'
  OBVIOUS
<1>1. Counted /\ Counted'
  BY CountedNext DEF WatchdogInv
<1>2. episode + 1 \notin dismissedIn
  BY <1>1 DEF Counted
<1> USE <1>1 DEF WatchdogInv, Remembered, DismissedForTheEpisode, Stale, frameVars
<1>3. CASE ToggleFrame
  BY <1>3, Zenon DEF ToggleFrame
<1>4. CASE Hang
  BY <1>2, <1>4, Zenon DEF Hang
<1>5. CASE Recover
  BY <1>5, Zenon DEF Recover
<1>6. CASE PollResponding
  BY <1>6, Zenon DEF PollResponding
<1>7. CASE PollHung
  BY <1>7, Zenon DEF PollHung
<1>8. CASE ClickDismiss
  BY <1>8, Zenon DEF ClickDismiss
<1>9. CASE StopWatchdogThread
  BY <1>9, Zenon DEF StopWatchdogThread
<1>10. CASE StartWatchdogThread
  BY <1>10, Zenon DEF StartWatchdogThread
<1>11. CASE ChangeThreshold
  BY <1>11, Zenon DEF ChangeThreshold
<1>12. CASE UNCHANGED vars
  BY <1>12, Zenon DEF vars
<1> HIDE DEF WatchdogInv
<1> QED
  BY <1>3, <1>4, <1>5, <1>6, <1>7, <1>8, <1>9, <1>10, <1>11, <1>12 DEF Next, Poll

(* Whatever the settings are changed to and whenever the detection is      *)
(* switched off and on: a dismissed alert is not shown again before the    *)
(* hang has ended.                                                         *)
THEOREM DismissalCorrect == ProcessSpec => []DismissedForTheEpisode
<1>1. WatchdogInv => DismissedForTheEpisode
  BY DEF WatchdogInv
<1> QED
  BY <1>1, WatchdogInvInit, WatchdogInvNext, WatchdogPart, PTL DEF Spec

(* ... and every later hang that is separated from it by a poll raises the *)
(* alert again, at the poll that reaches the threshold.                    *)
THEOREM AlertCorrect == ProcessSpec => EveryHangIsAlerted
<1>1. WatchdogInv /\ [Next]_vars =>
        (PollHung /\ hungSeconds' >= threshold /\ settled /\ episode \notin dismissedIn => visible')
  BY Zenon DEF WatchdogInv, Stale, PollHung
<1> QED
  BY <1>1, WatchdogInvInit, WatchdogInvNext, WatchdogPart, PTL DEF Spec, EveryHangIsAlerted

-----------------------------------------------------------------------------
(* TaskbarWidget                                                           *)

\* What is taken out of a list leaves all the other elements in it.
LEMMA RemoveAtElements ==
  ASSUME NEW S, NEW s \in Seq(S), NEW i \in DOMAIN s
  PROVE  /\ Explorer!RemoveAt(s, i) \in Seq(S)
         /\ \A j \in DOMAIN Explorer!RemoveAt(s, i) :
              \E k \in DOMAIN s : Explorer!RemoveAt(s, i)[j] = s[k]
         /\ \A k \in DOMAIN s : k # i =>
              \E j \in DOMAIN Explorer!RemoveAt(s, i) : Explorer!RemoveAt(s, i)[j] = s[k]
<1> DEFINE a == SubSeq(s, 1, i - 1)
           b == SubSeq(s, i + 1, Len(s))
<1>1. /\ i \in 1..Len(s) /\ Len(s) \in Nat /\ DOMAIN s = 1..Len(s)
      /\ a \in Seq(S) /\ Len(a) = i - 1 /\ \A j \in 1..(i - 1) : a[j] = s[j]
      /\ b \in Seq(S) /\ Len(b) = Len(s) - i /\ \A j \in 1..(Len(s) - i) : b[j] = s[j + i]
  OBVIOUS
<1>2. Explorer!RemoveAt(s, i) = a \o b
  BY DEF Explorer!RemoveAt
<1> HIDE DEF a, b
<1>3. /\ a \o b \in Seq(S) /\ Len(a \o b) = Len(s) - 1 /\ DOMAIN (a \o b) = 1..(Len(s) - 1)
      /\ \A j \in 1..(Len(s) - 1) : (a \o b)[j] = IF j < i THEN s[j] ELSE s[j + 1]
  <2>. a \in Seq(S) /\ b \in Seq(S)
    BY <1>1
  <2>1. /\ a \o b \in Seq(S) /\ Len(a \o b) = Len(a) + Len(b)
        /\ DOMAIN (a \o b) = 1..Len(a \o b)
    OBVIOUS
  <2>2. Len(a \o b) = Len(s) - 1
    BY <1>1, <2>1
  <2>3. ASSUME NEW j \in 1..(Len(s) - 1)
        PROVE  (a \o b)[j] = IF j < i THEN s[j] ELSE s[j + 1]
    <3>1. CASE j < i
      <4>1. (a \o b)[j] = a[j] /\ j \in 1..(i - 1)
        BY <1>1, <2>3, <3>1
      <4> QED
        BY <1>1, <3>1, <4>1
    <3>2. CASE ~(j < i)
      <4>1. (a \o b)[j] = b[j - (i - 1)] /\ j - (i - 1) \in 1..(Len(s) - i) /\ j - (i - 1) + i = j + 1
        BY <1>1, <2>3, <3>2
      <4> QED
        BY <1>1, <3>2, <4>1
    <3> QED
      BY <3>1, <3>2
  <2> QED
    BY <2>1, <2>2, <2>3
<1>4. ASSUME NEW k \in DOMAIN s, k # i PROVE \E j \in 1..(Len(s) - 1) : (a \o b)[j] = s[k]
  <2>1. CASE k < i
    <3>1. k \in 1..(Len(s) - 1)
      BY <1>1, <1>4, <2>1
    <3> QED
      BY <1>3, <2>1, <3>1
  <2>2. CASE k > i
    <3>1. k - 1 \in 1..(Len(s) - 1) /\ ~(k - 1 < i) /\ (k - 1) + 1 = k
      BY <1>1, <1>4, <2>2
    <3> QED
      BY <1>3, <3>1
  <2> QED
    BY <1>1, <1>4, <2>1, <2>2
<1>5. ASSUME NEW j \in 1..(Len(s) - 1) PROVE \E k \in DOMAIN s : (a \o b)[j] = s[k]
  <2>1. j \in DOMAIN s /\ j + 1 \in DOMAIN s
    BY <1>1, <1>5
  <2> QED
    BY <1>3, <2>1
<1> QED
  BY <1>2, <1>3, <1>4, <1>5

\* A thread that has been joined is not started again.
ThreadInv ==
  /\ uninit # "no" => loader # "off" /\ unloading
  /\ uninit \notin {"no", "join"} => Explorer!Polled
  /\ uninit \notin {"no", "join", "joinScan"} => trigger # "waiting"
  /\ uninit \notin {"no", "join", "joinScan", "joinStatus"} => poster = "idle"
  /\ uninit \in {"drain", "remove", "hooks", "done"} => stopping

\* Where the XAML thread is, and what it is inside of there.
InHook == {"hook", "post", "leave"}
InDelegate == {"scan", "inject", "track", "state", "cleanup"}
OnWidget == {"track", "bind", "store"}
Place == {"idle"} \cup InHook \cup InDelegate \cup OnWidget

Delegates == [kind : {"scan", "state", "cleanup"}, of : Root]

WidgetTyped ==
  /\ queue \in Seq(Delegates)
  /\ xaml \in [at : Place, of : Root \cup {"none"}]
  /\ delegate \in BOOLEAN
  /\ widget \in [Root -> BOOLEAN] /\ bound \in [Root -> BOOLEAN]
  /\ instance \in [Root -> {"none", "live", "dead"}]

\* A handler is only ever on the tray of a taskbar that has a widget.
XamlInv ==
  /\ IF xaml.at = "idle" THEN xaml.of = "none" /\ ~delegate ELSE xaml.of \in Root
  /\ xaml.at \in InHook => ~delegate
  /\ xaml.at \in InDelegate => delegate
  /\ xaml.at \in OnWidget => widget[xaml.of]
  /\ \A r \in Root : bound[r] => widget[r]

CleanupQueued(r) == \E i \in DOMAIN queue : queue[i] = [kind |-> "cleanup", of |-> r]

\* Before the drain every widget has an entry, except the one that is about to
\* get it, and nothing is cleaned up.
Entered ==
  uninit \notin {"remove", "hooks", "done"} =>
    /\ \A r \in Root : widget[r] => instance[r] = "live" \/ (xaml.at = "track" /\ xaml.of = r)
    /\ \A i \in DOMAIN queue : queue[i].kind # "cleanup"
    /\ xaml.at # "cleanup"

\* After it, as long as the code is not retained, only cleanups are left, and
\* every widget that is left is going to be taken away by one.
Leaving(r) ==
  /\ uninit = "remove"
  /\ r \in left \/ CleanupQueued(r) \/ (xaml.at = "cleanup" /\ xaml.of = r)

Left ==
  uninit \in {"remove", "hooks", "done"} /\ ~pinned =>
    /\ \A r \in Root : instance[r] = "none"
    /\ \A i \in DOMAIN queue : queue[i].kind = "cleanup"
    /\ delegate => xaml.at = "cleanup"
    /\ \A r \in Root : widget[r] => Leaving(r)
    /\ uninit # "remove" => queue = <<>> /\ ~delegate
    /\ uninit = "done" => xaml.at \notin InHook

WidgetInv == WidgetTyped /\ XamlInv /\ ThreadInv /\ Entered /\ Left

LEMMA WidgetInvInit == Explorer!Init => WidgetInv
<1>0. <<>> \in Seq(Delegates)
  OBVIOUS
<1> SUFFICES ASSUME Explorer!Init PROVE WidgetInv
  OBVIOUS
<1> USE DEF Explorer!Init
<1>1. WidgetTyped
  <2>1. queue \in Seq(Delegates) /\ delegate \in BOOLEAN
    BY <1>0
  <2>2. xaml \in [at : Place, of : Root \cup {"none"}]
    BY DEF Place
  <2>3. /\ widget \in [Root -> BOOLEAN] /\ bound \in [Root -> BOOLEAN]
        /\ instance \in [Root -> {"none", "live", "dead"}]
    OBVIOUS
  <2> QED
    BY <2>1, <2>2, <2>3 DEF WidgetTyped
<1>2. XamlInv
  BY DEF XamlInv, InHook, InDelegate, OnWidget
<1>3. ThreadInv
  BY DEF ThreadInv
<1>4. Entered
  BY DEF Entered
<1>5. Left
  BY DEF Left
<1> QED
  BY <1>1, <1>2, <1>3, <1>4, <1>5 DEF WidgetInv

\* Neither the XAML thread nor a refresh has a part in the threads and in the
\* unload, apart from the end of the refresh.
LEMMA UnloadUnchanged ==
  Explorer!Hook \/ Explorer!Xaml \/ Explorer!Refresh \/ Explorer!EndRefresh
    => UNCHANGED Explorer!unloadVars
BY Zenon
   DEF Explorer!Hook, Explorer!TakeLatch, Explorer!PostScan, Explorer!LeaveHook, Explorer!Xaml,
       Explorer!StartDelegate, Explorer!EnterHook, Explorer!Scan, Explorer!Inject, Explorer!Track,
       Explorer!Bind, Explorer!Store, Explorer!ApplyState, Explorer!WidgetEvent,
       Explorer!LoseGrid, Explorer!CleanUp, Explorer!Refresh, Explorer!RefreshWidgetUI,
       Explorer!PostState, Explorer!EndRefresh

LEMMA PosterUnchanged ==
  Explorer!Hook \/ Explorer!Xaml => UNCHANGED poster
BY Zenon
   DEF Explorer!Hook, Explorer!TakeLatch, Explorer!PostScan, Explorer!LeaveHook, Explorer!Xaml,
       Explorer!StartDelegate, Explorer!EnterHook, Explorer!Scan, Explorer!Inject, Explorer!Track,
       Explorer!Bind, Explorer!Store, Explorer!ApplyState, Explorer!WidgetEvent,
       Explorer!LoseGrid, Explorer!CleanUp

LEMMA ThreadInvNext == ThreadInv /\ [Explorer!Next]_(Explorer!vars) => ThreadInv'
<1> SUFFICES ASSUME ThreadInv, [Explorer!Next]_(Explorer!vars) PROVE ThreadInv'
  OBVIOUS
<1> USE DEF ThreadInv, Explorer!Polled, Explorer!loadVars, Explorer!unloadVars
<1>1. CASE Explorer!ModInit
  BY <1>1 DEF Explorer!ModInit, Explorer!Load
<1>2. CASE Explorer!Threads
  BY <1>2 DEF Explorer!Threads, Explorer!PollForTaskbarViewDll,
              Explorer!HookTaskbarViewDllSymbols, Explorer!LookAtUnloading,
              Explorer!TriggerInitialScan, Explorer!PostSize, Explorer!Load
<1>3. CASE Explorer!Hook \/ Explorer!Xaml
  BY <1>3, UnloadUnchanged, PosterUnchanged
<1>4. CASE Explorer!Refresh
  BY <1>4 DEF Explorer!Refresh, Explorer!RefreshWidgetUI, Explorer!PostState
<1>5. CASE Explorer!EndRefresh
  BY <1>5 DEF Explorer!EndRefresh
<1>6. CASE Explorer!BeginUninit
  BY <1>6 DEF Explorer!BeginUninit, Explorer!Go
<1>7. CASE Explorer!JoinThreads
  BY <1>7 DEF Explorer!JoinThreads, Explorer!Join, Explorer!Go
<1>8. CASE Explorer!StopDispatch
  BY <1>8 DEF Explorer!StopDispatch, Explorer!Go
<1>9. CASE Explorer!Drain \/ Explorer!DrainCleanup \/ Explorer!AwaitHooks
  BY <1>9 DEF Explorer!Drain, Explorer!DrainCleanup, Explorer!AwaitHooks, Explorer!Go
<1>10. ASSUME NEW r \in Root, Explorer!RemoveWidget(r) PROVE ThreadInv'
  BY <1>10 DEF Explorer!RemoveWidget
<1>11. CASE UNCHANGED Explorer!vars
  BY <1>11 DEF Explorer!vars
<1> HIDE DEF ThreadInv
<1> QED
  BY <1>1, <1>2, <1>3, <1>4, <1>5, <1>6, <1>7, <1>8, <1>9, <1>10, <1>11
     DEF Explorer!Next, Explorer!Uninit

LEMMA AppendElements ==
  ASSUME NEW S, NEW s \in Seq(S), NEW w \in S
  PROVE  /\ Append(s, w) \in Seq(S)
         /\ \A j \in DOMAIN Append(s, w) :
              Append(s, w)[j] = w \/ \E k \in DOMAIN s : Append(s, w)[j] = s[k]
         /\ \A k \in DOMAIN s : \E j \in DOMAIN Append(s, w) : Append(s, w)[j] = s[k]
         /\ \E j \in DOMAIN Append(s, w) : Append(s, w)[j] = w
<1>1. /\ Append(s, w) \in Seq(S) /\ Len(s) \in Nat /\ DOMAIN s = 1..Len(s)
      /\ Len(Append(s, w)) = Len(s) + 1 /\ DOMAIN Append(s, w) = 1..(Len(s) + 1)
      /\ \A k \in 1..Len(s) : Append(s, w)[k] = s[k]
      /\ Append(s, w)[Len(s) + 1] = w
  OBVIOUS
<1>2. ASSUME NEW j \in 1..(Len(s) + 1)
      PROVE  Append(s, w)[j] = w \/ \E k \in 1..Len(s) : Append(s, w)[j] = s[k]
  <2>1. j = Len(s) + 1 \/ j \in 1..Len(s)
    BY <1>1
  <2> QED
    BY <1>1, <2>1
<1>3. \A k \in 1..Len(s) : k \in 1..(Len(s) + 1)
  BY <1>1
<1>4. Len(s) + 1 \in 1..(Len(s) + 1)
  BY <1>1
<1> QED
  BY <1>1, <1>2, <1>3, <1>4

\* The queue after a step: what was there, but for one that is started and one
\* that is posted.
Taken(i) == queue' = Explorer!RemoveAt(queue, i)
Added(w) ==
  /\ queue' = Append(queue, w)
  /\ IF w.kind = "cleanup" THEN uninit = "remove" ELSE ~stopping

LEMMA QueueSteps ==
  ASSUME WidgetTyped, [Explorer!Next]_(Explorer!vars)
  PROVE  \/ queue' = queue
         \/ \E i \in DOMAIN queue : Taken(i)
         \/ \E w \in Delegates : Added(w)
<1> USE DEF Taken, Added
<1>1. CASE Explorer!StartDelegate
  BY <1>1 DEF Explorer!StartDelegate
<1>2. ASSUME NEW r \in Root, NEW k \in {"scan", "state", "cleanup"}
      PROVE  Explorer!Work(k, r) \in Delegates /\ Explorer!Work(k, r).kind = k
  BY DEF Explorer!Work, Delegates
<1>3. ASSUME NEW r \in Root, Explorer!PostScan(r) PROVE queue' = queue \/ \E w \in Delegates : Added(w)
  BY <1>2, <1>3 DEF Explorer!PostScan, Explorer!Posted
<1>4. ASSUME NEW r \in Root, Explorer!PostState(r) PROVE queue' = queue \/ \E w \in Delegates : Added(w)
  BY <1>2, <1>4 DEF Explorer!PostState, Explorer!Posted
<1>5. ASSUME NEW r \in Root, Explorer!RemoveWidget(r) PROVE queue' = queue \/ \E w \in Delegates : Added(w)
  BY <1>2, <1>5 DEF Explorer!RemoveWidget
<1> HIDE DEF Taken, Added
<1>6. CASE Explorer!ModInit \/ Explorer!Threads \/ Explorer!BeginUninit \/ Explorer!JoinThreads
             \/ Explorer!StopDispatch \/ Explorer!Drain \/ Explorer!DrainCleanup
             \/ Explorer!AwaitHooks \/ Explorer!RefreshWidgetUI \/ Explorer!EndRefresh
             \/ UNCHANGED Explorer!vars
  BY <1>6, Zenon
     DEF Explorer!ModInit, Explorer!Load, Explorer!Threads, Explorer!PollForTaskbarViewDll,
         Explorer!HookTaskbarViewDllSymbols, Explorer!LookAtUnloading,
         Explorer!TriggerInitialScan, Explorer!PostSize, Explorer!BeginUninit,
         Explorer!JoinThreads, Explorer!Join, Explorer!StopDispatch, Explorer!Drain,
         Explorer!DrainCleanup, Explorer!AwaitHooks, Explorer!RefreshWidgetUI,
         Explorer!EndRefresh, Explorer!vars, Explorer!xamlVars
<1>7. ASSUME NEW r \in Root,
             \/ Explorer!TakeLatch(r) \/ Explorer!LeaveHook(r) \/ Explorer!EnterHook(r)
             \/ Explorer!Scan(r) \/ Explorer!Inject(r) \/ Explorer!Track(r) \/ Explorer!Bind(r)
             \/ Explorer!Store(r) \/ Explorer!ApplyState(r) \/ Explorer!WidgetEvent(r)
             \/ Explorer!LoseGrid(r) \/ Explorer!CleanUp(r)
      PROVE  queue' = queue
  BY <1>7, Zenon
     DEF Explorer!TakeLatch, Explorer!LeaveHook, Explorer!EnterHook, Explorer!Scan,
         Explorer!Inject, Explorer!Track, Explorer!Bind, Explorer!Store, Explorer!ApplyState,
         Explorer!WidgetEvent, Explorer!LoseGrid, Explorer!CleanUp, Explorer!xamlVars
<1> QED
  BY <1>1, <1>3, <1>4, <1>5, <1>6, <1>7, Zenon
     DEF Explorer!Next, Explorer!Hook, Explorer!Xaml, Explorer!Refresh, Explorer!Uninit

LEMMA QueueTyped == WidgetTyped /\ [Explorer!Next]_(Explorer!vars) => queue' \in Seq(Delegates)
<1> SUFFICES ASSUME WidgetTyped, [Explorer!Next]_(Explorer!vars) PROVE queue' \in Seq(Delegates)
  OBVIOUS
<1>1. queue \in Seq(Delegates)
  BY DEF WidgetTyped
<1>2. ASSUME NEW i \in DOMAIN queue, Taken(i) PROVE queue' \in Seq(Delegates)
  BY <1>1, <1>2, RemoveAtElements DEF Taken
<1>3. ASSUME NEW w \in Delegates, Added(w) PROVE queue' \in Seq(Delegates)
  BY <1>1, <1>3, AppendElements DEF Added
<1> QED
  BY <1>1, <1>2, <1>3, QueueSteps

LEMMA XamlInvNext ==
  WidgetTyped /\ XamlInv /\ [Explorer!Next]_(Explorer!vars) => WidgetTyped' /\ XamlInv'
<1> SUFFICES ASSUME WidgetTyped, XamlInv, [Explorer!Next]_(Explorer!vars)
             PROVE  WidgetTyped' /\ XamlInv'
  OBVIOUS
<1> DEFINE Rest ==
      /\ xaml \in [at : Place, of : Root \cup {"none"}]
      /\ delegate \in BOOLEAN
      /\ widget \in [Root -> BOOLEAN] /\ bound \in [Root -> BOOLEAN]
      /\ instance \in [Root -> {"none", "live", "dead"}]
<1>1. Rest /\ queue \in Seq(Delegates) /\ queue' \in Seq(Delegates)
  BY QueueTyped DEF WidgetTyped
<1> SUFFICES Rest' /\ XamlInv'
  BY <1>1 DEF WidgetTyped
<1> HIDE DEF Delegates
<1> USE <1>1 DEF XamlInv, Place, InHook, InDelegate, OnWidget, Explorer!At, Explorer!Is,
                 Explorer!Idle, Explorer!Return, Explorer!widgetVars, Explorer!xamlVars
<1>returns. ASSUME Explorer!Return, UNCHANGED Explorer!widgetVars PROVE Rest' /\ XamlInv'
  BY <1>returns
<1>goes. ASSUME NEW r \in Root, NEW p \in Place \ {"idle"}, Explorer!At(p, r),
                UNCHANGED Explorer!widgetVars, delegate' \in BOOLEAN,
                p \in InHook => ~delegate', p \in InDelegate => delegate',
                p \in OnWidget => widget[r]
         PROVE  Rest' /\ XamlInv'
  BY <1>goes
<1>2. CASE Explorer!StartDelegate
  <2>1. PICK i \in DOMAIN queue :
          IF stopping /\ queue[i].kind # "cleanup"
            THEN Explorer!Return
            ELSE Explorer!At(queue[i].kind, queue[i].of) /\ delegate' = TRUE
    BY <1>2 DEF Explorer!StartDelegate
  <2>2. queue[i] \in Delegates
    OBVIOUS
  <2>3. queue[i].of \in Root /\ queue[i].kind \in {"scan", "state", "cleanup"}
    BY <2>2 DEF Delegates
  <2>4. UNCHANGED Explorer!widgetVars
    BY <1>2 DEF Explorer!StartDelegate
  <2>5. CASE stopping /\ queue[i].kind # "cleanup"
    BY <1>returns, <2>1, <2>4, <2>5
  <2>6. CASE ~(stopping /\ queue[i].kind # "cleanup")
    <3> DEFINE p == queue[i].kind
               r == queue[i].of
    <3>1. r \in Root /\ p \in Place \ {"idle"} /\ Explorer!At(p, r) /\ delegate' = TRUE
      BY <2>1, <2>3, <2>6
    <3>2. p \notin InHook /\ p \notin OnWidget
      BY <2>3
    <3> HIDE DEF p, r
    <3> QED
      BY <1>goes, <2>4, <3>1, <3>2
  <2> QED
    BY <2>5, <2>6
<1>3. ASSUME NEW r \in Root, Explorer!EnterHook(r) PROVE Rest' /\ XamlInv'
  BY <1>3 DEF Explorer!EnterHook
<1>4. ASSUME NEW r \in Root, Explorer!TakeLatch(r) PROVE Rest' /\ XamlInv'
  BY <1>4 DEF Explorer!TakeLatch
<1>5. ASSUME NEW r \in Root, Explorer!PostScan(r) PROVE Rest' /\ XamlInv'
  BY <1>5 DEF Explorer!PostScan
<1>6. ASSUME NEW r \in Root, Explorer!LeaveHook(r) PROVE Rest' /\ XamlInv'
  BY <1>returns, <1>6 DEF Explorer!LeaveHook
<1>7. ASSUME NEW r \in Root, Explorer!Scan(r) PROVE Rest' /\ XamlInv'
  <2>1. UNCHANGED Explorer!widgetVars /\ delegate
    BY <1>7 DEF Explorer!Scan
  <2>2. CASE Explorer!Return
    BY <1>returns, <2>1, <2>2
  <2>3. CASE Explorer!At("inject", r) /\ UNCHANGED delegate
    BY <1>goes, <2>1, <2>3
  <2> QED
    BY <1>7, <2>2, <2>3 DEF Explorer!Scan
<1>8. ASSUME NEW r \in Root, Explorer!Inject(r) PROVE Rest' /\ XamlInv'
  <2>1. CASE widget[r]
    <3>1. xaml' \in [at : Place, of : Root \cup {"none"}] /\ delegate' = FALSE
          /\ xaml'.at = "idle" /\ xaml'.of = "none"
      BY <1>8, <2>1 DEF Explorer!Inject
    <3>2. widget' \in [Root -> BOOLEAN] /\ \A q \in Root : widget[q] => widget'[q]
      BY <1>8, <2>1 DEF Explorer!Inject, Explorer!BuildWidget
    <3>3. instance' \in [Root -> {"none", "live", "dead"}]
      BY <1>8, <2>1 DEF Explorer!Inject
    <3>4. bound' = [bound EXCEPT ![r] = bound[r] /\ instance[r] = "live"]
      BY <1>8, <2>1 DEF Explorer!Inject
    <3>5. bound' \in [Root -> BOOLEAN]
      BY <3>4
    <3>6. \A q \in Root : bound'[q] => bound[q]
      BY <3>4
    <3> QED
      BY <3>1, <3>2, <3>3, <3>5, <3>6
  <2>2. CASE ~widget[r]
    BY <1>8, <2>2 DEF Explorer!Inject, Explorer!BuildWidget
  <2> QED
    BY <2>1, <2>2
<1>9. ASSUME NEW r \in Root, Explorer!Track(r) PROVE Rest' /\ XamlInv'
  BY <1>9 DEF Explorer!Track
<1>10. ASSUME NEW r \in Root, Explorer!Bind(r) PROVE Rest' /\ XamlInv'
  <2>1. UNCHANGED Explorer!widgetVars /\ widget[r]
    BY <1>10 DEF Explorer!Bind
  <2>2. CASE Explorer!Return
    BY <1>returns, <2>1, <2>2
  <2>3. CASE Explorer!At("store", r) /\ UNCHANGED delegate
    BY <1>goes, <2>1, <2>3
  <2> QED
    BY <1>10, <2>2, <2>3 DEF Explorer!Bind
<1>11. ASSUME NEW r \in Root, Explorer!Store(r) PROVE Rest' /\ XamlInv'
  BY <1>11 DEF Explorer!Store
<1>12. ASSUME NEW r \in Root, Explorer!ApplyState(r) PROVE Rest' /\ XamlInv'
  <2>1. UNCHANGED Explorer!widgetVars
    BY <1>12 DEF Explorer!ApplyState
  <2>2. CASE Explorer!Return
    BY <1>returns, <2>1, <2>2
  <2>3. CASE widget[r] /\ Explorer!At("bind", r) /\ UNCHANGED delegate
    BY <1>goes, <2>1, <2>3
  <2> QED
    BY <1>12, <2>2, <2>3 DEF Explorer!ApplyState
<1>13. ASSUME NEW r \in Root, Explorer!WidgetEvent(r) PROVE Rest' /\ XamlInv'
  BY <1>13 DEF Explorer!WidgetEvent
<1>14. ASSUME NEW r \in Root, Explorer!LoseGrid(r) PROVE Rest' /\ XamlInv'
  BY <1>14 DEF Explorer!LoseGrid
<1>15. ASSUME NEW r \in Root, Explorer!CleanUp(r) PROVE Rest' /\ XamlInv'
  BY <1>15 DEF Explorer!CleanUp
<1>16. CASE Explorer!Drain
  BY <1>16 DEF Explorer!Drain
<1>17. ASSUME UNCHANGED <<xaml, delegate, widget, bound, instance>> PROVE Rest' /\ XamlInv'
  BY <1>17
<1> HIDE DEF Rest, XamlInv
<1>18. ASSUME NEW r \in Root, Explorer!PostState(r) \/ Explorer!RemoveWidget(r)
       PROVE  Rest' /\ XamlInv'
  BY <1>17, <1>18, Zenon DEF Explorer!PostState, Explorer!RemoveWidget
<1>19. CASE Explorer!ModInit \/ Explorer!Threads \/ Explorer!BeginUninit \/ Explorer!JoinThreads
              \/ Explorer!StopDispatch \/ Explorer!DrainCleanup
              \/ Explorer!AwaitHooks \/ Explorer!RefreshWidgetUI \/ Explorer!EndRefresh
              \/ UNCHANGED Explorer!vars
  BY <1>17, <1>19, Zenon
     DEF Explorer!ModInit, Explorer!Load, Explorer!Threads, Explorer!PollForTaskbarViewDll,
         Explorer!HookTaskbarViewDllSymbols, Explorer!LookAtUnloading,
         Explorer!TriggerInitialScan, Explorer!PostSize, Explorer!BeginUninit,
         Explorer!JoinThreads, Explorer!Join, Explorer!StopDispatch,
         Explorer!DrainCleanup, Explorer!AwaitHooks, Explorer!RefreshWidgetUI,
         Explorer!EndRefresh, Explorer!vars
<1> QED
  BY <1>2, <1>3, <1>4, <1>5, <1>6, <1>7, <1>8, <1>9, <1>10, <1>11, <1>12, <1>13, <1>14, <1>15,
     <1>16, <1>18, <1>19, Zenon
     DEF Explorer!Next, Explorer!Hook, Explorer!Xaml, Explorer!Refresh, Explorer!Uninit

\* The drain is done once, and code that has been retained stays.
LEMMA UninitSteps ==
  [Explorer!Next]_(Explorer!vars) =>
    /\ uninit \in {"remove", "hooks", "done"} => uninit' \in {"remove", "hooks", "done"}
    /\ uninit' \in {"remove", "hooks", "done"} =>
         uninit \in {"remove", "hooks", "done"} \/ Explorer!Drain
    /\ pinned => pinned'
<1> DEFINE Goal ==
      /\ uninit \in {"remove", "hooks", "done"} => uninit' \in {"remove", "hooks", "done"}
      /\ uninit' \in {"remove", "hooks", "done"} =>
           uninit \in {"remove", "hooks", "done"} \/ Explorer!Drain
      /\ pinned => pinned'
<1> SUFFICES ASSUME [Explorer!Next]_(Explorer!vars) PROVE Goal
  OBVIOUS
<1>1. ASSUME UNCHANGED <<uninit, pinned>> PROVE Goal
  BY <1>1
<1>2. CASE Explorer!Hook \/ Explorer!Xaml \/ Explorer!Refresh \/ Explorer!EndRefresh
  BY <1>1, <1>2, UnloadUnchanged DEF Explorer!unloadVars
<1>3. CASE Explorer!ModInit \/ Explorer!Threads
  BY <1>1, <1>3
     DEF Explorer!ModInit, Explorer!Threads, Explorer!PollForTaskbarViewDll,
         Explorer!HookTaskbarViewDllSymbols, Explorer!LookAtUnloading,
         Explorer!TriggerInitialScan, Explorer!PostSize, Explorer!Load
<1>4. CASE Explorer!BeginUninit \/ Explorer!JoinThreads \/ Explorer!StopDispatch
  BY <1>4 DEF Explorer!BeginUninit, Explorer!JoinThreads, Explorer!Join,
              Explorer!StopDispatch, Explorer!Go
<1>5. CASE Explorer!Drain
  BY <1>5 DEF Explorer!Drain, Explorer!Drained, Explorer!Go
<1>6. CASE Explorer!DrainCleanup \/ Explorer!AwaitHooks
  BY <1>6 DEF Explorer!DrainCleanup, Explorer!Drained, Explorer!AwaitHooks, Explorer!Go
<1>7. ASSUME NEW r \in Root, Explorer!RemoveWidget(r) PROVE Goal
  BY <1>7 DEF Explorer!RemoveWidget
<1>8. CASE UNCHANGED Explorer!vars
  BY <1>1, <1>8 DEF Explorer!vars, Explorer!unloadVars
<1> HIDE DEF Goal
<1> QED
  BY <1>2, <1>3, <1>4, <1>5, <1>6, <1>7, <1>8 DEF Explorer!Next, Explorer!Uninit

\* In every other step neither the XAML thread moves nor an entry or a widget
\* changes.
LEMMA XamlStands ==
  [Explorer!Next]_(Explorer!vars) /\ ~(Explorer!Hook \/ Explorer!Xaml \/ Explorer!Drain)
    => UNCHANGED <<xaml, delegate, widget, bound, instance>>
<1>1. ASSUME \/ Explorer!ModInit \/ Explorer!Threads \/ Explorer!Refresh
             \/ Explorer!EndRefresh \/ Explorer!BeginUninit \/ Explorer!JoinThreads
             \/ Explorer!StopDispatch \/ Explorer!DrainCleanup \/ Explorer!AwaitHooks
             \/ \E r \in Root : Explorer!RemoveWidget(r)
      PROVE  UNCHANGED <<xaml, delegate, widget, bound, instance>>
  BY <1>1, Zenon
     DEF Explorer!ModInit, Explorer!Load, Explorer!Threads, Explorer!PollForTaskbarViewDll,
         Explorer!HookTaskbarViewDllSymbols, Explorer!LookAtUnloading,
         Explorer!TriggerInitialScan, Explorer!PostSize, Explorer!BeginUninit,
         Explorer!JoinThreads, Explorer!Join, Explorer!StopDispatch, Explorer!DrainCleanup,
         Explorer!AwaitHooks, Explorer!Refresh, Explorer!RefreshWidgetUI, Explorer!PostState,
         Explorer!EndRefresh, Explorer!RemoveWidget, Explorer!vars, Explorer!widgetVars,
         Explorer!xamlVars
<1>2. ASSUME UNCHANGED Explorer!vars
      PROVE  UNCHANGED <<xaml, delegate, widget, bound, instance>>
  BY <1>2 DEF Explorer!vars, Explorer!widgetVars, Explorer!xamlVars
<1> QED
  BY <1>1, <1>2 DEF Explorer!Next, Explorer!Uninit

LEMMA EnteredNext ==
  WidgetTyped /\ XamlInv /\ Entered /\ [Explorer!Next]_(Explorer!vars) => Entered'
<1> DEFINE HasEntry(r) == widget[r] => instance[r] = "live" \/ (xaml.at = "track" /\ xaml.of = r)
           Widgets == (\A r \in Root : HasEntry(r)) /\ xaml.at # "cleanup"
<1> SUFFICES ASSUME WidgetTyped, XamlInv, Entered, [Explorer!Next]_(Explorer!vars),
                    uninit' \notin {"remove", "hooks", "done"}
             PROVE  Widgets' /\ \A i \in DOMAIN queue' : queue'[i].kind # "cleanup"
  BY DEF Entered
<1>1. Widgets /\ (\A i \in DOMAIN queue : queue[i].kind # "cleanup")
      /\ uninit \notin {"remove", "hooks", "done"}
  BY UninitSteps DEF Entered
<1>2. \A i \in DOMAIN queue' : queue'[i].kind # "cleanup"
  <2>1. queue \in Seq(Delegates)
    BY DEF WidgetTyped
  <2>2. ASSUME NEW i \in DOMAIN queue, Taken(i)
        PROVE  \A j \in DOMAIN queue' : \E k \in DOMAIN queue : queue'[j] = queue[k]
    BY <2>1, <2>2, RemoveAtElements DEF Taken
  <2>3. ASSUME NEW w \in Delegates, Added(w)
        PROVE  /\ \A j \in DOMAIN queue' :
                    queue'[j] = w \/ \E k \in DOMAIN queue : queue'[j] = queue[k]
               /\ w.kind # "cleanup"
    BY <1>1, <2>1, <2>3, AppendElements DEF Added
  <2> QED
    BY <1>1, <2>2, <2>3, QueueSteps
<1> USE DEF Explorer!At, Explorer!Is, Explorer!Idle, Explorer!Return, Explorer!widgetVars,
            Explorer!xamlVars
<1>3. ASSUME UNCHANGED <<widget, instance>>, xaml.at # "track", xaml'.at # "cleanup"
      PROVE  Widgets'
  BY <1>1, <1>3
<1>4. ASSUME UNCHANGED <<xaml, delegate, widget, bound, instance>> PROVE Widgets'
  BY <1>1, <1>4
<1>5. ASSUME Explorer!StartDelegate PROVE Widgets'
  <2>1. PICK i \in DOMAIN queue : xaml'.at \in {"idle", queue[i].kind}
    BY <1>5 DEF Explorer!StartDelegate
  <2>2. xaml.at = "idle" /\ UNCHANGED <<widget, instance>>
    BY <1>5 DEF Explorer!StartDelegate
  <2>3. xaml'.at # "cleanup"
    BY <1>1, <2>1
  <2> QED
    BY <1>3, <2>2, <2>3
<1>6. ASSUME NEW r \in Root, Explorer!Inject(r) PROVE Widgets'
  BY <1>1, <1>6 DEF WidgetTyped, Explorer!Inject, Explorer!BuildWidget
<1>7. ASSUME NEW r \in Root, Explorer!Track(r) PROVE Widgets'
  BY <1>1, <1>7 DEF WidgetTyped, Explorer!Track
<1>8. ASSUME NEW r \in Root, Explorer!LoseGrid(r) PROVE Widgets'
  BY <1>1, <1>8 DEF WidgetTyped, Explorer!LoseGrid
<1>9. ASSUME NEW r \in Root, Explorer!CleanUp(r) PROVE Widgets'
  BY <1>1, <1>9 DEF Explorer!CleanUp
<1>10. ASSUME Explorer!Drain PROVE Widgets'
  BY <1>10 DEF Explorer!Drain, Explorer!Go
<1> HIDE DEF Widgets
<1>11. ASSUME NEW r \in Root,
              \/ Explorer!EnterHook(r) \/ Explorer!TakeLatch(r) \/ Explorer!PostScan(r)
              \/ Explorer!LeaveHook(r) \/ Explorer!Scan(r) \/ Explorer!Bind(r)
              \/ Explorer!Store(r) \/ Explorer!ApplyState(r) \/ Explorer!WidgetEvent(r)
       PROVE  Widgets'
  <2>1. UNCHANGED <<widget, instance>>
    BY <1>11, Zenon
       DEF Explorer!EnterHook, Explorer!TakeLatch, Explorer!PostScan, Explorer!LeaveHook,
           Explorer!Scan, Explorer!Bind, Explorer!Store, Explorer!ApplyState,
           Explorer!WidgetEvent
  <2>2. xaml.at # "track" /\ xaml'.at # "cleanup"
    BY <1>11
       DEF Explorer!EnterHook, Explorer!TakeLatch, Explorer!PostScan, Explorer!LeaveHook,
           Explorer!Scan, Explorer!Bind, Explorer!Store, Explorer!ApplyState,
           Explorer!WidgetEvent
  <2> QED
    BY <1>3, <2>1, <2>2
<1>12. Widgets'
  <2>1. CASE Explorer!Hook \/ Explorer!Xaml
    BY <1>5, <1>6, <1>7, <1>8, <1>9, <1>11, <2>1 DEF Explorer!Hook, Explorer!Xaml
  <2>2. CASE ~(Explorer!Hook \/ Explorer!Xaml \/ Explorer!Drain)
    <3>1. UNCHANGED <<xaml, delegate, widget, bound, instance>>
      BY <2>2, XamlStands
    <3> QED
      BY <1>4, <3>1
  <2> QED
    BY <1>10, <2>1, <2>2
<1> QED
  BY <1>2, <1>12

\* What Left says of an unload that has drained and has not retained the code.
Inside ==
  /\ \A r \in Root : instance[r] = "none"
  /\ \A i \in DOMAIN queue : queue[i].kind = "cleanup"
  /\ delegate => xaml.at = "cleanup"
  /\ \A r \in Root : widget[r] => Leaving(r)
  /\ uninit # "remove" => queue = <<>> /\ ~delegate
  /\ uninit = "done" => xaml.at \notin InHook

LEMMA InsideStarts ==
  WidgetTyped /\ XamlInv /\ Entered /\ Explorer!Drain /\ ~pinned' => Inside'
<1> SUFFICES ASSUME WidgetTyped, XamlInv, Entered, Explorer!Drain, ~pinned' PROVE Inside'
  OBVIOUS
<1>1. /\ uninit = "drain" /\ uninit' = "remove" /\ left' = {r \in Root : instance[r] = "live"}
      /\ instance' = [r \in Root |-> "none"] /\ UNCHANGED <<xaml, queue, delegate, widget>>
      /\ queue = <<>> /\ ~delegate
  BY DEF Explorer!Drain, Explorer!Drained, Explorer!Go, Explorer!xamlVars
<1>2. \A r \in Root : widget[r] => instance[r] = "live"
  BY <1>1 DEF XamlInv, Entered, InDelegate
<1>3. \A r \in Root : widget'[r] => Leaving(r)'
  BY <1>1, <1>2 DEF Leaving
<1> QED
  BY <1>1, <1>3 DEF Inside

\* The XAML thread while nothing but cleanups is left.
LEMMA InsideXaml ==
  WidgetTyped /\ XamlInv /\ stopping /\ Inside /\ uninit \in {"remove", "hooks", "done"}
    /\ (Explorer!Hook \/ Explorer!Xaml) => Inside'
<1> SUFFICES ASSUME WidgetTyped, XamlInv, stopping, Inside,
                    uninit \in {"remove", "hooks", "done"}, Explorer!Hook \/ Explorer!Xaml
             PROVE  Inside'
  OBVIOUS
<1>1. UNCHANGED <<uninit, left, pinned>>
  BY UnloadUnchanged DEF Explorer!unloadVars
<1> USE DEF Explorer!At, Explorer!Is, Explorer!Idle, Explorer!Return, Explorer!widgetVars,
            Explorer!xamlVars
<1>2. xaml.at \notin {"scan", "inject", "track", "state"}
  BY DEF Inside, XamlInv, InDelegate
<1>3. ASSUME UNCHANGED <<queue, instance>>, ~delegate, ~delegate', xaml.at # "cleanup",
             \A r \in Root : widget'[r] => widget[r], uninit = "done" => xaml'.at \notin InHook
      PROVE  Inside'
  <2>1. \A r \in Root : Leaving(r) => Leaving(r)'
    BY <1>1, <1>3 DEF Leaving, CleanupQueued
  <2> QED
    BY <1>1, <1>3, <2>1 DEF Inside
<1>4. CASE Explorer!StartDelegate
  <2>1. PICK i \in DOMAIN queue :
          /\ Taken(i)
          /\ IF stopping /\ queue[i].kind # "cleanup"
               THEN Explorer!Return
               ELSE Explorer!At(queue[i].kind, queue[i].of) /\ delegate' = TRUE
    BY <1>4 DEF Explorer!StartDelegate, Taken
  <2>2. Explorer!At("cleanup", queue[i].of) /\ delegate' = TRUE
    BY <2>1 DEF Inside
  <2>3. queue \in Seq(Delegates) /\ UNCHANGED <<widget, instance>>
    BY <1>4 DEF WidgetTyped, Explorer!StartDelegate
  <2>4. /\ \A j \in DOMAIN queue' : \E k \in DOMAIN queue : queue'[j] = queue[k]
        /\ \A k \in DOMAIN queue : k # i => \E j \in DOMAIN queue' : queue'[j] = queue[k]
    BY <2>1, <2>3, RemoveAtElements DEF Taken
  <2>5. uninit = "remove"
    BY DEF Inside
  <2>6. ASSUME NEW r \in Root, widget'[r] PROVE Leaving(r)'
    <3>1. Leaving(r) /\ xaml.at # "cleanup"
      BY <1>4, <2>3, <2>6 DEF Inside, Explorer!StartDelegate
    <3>2. CASE r \in left
      BY <1>1, <2>5, <3>2 DEF Leaving
    <3>3. ASSUME NEW k \in DOMAIN queue, queue[k] = [kind |-> "cleanup", of |-> r]
          PROVE  CleanupQueued(r)' \/ (xaml'.at = "cleanup" /\ xaml'.of = r)
      <4>1. CASE k = i
        BY <2>2, <3>3, <4>1
      <4>2. CASE k # i
        BY <2>4, <3>3, <4>2 DEF CleanupQueued
      <4> QED
        BY <4>1, <4>2
    <3> QED
      BY <1>1, <2>5, <3>1, <3>2, <3>3 DEF Leaving, CleanupQueued
  <2> QED
    BY <1>1, <2>2, <2>3, <2>4, <2>5, <2>6 DEF Inside
<1>5. ASSUME NEW r \in Root, Explorer!CleanUp(r) PROVE Inside'
  <2>1. /\ uninit = "remove" /\ xaml.at = "cleanup" /\ xaml.of = r
        /\ UNCHANGED <<queue, instance>> /\ delegate' = FALSE /\ xaml'.at = "idle"
    BY <1>5 DEF Explorer!CleanUp, Inside, XamlInv, InDelegate
  <2>2. \A s \in Root : widget'[s] => widget[s] /\ s # r
    BY <1>5 DEF Explorer!CleanUp, WidgetTyped
  <2>3. \A s \in Root : Leaving(s) /\ s # r => Leaving(s)'
    BY <1>1, <2>1 DEF Leaving, CleanupQueued
  <2> QED
    BY <1>1, <2>1, <2>2, <2>3 DEF Inside
<1>6. ASSUME NEW r \in Root,
             Explorer!TakeLatch(r) \/ Explorer!PostScan(r) \/ Explorer!LeaveHook(r)
      PROVE  Inside'
  <2>1. UNCHANGED <<queue, widget, instance>> /\ xaml.at \in InHook
    BY <1>6 DEF Explorer!TakeLatch, Explorer!PostScan, Explorer!LeaveHook, Explorer!Posted, InHook
  <2>2. ~delegate /\ ~delegate' /\ xaml.at # "cleanup"
    BY <1>6, <2>1 DEF Explorer!TakeLatch, Explorer!PostScan, Explorer!LeaveHook, XamlInv, InHook
  <2> QED
    BY <1>3, <2>1, <2>2 DEF Inside
<1>7. ASSUME NEW r \in Root, Explorer!Bind(r) \/ Explorer!Store(r) \/ Explorer!WidgetEvent(r)
      PROVE  Inside'
  <2>1. /\ UNCHANGED <<queue, widget, instance>>
        /\ xaml.at # "cleanup" /\ xaml'.at \in {"idle", "bind", "store"}
    BY <1>7 DEF Explorer!Bind, Explorer!Store, Explorer!WidgetEvent
  <2>2. ~delegate /\ ~delegate'
    BY <1>7, <2>1 DEF Explorer!Bind, Explorer!Store, Explorer!WidgetEvent, Inside
  <2>3. xaml'.at \notin InHook
    BY <2>1 DEF InHook
  <2> QED
    BY <1>3, <2>1, <2>2, <2>3
<1>8. ASSUME NEW r \in Root, Explorer!LoseGrid(r) PROVE Inside'
  <2>1. UNCHANGED <<queue, xaml, delegate>> /\ xaml.at = "idle"
    BY <1>8 DEF Explorer!LoseGrid
  <2>2. ~delegate /\ ~delegate' /\ xaml'.at \notin InHook
    BY <2>1 DEF XamlInv, InHook
  <2>3. \A s \in Root : widget'[s] => widget[s]
    BY <1>8 DEF Explorer!LoseGrid, WidgetTyped
  <2>4. instance' = instance
    BY <1>8 DEF Explorer!LoseGrid, WidgetTyped, Inside
  <2> QED
    BY <1>3, <2>1, <2>2, <2>3, <2>4
<1>9. ASSUME NEW r \in Root,
             \/ Explorer!EnterHook(r) \/ Explorer!Scan(r) \/ Explorer!Inject(r)
             \/ Explorer!Track(r) \/ Explorer!ApplyState(r)
      PROVE  FALSE
  BY <1>2, <1>9 DEF Explorer!EnterHook, Explorer!Scan, Explorer!Inject, Explorer!Track,
                    Explorer!ApplyState
<1> QED
  BY <1>4, <1>5, <1>6, <1>7, <1>8, <1>9 DEF Explorer!Hook, Explorer!Xaml

\* The other threads, and the unload itself.
LEMMA InsideUninit ==
  WidgetTyped /\ XamlInv /\ stopping /\ Inside /\ uninit \in {"remove", "hooks", "done"}
    /\ ~pinned' /\ [Explorer!Next]_(Explorer!vars) /\ ~(Explorer!Hook \/ Explorer!Xaml)
    => Inside'
<1> SUFFICES ASSUME WidgetTyped, XamlInv, stopping, Inside,
                    uninit \in {"remove", "hooks", "done"}, ~pinned',
                    [Explorer!Next]_(Explorer!vars), ~(Explorer!Hook \/ Explorer!Xaml)
             PROVE  Inside'
  OBVIOUS
<1>1. UNCHANGED <<xaml, delegate, widget, bound, instance>>
  BY XamlStands DEF Explorer!Drain
<1>2. ASSUME UNCHANGED <<uninit, left, queue>> PROVE Inside'
  BY <1>1, <1>2 DEF Inside, Leaving, CleanupQueued
<1>3. CASE Explorer!ModInit \/ Explorer!Threads
  BY <1>2, <1>3
     DEF Explorer!ModInit, Explorer!Threads, Explorer!PollForTaskbarViewDll,
         Explorer!HookTaskbarViewDllSymbols, Explorer!LookAtUnloading,
         Explorer!TriggerInitialScan, Explorer!PostSize, Explorer!Load, Explorer!xamlVars
<1>4. CASE Explorer!Refresh \/ Explorer!EndRefresh
  <2>1. queue' = queue
    BY <1>4 DEF Explorer!Refresh, Explorer!RefreshWidgetUI, Explorer!PostState,
                Explorer!Posted, Explorer!EndRefresh, Explorer!xamlVars
  <2> QED
    BY <1>2, <1>4, <2>1, UnloadUnchanged DEF Explorer!unloadVars
<1>5. ASSUME NEW r \in Root, Explorer!RemoveWidget(r) PROVE Inside'
  <2> DEFINE w == [kind |-> "cleanup", of |-> r]
  <2>1. /\ uninit = "remove" /\ uninit' = "remove" /\ left' = left \ {r}
        /\ queue' = Append(queue, w)
    BY <1>5 DEF Explorer!RemoveWidget, Explorer!Work
  <2>2. w \in Delegates /\ queue \in Seq(Delegates)
    BY DEF Delegates, WidgetTyped
  <2>3. w.kind = "cleanup"
    OBVIOUS
  <2> HIDE DEF w
  <2>4. /\ \A j \in DOMAIN queue' : queue'[j] = w \/ \E k \in DOMAIN queue : queue'[j] = queue[k]
        /\ \A k \in DOMAIN queue : \E j \in DOMAIN queue' : queue'[j] = queue[k]
        /\ \E j \in DOMAIN queue' : queue'[j] = w
    BY <2>1, <2>2, AppendElements
  <2>5. CleanupQueued(r)' /\ \A s \in Root : CleanupQueued(s) => CleanupQueued(s)'
    BY <2>4 DEF CleanupQueued, w
  <2>6. \A s \in Root : Leaving(s) => Leaving(s)'
    BY <1>1, <2>1, <2>5 DEF Leaving
  <2> QED
    BY <1>1, <2>1, <2>3, <2>4, <2>6 DEF Inside
<1>6. CASE Explorer!DrainCleanup
  <2>1. uninit = "remove" /\ left = {} /\ uninit' = "hooks" /\ queue = <<>> /\ ~delegate
        /\ queue' = queue
    BY <1>6 DEF Explorer!DrainCleanup, Explorer!Drained, Explorer!Go, Explorer!xamlVars
  <2>2. \A r \in Root : ~Leaving(r)
    BY <2>1 DEF Leaving, CleanupQueued, XamlInv, InDelegate
  <2> QED
    BY <1>1, <2>1, <2>2 DEF Inside
<1>7. CASE Explorer!AwaitHooks
  <2>1. uninit = "hooks" /\ uninit' = "done" /\ xaml.at \notin InHook /\ queue' = queue
    BY <1>7 DEF Explorer!AwaitHooks, Explorer!HookCalls, Explorer!Go, Explorer!xamlVars, InHook
  <2>2. \A r \in Root : ~widget[r]
    BY <2>1 DEF Inside, Leaving
  <2> QED
    BY <1>1, <2>1, <2>2 DEF Inside
<1>8. CASE Explorer!BeginUninit \/ Explorer!JoinThreads \/ Explorer!StopDispatch \/ Explorer!Drain
  BY <1>8 DEF Explorer!BeginUninit, Explorer!JoinThreads, Explorer!Join, Explorer!StopDispatch,
              Explorer!Drain
<1>9. CASE UNCHANGED Explorer!vars
  BY <1>2, <1>9 DEF Explorer!vars, Explorer!unloadVars, Explorer!xamlVars
<1> QED
  BY <1>3, <1>4, <1>5, <1>6, <1>7, <1>8, <1>9 DEF Explorer!Next, Explorer!Uninit

LEMMA WidgetInvNext == WidgetInv /\ [Explorer!Next]_(Explorer!vars) => WidgetInv'
<1> SUFFICES ASSUME WidgetInv, [Explorer!Next]_(Explorer!vars) PROVE WidgetInv'
  OBVIOUS
<1>1. WidgetTyped /\ XamlInv /\ ThreadInv /\ Entered /\ Left
  BY DEF WidgetInv
<1>2. ASSUME uninit' \in {"remove", "hooks", "done"}, ~pinned' PROVE Inside'
  <2>1. CASE Explorer!Drain
    BY <1>1, <1>2, <2>1, InsideStarts
  <2>2. CASE ~Explorer!Drain
    <3>1. uninit \in {"remove", "hooks", "done"}
      BY <1>2, <2>2, UninitSteps
    <3>2. ~pinned
      BY <1>2, UninitSteps
    <3>3. Inside /\ stopping
      BY <1>1, <3>1, <3>2 DEF Left, Inside, ThreadInv
    <3> QED
      BY <1>1, <1>2, <3>1, <3>3, InsideXaml, InsideUninit
  <2> QED
    BY <2>1, <2>2
<1>3. Left'
  BY <1>2 DEF Left, Inside
<1> QED
  BY <1>1, <1>3, XamlInvNext, ThreadInvNext, EnteredNext DEF WidgetInv

(* Wherever the XAML thread stalls, whatever threads a late load starts    *)
(* and however many taskbars there are: an unload that returns without     *)
(* retaining the code leaves no thread, no delegate, no widget and no      *)
(* handler that would call it.                                             *)
THEOREM UnloadCorrect == ProcessSpec => []UnloadLeavesNothing
<1>1. WidgetInv => UnloadLeavesNothing
  <2> SUFFICES ASSUME WidgetInv, uninit = "done", ~pinned
               PROVE  /\ Explorer!Polled /\ trigger # "waiting" /\ poster = "idle"
                      /\ queue = <<>> /\ Explorer!Idle
                      /\ \A r \in Root : ~widget[r] /\ ~bound[r]
    BY DEF UnloadLeavesNothing, Explorer!UnloadLeavesNothing
  <2>1. Explorer!Polled /\ trigger # "waiting" /\ poster = "idle"
    BY DEF WidgetInv, ThreadInv
  <2>2. /\ queue = <<>> /\ ~delegate /\ xaml.at \notin InHook
        /\ \A r \in Root : ~widget[r]
    BY DEF WidgetInv, Left, Leaving
  <2>3. xaml.at = "idle"
    BY <2>2 DEF WidgetInv, WidgetTyped, XamlInv, Place, OnWidget, InDelegate
  <2>4. Explorer!Idle
    BY <2>3 DEF WidgetInv, WidgetTyped, XamlInv, Explorer!Idle, Explorer!Is
  <2>5. \A r \in Root : ~bound[r]
    BY <2>2 DEF WidgetInv, XamlInv
  <2> QED
    BY <2>1, <2>2, <2>4, <2>5
<1> QED
  BY <1>1, WidgetInvInit, WidgetInvNext, ExplorerPart, PTL DEF Explorer!Spec
=============================================================================
