# RDP Session Toolkit in TLA+

A verification project for the RDP Session Toolkit: models of the parts of the
toolkit that run at the same time and depend on each other, TLC configurations
that check them on small instances, and TLAPS proofs, for every value of the
constants, of all the safety properties that are checked. All line numbers are those of the repository's
files:

| short | file |
|---|---|
| H | `src/taskbar-integration/host/rdp-session-toolkit-taskbar-host.wh.cpp` (mod in the host's explorer.exe, inside the remote session) |
| C | `src/taskbar-integration/client/rdp-session-toolkit-taskbar-client.wh.cpp` (mod in mstsc.exe and in the client's explorer.exe) |
| R | `src/dvc-plugin/relay/plugin/RdpRelayPlugin.cpp` (relay: DVC plugin in a local COM server) |
| M, G | `.../relay/plugin/Main.cpp`, `RegistryHelper.h` (server lifetime, registration) |
| T, I | `.../relay/common/ToolkitRuntime.h`, `RelayIds.h` (shared runtime, wire format) |

## 1. Inventory

The user works in a remote session. Its taskbar (H) shows controls for the
window of the RDP client that displays this very session. A click travels: host
mod → worker → dynamic virtual channel → relay on the client machine →
`WM_COPYDATA` → mod inside mstsc (C). State travels the other way, through a
snapshot file that mstsc's mod replaces once a second and the relay reads.

| Component | State | Operations | Talks to | What is hard | What makes it correct |
|---|---|---|---|---|---|
| **Bound request path** (H 1270-1352, R 60-215, T 46-130, C 3430-3477) | request in the worker, channel, relay's `OnDataReceived`, window message, `g_ClientView` | post a query or action, find target (three times), read the record, forward, run, answer, give up | host worker, relay thread, client window, file system | processes die and pids are reused between any two steps; three timeouts; late messages; one shared snapshot path | a command reaches only the process the user saw, at most once; a refusal is final; a success is real |
| **Host actions and polls** (H 1279-1391, 933-945) | latches `g_RelayActionBusy`, `g_RelayPollInFlight`, `g_ClipboardRestartBusy`, the awaited action, the notice | click, post, run, observe outcome, expire, unload | work queue, WTS timer thread, XAML thread | latches set on one thread and cleared on another, copies of the view that are already old | one action at a time; an outcome is observed only if it came later; no latch stays set |
| **Work queue** (T 248-287) | a bounded deque, stop flag, one worker | Start, Post, Stop | every user of background work in H | posts during Stop, a full queue | a job accepted before Stop runs at most once, none after Stop |
| **Client status publisher** (C 2136-2207, 2243-2260) | `g_localWidgetStatusLastTick`, `g_hRdpFrame`, the record | tick of three threads, forced record on `WM_DESTROY`, delete at unload | overlay, watchdog and panel threads, frame's thread | the throttle is read-check-swap over a clock read earlier; publication order differs from sampling order | a record is never newer than what it says; none is left after the unload |
| **Reconnect and disconnect** (C 1473-1483, 1560-1815, 2231-2247, 2860-2978) | parked plan, launch guard, in-flight flag | Disconnect, Reconnect, Force reconnect, `WM_DESTROY` | overlay, panel/relay thread, watchdog, force thread, frame's thread | four threads and a window that may be hung, refuse to close, or close by itself | never two replacements; never a client killed without one; after a plain Disconnect no close relaunches |
| **Stuck-session watchdog** (C 3004-3251) | `g_hungSeconds`, `g_sessionHung`, `g_alertDismissed`, the alert window | poll, dismiss, start, stop, change of settings | settings, panel | state that outlives the thread and the episode it belongs to | every hang is alerted; a dismissed one only once |
| **Relay COM server** (M, R 217-371) | process reference count, bootstrap exchange, `m_terminated`, callbacks | activation, bootstrap timeout, new channel, close, terminate | COM, Terminal Services client | an activation races the 30 s timeout; new channel races `Terminated`; `Write` may call `OnClose` | the server lives as long as an object, and no longer |
| **Relay registration** (G) | registry values, saved originals | register, unregister, roll back | installer | one step of several fails, also of the rollback | all or nothing; discovery never leads to a server that is not there |
| **Message threads and unload of the client mod** (C 1236-1265, 3178-3251, 3480-3552, 3980-4078, 4300-4400, 4540-4743) | thread handles, ids, readiness events, subclassed windows, sink, call counter | start, stop, subclass, advise, tear down, drain, retain | mstsc's UI thread, settings, unload | `WM_QUIT` against a thread without a queue; hooks on mstsc's thread while the unload takes things back | nothing of the mod is left when its code goes; Stop always ends the thread |
| **XAML dispatch, widgets** (H 501-575, 1723-2340, C 6033-6157) | tracked delegates, instances, tokens, `g_ScanPending` | scan, inject, refresh, dispatch, clean up, drain | XAML thread, unload | delegates queued or running while the mod unloads, or never run | no delegate, widget or thread is left unless the code is retained |
| **Local taskbar panel** (C 4838-6019, 3618-3692, 1965-2111) | `WidgetState`, `g_Feedback`, the record | poll, show, click, send, observe | mstsc mod through `WM_COPYDATA` | stale records, a mstsc that hangs or ends, answers for another click | what is said of a click is true; every click is answered |
| **Shared secret** (C 965-1020) | the registry value, a named mutex | ensure | every mstsc and explorer | first starts at once, killed in the middle | one secret for all |
| **Clipboard restart, session state** (H 750-945, 987-1102) | process ids of a scan, the open handle, `g_WtsState` | scan, verify, terminate, launch, query, show | Windows, XAML thread | pids are reused during the scan; two queries at once | only this session's helper is ended; the widget comes to show the truth |
| **Wire protocol v3** (T 159-213, I) | – | build, validate, parse | relay, host, client | lengths, ranges | what is accepted is well-formed |
| Connection bar look, overlay drawing, settings | – | – | – | layout | not modelled |
| DVC probe, scripts, regression probes | – | – | – | retired code and tooling | not modelled |

## 2. Modules

| Module | Models | Status |
|---|---|---|
| `BoundRelay` | bound request path end to end | checked and proved |
| `ActionContract` | what a command path promises its user, as an abstract specification | refined by `BoundRelay` and by `LocalPanel` (checked and proved) |
| `HostActions` | host actions, polls, queue, timer, unload | checked, safety proved |
| `StatusPublisher` | `WriteLocalWidgetStatus` and the unload | checked and proved |
| `Reconnect` | reconnect, disconnect, force reconnect, unload | checked and proved |
| `Registration` | `RegistryHelper::Change` and its rollback | checked and proved, in `RelayProcess` |
| `RelayServer` | `RunServer`, class factory, plugin and channel objects | checked, safety proved, in `RelayProcess` |
| `RelayProcess` | `main()` of the relay: which of the two a process is | composition |
| `ClientMod` | threads, hooks, sink and unload of the mod in mstsc.exe | checked, safety proved |
| `TaskbarWidget` | XAML delegates and widgets, in both mods | checked, safety proved, in `ModProcess` |
| `LocalPanel` | the panel in explorer.exe and the mstsc it commands | checked, safety proved, refines `ActionContract` |
| `Watchdog` | watchdog poll, alert, settings | checked and proved, in `ModProcess` |
| `Secret` | `EnsureLocalWidgetSecret` in several processes | checked and proved, in `ModProcess` |
| `ClipboardRestart` | `RestartRdpClipNow`, `QueryWtsState` | checked, safety proved, in `ModProcess` |
| `ModProcess` | what a mod runs in which kind of process | composition |
| `...Proofs` | the theorems about a module and those it is composed of | proved |
| `MC...` | model values, small instances, symmetry sets | – |

Variables and actions carry the names of the code. `PROJECT.json` maps each
definition to its lines. Definitions that come under a comment *Mutant* are
variants of the definition that follows them, with a plausible bug; no
specification uses them. They are there to show that each property can fail.

### BoundRelay

A *lifetime* is what the code identifies by pid and creation time; `PidOf` lets
several lifetimes share a pid. Each of the three `FindTarget` calls of a
request (in `BuildStatusReply`, `ForwardBoundCommand` and `CheckBoundTarget`)
takes the process snapshot, the creation time and the window enumeration as
three steps, because processes start and exit in between. `hostPc`, `relayPc`
and `message[r].stage` are the positions of a request on the host worker, in
the relay and at the client's window. The window message is separate from the
relay's wait for it: `SendMessageTimeout` may give up (`MessageTimesOut`) and
the message still be run. The channel read may give up (`ReadTimesOut`) and the
relay still be forwarding. An API failure is a refusal that may always be
taken. All definite refusals are one value `Refused`; the properties do not
tell their reasons apart, and `TimedOut` is one value with `Unknown`, for which
both code paths tell the user that the outcome is unknown. The snapshot file is
one path for all client processes: the client's publication takes the sample,
the check of being the sole client and the replacement as three steps.

`ActionContract` has three actions per request: it is asked of a lifetime, that
lifetime carries it out once, an answer is shown – *refused* only if nothing
has been done and nothing ever will, *succeeded* only after it was done.

### HostActions

The three threads (XAML, WTS timer, worker) with one position each in `pc`; the
latches; the queue; the copy of `g_ClientView` that a thread compares (`seen`),
taken *before* the mutex of the awaited action. `published` is the history of
snapshots the client has produced; `sentAt` where it stood when an action was
sent. The relay behind the queue is the contract `BoundRelay` establishes: a
reply with the latest snapshot, a reply without one, or a failure.

### StatusPublisher

One client process with two ticking threads and the frame's thread. Reading the
stop flag and the clock, loading the last tick, the compare-exchange, sampling
the frame and replacing the file are separate steps. Elapsed time is a
difference modulo `Width`, as the unsigned subtraction of the code.

### Reconnect

`pc` has a position for each clicking thread, the alert's thread, the force
thread and the frame's (`ui`). A posted `WM_CLOSE` is an element of `closes`
which the frame's thread handles when it is not hung, and the user may refuse in
mstsc's prompt. A plan is *none*, *fresh* or *expired*. Starting a replacement
is one step between taking the guard and handing it back.

A click on Reconnect is taken by the panel's thread alone (`Commander`): only
`ExecuteClientCommand` calls `ReconnectSessionClean` (C 3422), and the overlay
(C 2488-2534) and the relay's receiver (C 3467-3470) never ask for it.

Clicking threads also minimize, restore or toggle the frame: such a call
(`ClickShow`) is a synchronous `ShowWindow` (C 1521, 1536, 2098), which returns
(`ShowReturns`) only when the frame's thread is neither hung nor inside
`WM_DESTROY`, or the frame has gone (`Responds`). `ModUninit` is modelled to its
end: it joins those threads, then the force thread, gives the frame its window
procedure back (`restoring`, after which the mod no longer sees `WM_DESTROY`) and
shows the hidden bar by a `ShowWindow` of its own (`showing`, C 4718). What follows
has a timeout.

### Watchdog

Poll and dismissal run on one thread and are one step each. Settings changes
join that thread. A hang (`IsHungAppWindow`) needs five seconds without a
message, so between two hangs a running one-second poll sees a responding
window: `Hang` waits for that poll (`settled`) unless the watchdog is off.

### Registration, RelayServer and RelayProcess

`Registration` changes three registry values in order (`passed` counts those the
loop is done with; a removal leaves an absent one alone); each change may
fail, each failure starts the rollback, each step of which may fail itself, and the
process may be killed between two changes. `MaxRuns` runs follow each other over
the same registry, which at first may hold anybody's values.

`RelayServer` has COM's process reference count, the class object (active,
suspended by the last release, revoked) and for each plugin and channel object
the positions of the calls it is in: `Initialize` and `OnNewChannelConnection`
release the lock between their test of `m_terminated` and what they do after it,
`Terminated` empties the members under the lock and releases outside it,
`OnDataReceived` takes a reference to its channel, and its `Write` may call
`OnClose`. Constructing an object counts it, takes the bootstrap reference and
gives it back in three steps, as the code does; so does the timeout.
`RelayProcess` picks by the arguments, as `main()` does, whether a process
serves or changes the registry.

### ClientMod

`ModInit`, `ModSettingsChanged` and `ModUninit` are sets of tasks (`todo`) for
the thread Windhawk calls them on, which does them in the order of the code
(`Before`: by `Phase`, threads in the order of `Worker`, the frame before the
bar, a thread's join after its stop). Threads are started with a readiness event
and asked to quit through their queue. The hooks (`CreateWindowExW`,
`ShowWindow`) and both subclass procedures run on mstsc's one UI thread (`ui`);
the advise of the event sink tests the stop flag twice around `g_adviseBusy`.
`ModUninit` sends the teardown, a fence to each window and a ShowWindow to that
thread; sends have a timeout, and each failure, also that of
`SetWindowLongPtr` for a window that has gone meanwhile, sets `keepMapped`.

### TaskbarWidget

`queue` holds the delegates the XAML thread has not started, of which it takes
the first that is not of low priority (`IsNext`), and `delegate` tells that it is
in one. Injection, removal and refresh walk the instances as the code does.
`Drain` waits for the delegates it has taken and retains the code (`pinned`)
when it gives up. The threads that poll for the taskbar DLL and that trigger the
first scan are joined in the order of `Wh_ModUninit`.

### LocalPanel

The status thread of explorer.exe (`panel`) handles a timer or a click at a
time; the XAML thread shows a state later than it was read. The local widget
thread of mstsc (`widget[l]`) samples, publishes and runs commands, and may be
stuck behind its frame's thread (the synchronous `ShowWindow`) or end with its
process. A command carries the lifetime the state was read of.

`SendInput` may take any prefix of the chord's six events, and any prefix of the
cleanup that follows a partial one, which the code logs and leaves at that
(C 2084-2085): `held` has the clicks that have left keys down, until the user taps
the keys. From its third event on a partial chord has pressed Break under
Ctrl and Alt, so that mstsc toggles the frame although the answer is *Unknown*.
Ctrl is released last, so it is always among the keys left down, and a modifier that
is down refuses the next chord (C 2052-2053).

Three histories map a click to `ActionContract`. `asked` is the lifetime of the
record the panel had read when it took the click, which is what the command is
sent with; a click that is refused before it is bound to a record asks nothing in
the contract. `carriedOut` grows when mstsc acts on a command, or finds the window
as asked for, which it answers as an outcome. `told` is the first feedback of the
click: *Rejected*, *TargetChanged*, *Unavailable*, *NoReceiver* and *Ambiguous*
are shown as refused, *Accepted* and *Observed* as succeeded, a timeout and a
missing answer as unknown.

### Secret, ClipboardRestart and ModProcess

In `Secret` each process opens the mutex (or fails), waits, reads, generates if
there is none and releases; it may be killed anywhere. In `ClipboardRestart`
processes start and exit under the restart; a process id is not used again while
a handle to it is open. `QueryWtsState` reads the session and the process list,
resolves the paths, and stores the result under the lock, in separate steps on
both of its threads. These two, `Watchdog` and `TaskbarWidget` have no variable
in common, since they run in different processes; `ModProcess` makes one
specification of them in which each behaviour follows one part.

## 3. Runs

| Run | Instance | Shows |
|---|---|---|
| `bound_safety` | 2 requests, 2 lifetimes that share one pid | a command is run only by the shown lifetime and at most once; refusals are final, successes real; the view was published by the process it names; the whole path refines `ActionContract` |
| `bound_liveness` | 2 requests, 1 lifetime | each request is answered, each relay call returns |
| `host_safety` | a toggle and a clipboard click, queue of 1, 2 lifetimes, 2 snapshots, unload | latches of poll and restart are exact; an outcome is observed only in a later snapshot of the same process and is not replaced; nothing runs after the unload |
| `host_liveness` | two actions, queue of 4 | latches are released, the unload ends |
| `status_records` | 2 tickers, interval 2, clock 5 | a record that shows a session was true at its tick or later; none after the unload |
| `reconnect` | the panel's thread and the overlay's, grace of 2, one close under way at a time | one replacement at most, none beside an open session, after a plain Disconnect no close starts one, the unload cancels the force thread; a force reconnect ends; the unload ends, or waits for ever behind a hung frame in a `ShowWindow`, its own or a click's, and nowhere else |
| `relay_process` | 1 plugin, 1 channel in 2 calls, the factory's lock; or 2 runs that change the registry | a registration is all or nothing and never leads to a server that is not there; no object outlives the server, references balance, the server ends |
| `client_mod` | the overlay's thread, one settings change | the unload leaves nothing that would call unmapped code, every subclassed window is found, the unload returns |
| `mod_process` | 3 processes; thresholds 1 and 3, 3 episodes; 2 taskbars, a list of 2 delegates; 2 pids | the secret is stable; every hang is alerted, a dismissed one once; delegates and widgets are gone after the unload, which returns; only the session's own helper is ended; the widget settles on the truth |
| `local_panel` | a client beside the record of an earlier one, one click, 4 buttons | an observation is true; a click that left a key down is not told as refused or succeeded; the whole path refines `ActionContract`; no session is shown for ever that is gone, each click is answered |

Runs that are expected to find a violation are in section 7.

**Why the bounds are enough.** Two lifetimes are what pid reuse needs (one to
be shown, one to take its place). Requests share only the client's processes,
the record and the view, so two of them show all pairwise interference. In
`HostActions` an outcome needs two snapshots of one process, or one of each
process to be mistaken for one; a queue of one job is full at once, and
`Capacity` is the code's 4 where fullness is not the question. In
`StatusPublisher` an interval of two ticks distinguishes "too early" from "one
tick old", the clock's five allow two complete intervals, and 64 is far above
all of them, so that a difference wraps exactly when it would in 64 bits. In
`Reconnect` a grace period of two sleeps has a first and a last poll; `MaxClose`
limits the `WM_CLOSE` messages that are under way, not how many are made: one
may be refused and the next taken. (`reconnect_killed` has two under way.) Of the
two clicking threads the overlay's only disconnects and shows the frame (`Commander`). In
`Watchdog` three episodes allow one dismissed, one missed and one shown;
`MaxSeconds` exceeds the larger threshold by two polls. In `RelayServer` all
objects but the factory's lock share nothing but the count; two calls of one
channel are the least in which `Write` of one meets `OnClose` of the other. In
`Registration` the second run meets what a killed or failed one has left. In
`ClientMod` the threads meet only in the order of their stops; the overlay's is
the one that a setting starts and stops and that also makes mstsc's window calls,
so it is the hard case. In `TaskbarWidget` a second taskbar is needed for a
removal that succeeds for one only, and a list of two is full while another
delegate waits. In `Secret` a third process meets the mutex abandoned. In
`LocalPanel` the second lifetime is over and its record may have been left;
two clients that run at once are ambiguous to `FindTarget`, which `BoundRelay`
has in full. The clock orders records and clicks for `ObservedIsTrue`, for which before
and after are enough. Two ids let a helper's id go to another program during a restart
that has a second helper to end.

`CHECK_DEADLOCK FALSE` is set where requests, clicks, clocks, snapshots and
episodes are used up, processes exit and mods unload, so that the system may
really stop.

## 4. Fairness

Fairness is assumed only where the code bounds the wait, or of a thread that
does nothing but run:

* `BoundRelay`: the host's read has a limit of 4 s (H 1341-1344) and the window
  message 1.5 s (R 87), so each wait has a step that ends it, whether or not an
  answer comes; the other steps are straight-line code. Nothing is assumed of
  the client: it may hang or die at any point.
* `HostActions`: threads run, timer messages keep coming while the thread does
  (`WM_QUIT` is retrieved first, so a stopped thread stops), five seconds pass.
  The client need never publish anything.
* `Reconnect`: the mod's own threads run, up to a synchronous `ShowWindow`. The
  user, the frame's thread and the plan's expiry are not fair: the frame may be
  hung for good, and then a `ShowWindow` does not return (`Responds` is its guard).
  It does return if the frame's thread recovers again and again (strong fairness of
  `ShowReturns` and `ShowBar` together): a sent message is handled before posted
  ones. The clicking threads' other steps are fair together, which is less than the
  code gives and enough, since no click begins once the threads have been told to quit.
  `ThreadsEnd` therefore says of the unload that it ends or stays `BehindTheFrame`
  for ever. A model in which no call blocks would satisfy the stronger statement,
  but not the code.
* `RelayServer`: COM's threads run, a client that has been told to let an object
  go does, the 30 s pass. No activation is ever promised.
* `ClientMod`: the mod's threads run, sends with a timeout end. mstsc's UI thread
  goes on (weak fairness) and handles sent messages whenever it looks for
  messages (strong fairness of `AnswerStep`); the unload needs that at one call
  (section 7). A thread of the mod that is asked again and again to minimize the
  frame gets to its `WM_QUIT` in the end.
* `TaskbarWidget`: the threads of the mod and hooks that have begun run; nothing
  is assumed of the XAML thread, which may have stalled.
* `ClipboardRestart`: both threads run, the timer fires, the XAML thread goes on.
* `LocalPanel`: the status thread runs and its timer fires when no click is posted, the XAML thread goes
  on, and a record nobody renews gets old. mstsc need never answer.

## 5. Proofs

Eight modules hold theorems. Each safety proof has the same shape: an inductive
invariant made of named parts, a lemma that `Init` establishes it, a lemma that
every step keeps it with one step per action, and a theorem that combines both.

### BoundRelay

`BoundRelayProofs` proves, for any set of requests, lifetimes and pids, from the
single assumption `LifeAssumption` (`NoLife` is no lifetime, each lifetime has a
pid):

| Theorem | States |
|---|---|
| `TypeCorrect` | `Spec => []TypeOK` |
| `InductiveCorrect` | `Spec => []Inductive` |
| `BoundCorrect` | `Spec => []OnlyTheBoundTargetOnce` |
| `RefusalCorrect` | `Spec => []RefusalIsFinal` |
| `SuccessCorrect` | `Spec => []SuccessIsReal` |
| `ViewCorrect` | `Spec => []ViewIsItsOwnReport` |
| `ContractCorrect` | `Spec => ImplementsContract` |

None of the four safety properties is inductive: each depends on how far apart
the host, the relay and the window may be. `Inductive` adds

* `ProcessInv` – a running process owns its pid, only a running one has windows;
* `ReportInv` – what file, reply and view say of a process, it said itself;
* `ProgressInv` – which combinations of positions of a request are possible;
* `TargetInv` – what each unfinished target search has established so far;
* `OutcomeInv` – what was answered at each stage agrees with what was done.

The core of the argument: a message that is being checked sits at a window of a
process that is up (its window would have been destroyed, and the message with
it, otherwise). The creation-time step of `CheckBoundTarget` compares the
identity of the process that has the pid *now* with the one the request names.
It succeeds only for that lifetime, which is up at that step; since running
processes own their pids, and the window's process is up and has this pid, the
window's process *is* the bound lifetime. It stays so while the message is
there, whatever starts or exits in the remaining steps. The relay's own search
is not needed for safety, only to refuse early; the invariant says of it just
what the client needs (the message names the request's target).

The refinement follows from the same invariant: a carried-out step maps to the
contract's step of the asked lifetime, a shown refusal to a state in which no
message is left that could still be run, everything else stutters.

### StatusPublisher

`StatusPublisherProofs` proves, for any set of ticking threads and any interval
and clock width that satisfy `ClockAssumption` (the interval is at most the last
time, which the clock's width can hold) and `ThreadAssumption`:

| Theorem | States |
|---|---|
| `TypeCorrect` | `Spec => []TypeOK` |
| `RecordCorrect` | `Spec => []ActiveIsNoOlderThanItsTick` |
| `UnloadCorrect` | `Spec => []NoSessionAfterUnload` |

`RecordCorrect` needs `ClockInv` (every time a thread has read has been, and an
open frame was open just now) and `SampleInv` (the property itself, also for
the samples that threads have taken and not yet written).
`UnloadCorrect` needs `ForcedInv` (the frame's own thread, the one the unload
does not join, only ever samples after the frame is gone, so what it writes late
shows no session) and `StopInv` (joined tickers do not come back). Neither
depends on the throttle: they hold although two ticks may both write
(section 7).

### Reconnect

`ReconnectProofs` proves, for any set of clicking threads and any length of the
grace period, from `CallerAssumption` (clicking threads are not one of the
three others) and `BoundAssumption` (the grace period has at least one sleep):

| Theorem | States |
|---|---|
| `TypeCorrect` | `Spec => []TypeOK` |
| `LaunchCorrect` | `Spec => []NeverDoubleLaunch` |
| `SessionCorrect` | `Spec => []OneClientPerSession` |
| `CancelCorrect` | `Spec => []UnloadCancelsGrace` |
| `QuietCorrect` | `Spec => []QuietAfterUnload` |

`ThreadInv` says where each thread can be. `LaunchInv` is the mutual exclusion
behind "at most one": the guard is set while a replacement exists or is being
started, only one of the two launching threads is in that stretch, and
a guard is handed back only while no replacement exists. `SessionInv` ties the frame's
thread to the destruction of the frame, so that only the force thread can launch
beside an open one, and only as its last act. `CancelInv` says that a force
thread which the unload has found in its grace period is still at a place from
which it must look at the stop flag before it can reach the launch; this is why
the order of the tests in the poll (stop flag before the end of the period)
matters. `JoinInv` says that joined threads stay idle and none of them starts
another force thread, at every stage of the unload after the joins.

`DisconnectCorrect` (`Spec => NoCloseRelaunches`) is an action property: after a
Disconnect that came when the plan had been parked, the frame's thread starts
nothing. `WithdrawInv` says that once a plan has been withdrawn none is parked or
about to be parked, and the frame's thread is not in the middle of a launch. What
may still start a replacement is the force thread, which has its own copy of the
plan (C 2927-2928): for that step `ThreadInv` has that whoever is past the grace
period has waited all of it and has not seen the frame gone.

### HostActions

`HostActionsProofs` proves, for any set of clicks, any capacity of the queue and
any behaviour of the client, from `ClickAssumption`:

| Theorem | States |
|---|---|
| `QuietCorrect` | `Spec => []QuietAfterUnload` |
| `ToldCorrect` | `Spec => ToldOnce` |
| `LatchesCorrect` | `Spec => []LatchesAreExact` |
| `ObservedCorrect` | `Spec => []ObservedIsLater` |

`QuietInv` follows the unload: once the queue is closed it is empty and stays
so, because `Post` tests the flag under the same lock. For `ToldOnce` an outcome
may change only while a click is under way, so `SentInv` and `PlaceInv` say that
a click is in one place only: with the XAML thread, once in the queue, with the
worker, or recorded as the awaited action – never in two, from which it
could be told twice. For `LatchesAreExact` the invariant `OnePlace`, instantiated
for the polls and for the restarts, counts the work of a latch over the thread
that posts, the queue and the worker; `TailFacts` carries it over the worker's
taking of a job, `AppendFacts` over a post. For `ObservedIsLater` the invariant
`ViewInv` says that every view that is known anywhere (in the global, in a
thread's copy, in the reply) is a snapshot that was published, and that from the
reply to the record of the action the one to compare with is of the bound process
since the send; `Since` says it without `known`, because the view may expire in
between and the code records it all the same.

### RelayProcess

`RelayProcessProofs` proves the safety of both uses of the relay executable, for
any set of plugins, channels and calls that `HolderAssumption` of `RelayServer`
allows (they are finite, since the count is compared with a cardinality; plugin
and channel names differ) and any number of runs:

| Theorem | States |
|---|---|
| `RegistrationCorrect` | `Spec => []AllOrNothing` |
| `DiscoveryCorrect` | `Spec => []DiscoveryImpliesServer` |
| `ServerCorrect` | `Spec => []ServerOutlivesItsObjects` |
| `BalanceCorrect` | `Spec => []ReferencesBalance` |

*Registration.* `LoopInv` says that in the loop the values it is done with are as
desired and the others as they were found, and that `changed` lists exactly the
former; `RollbackInv` says the same of the values still to put back, and that
those behind the failed one were never touched. `PriorInv` carries
`DiscoveryImpliesServer` over the runs: what a run found, which is what a rollback
restores, was not worse. The order of the loop is what makes discovery follow the
server, and it is used at each of the three values.

*Server.* `RefsInv` is the meaning of the count: the counted holders and, while
it is spare, the bootstrap reference. `SpareInv` is the exclusion behind it: the
exchange of `g_bootstrap` gives the reference to one thread only, a holder or
`RunServer` after its timeout. `LateInv` then says that what is counted when the
server has been told to end was counted after the shutdown.

*Objects.* `Owes` says who owes mstsc the members of a plugin: the members
themselves, an `Initialize` that has found `m_terminated` set, or `Terminated`, one
of them at a time. `Balanced` counts a channel's references over its
calls (a cardinality over `Call`, hence the finiteness).

### LocalPanel

`LocalPanelProofs` proves, for any set of clients, commands and clicks, from
`CommandAssumption`, `PastAssumption`, `LifeAssumption` (a lifetime is neither of
the words `FindTarget` answers with) and `BoundAssumption` (the clicks are
counted by a natural number):

| Theorem | States |
|---|---|
| `RejectionCorrect` | `Spec => []RejectionIsFinal` |
| `ObservationCorrect` | `Spec => []ObservedIsTrue` |
| `PanelContractCorrect` | `Spec => ImplementsContract` |
| `StuckKeysCorrect` | `Spec => []StuckKeysAreNotDenied` |

The invariant follows a click from the panel to mstsc and back.
`ClickInv` says that clicks are taken in the order they were made, so that what
is told of one cannot be about another; `SentInv` that a command is with at most
one client; `AnswerInv` and `FeedbackInv` that nothing will carry out a click that
was answered as rejected. `RecordInv` says that a record is true of its process
since the tick it carries, also one still being written (`TrueBeforeWritten`),
which is what makes an observation more than a comparison of two numbers.

`RejectionCorrect` is what the contract says of a rejection, in terms of the client:
no command of that click is left anywhere. No run checks it beside the contract.

The refinement adds `ContractInv`: a command is on its way only to the process its
click was bound to, and a click whose first feedback was a refusal is final. A
step of mstsc that acts maps to the contract's `CarryOut`: a click that has been
carried out is with its client only to be answered (`SentInv`), so it is not
carried out twice, and a refused one is with no client. The step that gives the first
feedback maps to `Show`: what an answer claims is true when the panel has it
(`AnswerInv`), and a command that was never sent is with nobody. A later feedback
about the same click (the panel looks at the record again) leaves the contract's
variables alone.

`StuckKeysCorrect` needs a click to stay undecided from the moment it is sent until it
is answered (`Undecided`): the user has been told nothing of it, or that it timed
out, and is told no more, because the panel tells of newer clicks only. `KeysInv`
says so of each command on its way, since its chord may yet be cut short, and of
each click that has left a key down; the latter has no command on its way, so only
its one answer, *Unknown*, can be with the panel.

### ClientMod

`ClientModProofs` proves, for any threads in any order and any settings, from no
assumption:

| Theorem | States |
|---|---|
| `UnloadCorrect` | `Spec => []UnloadLeavesNothing` |
| `TrackedCorrect` | `Spec => []SubclassedIsTracked` |

Its invariant has two halves. What holds at any time: `Ordered` (the tasks of
`ModUninit` that are done come before those that are left), `Joined` (a running
thread has a handle), `Waiting` (the call that is waited in is that of the current
task), `Counted` (the counter of subclass calls is right), `Advising` (an advise
under way is marked busy) and `SubclassedIsTracked` itself. What `ModUninit` has
reached: each part is about the state once some task is behind it (`Past`), as long
as it does not keep the module (`Kept`). In their order:

* `Stopped` – the flag is up, and an advise that has not ended is past its second
  test of it no more;
* `Looked` – no hook is attaching, and each window that calls the mod was found;
* `Restored` – no such window is left, so no message enters the mod any more;
* `Fenced` – a message that had been dispatched before has been counted, because
  the answer to the fence comes after it on the same thread;
* `Drained` – the counter has been seen at zero, so no call is under way.

Each of them needs the one before, which is why the order of `ModUninit` matters;
`PastNext` and `TaskAction` say that only the action of a task puts it behind.

### ModProcess

`ModProcessProofs` is about what runs in each kind of process. `ProcessSpec`
implies the specification of each part (`SecretPart`, `WatchdogPart`,
`ExplorerPart`, `ClipboardPart`), and each theorem is proved of the part, for any
set of processes, thresholds, taskbars, ids and any limit of the delegates, from
`ProcessAssumption` ("none" is no process):

| Theorem | States |
|---|---|
| `StableCorrect` | `ProcessSpec => SecretIsStable` |
| `RestartCorrect` | `ProcessSpec => OnlyTheHelperIsKilled` |
| `DismissalCorrect` | `ProcessSpec => []DismissedForTheEpisode` |
| `AlertCorrect` | `ProcessSpec => EveryHangIsAlerted` |
| `UnloadCorrect` | `ProcessSpec => []UnloadLeavesNothing` |

* `StableCorrect` rests on `Exclusive`: while no wait has timed out only the owner
  of the mutex is past it, and one that generates has seen no secret since.
* `RestartCorrect` rests on `Verified`: what has been found on the open handle
  stays true until the process ends, since its id cannot be used again.
* `DismissalCorrect` and `AlertCorrect` rest on `Remembered` and `Stale`: the
  watchdog knows a dismissal as long as its episode lasts, and what it still knows
  of an earlier episode has not yet been seen by a poll.
* `UnloadCorrect` rests on `ThreadInv` (the order of the joins: a joined thread is
  not started again), `Entered` (before the drain each widget has an entry, but for
  the one that the XAML thread is about to track) and `Left` (after it only
  cleanups are queued, and each widget that is left has one). The step from
  `Entered` to `Left` is that of the drain, which either has found no delegate
  running or retains the code.

**Only model-checked.** All the liveness properties (`EveryRequestIsAnswered`,
`EveryCallReturns`, `LatchesAreReleased`, `UnloadEnds`, `ThreadsEnd`, `ServerEnds`,
`UnloadReturns` twice, `WidgetSettles`, `NoPhantomSession`, `EveryClickIsAnswered`):
the prover handles neither ENABLED nor fairness. Every invariant and every
action property that a passing run checks is a theorem.

## 6. Not modelled

* Formats, wording, logging, layout, drawing; keys and privileges of windows.
* **Wire protocol v3.** `ValidRequest`, `ValidReply` and `ParseReply` are
  straight-line tests of one buffer, without state or order; the repository's
  unit tests reach all of it. The models take only well-formed frames.
* The values shown by the panel (network quality, idle time, host name).
* `BuildReconnectPlan`'s command line: that it may fail is modelled as the click
  not starting anything; its text is not.
* The effect of a refused fullscreen toggle on the frame as the user sees it
  (C 2091-2111 may restore an iconic frame and then refuse).
* `WorkQueue::Start`: it is called once per load of the host mod, whose
  initialization fails with it.
* The tray's `SizeChanged` handler that is subscribed and whose token is lost
  because the instance has been erased meanwhile (H 1804-1817): `bound` follows
  the handlers whose token was stored.
* The DVC probe (retired), packaging, diagnostics and regression probes.

## 7. Disagreements between the code and what is said of it

Two are shown by runs in which TLC finds the statement violated.

| Run | What happens | Statement |
|---|---|---|
| `host_one_action` | a refused action clears its latch twice; a click in between loses its latch, and two actions are in progress | H 1359 "Another client action is in progress" |
| `reconnect_killed` | the force thread terminates the process whose frame thread holds the launch guard but has launched nothing | C 2867-2868 "launch the replacement here and TerminateProcess this client" |

Three more were met while modelling and have no run of their own:

* C 2150: a clock reading older than the last tick wraps the unsigned
  difference, so two ticks may both write, against C 2152 "exactly one of them
  wins the write". The interleaving is in `StatusPublisher` (`Tick`, `LoadLast`,
  `CompareExchange`), whose properties hold in spite of it.
* C 4718: the unload shows the hidden bar by a synchronous `ShowWindow` on
  mstsc's thread, which has no timeout; C 4697-4698 says that for a hung frame
  thread a bounded send is used. `UnloadReturns` of `ClientMod` therefore
  assumes that mstsc's thread goes on, and `ThreadsEnd` of `Reconnect` excepts it.
* H 850-853: when a later instance has ended by itself the restart stops with an
  earlier one terminated and starts none, against H 837 "every verified match is
  terminated, and exactly one replacement follows".

Some properties are stated no stronger than the code keeps them:

* `ObservedIsLater`: the end of a fullscreen session may count as the outcome of
  a toggle, because `ObserveHostAction` compares `fullscreen` only (H 1313).
* `ActiveIsNoOlderThanItsTick`: a tick that sampled the frame before
  `WM_DESTROY` may replace the forced "session gone" record (C 2198).
* `NoCloseRelaunches`: a plain Disconnect does not call off a force reconnect that
  was clicked before it. Clicked before the force thread has parked its plan it
  drops nothing (C 2900); clicked later it drops the parked plan, and the force
  thread still launches its own copy when the frame outlasts the grace period
  (C 2927-2928), then terminates the process. C 1474-1475 speaks of a later close
  only, and that is what the property says.
* `ThreadsEnd`: with the frame hung for good the unload does not end while a
  thread it joins is in a `ShowWindow` of that frame (C 1521, 1536, 2098), nor when
  it comes to its own (C 4718).
* `StuckKeysAreNotDenied`: keys may stay down when the cleanup of a partial chord is
  itself cut short (C 2084-2085). The property says that such a click is never
  passed off as refused or done, not that no key is left.
* `EveryHangIsAlerted`: a dismissal survives the detection being switched off
  over the end of one hang and the start of the next (C 3219).
* `ServerOutlivesItsObjects`: an object whose activation was under way when the
  last one was released is excepted (`late`); COM tells its client to try again.
* `UnloadLeavesNothing` of `ClientMod`: a `CreateWindowExW` hook that is between
  its tests and the subclassing when the unload reads the windows is excepted
  (`overlooked`); nothing in the mod waits for it (C 4323-4360).
* `SecretIsStable`: a process whose wait of 5 s has ended goes on without the
  mutex (C 985) and may replace the secret.

## 8. Plan

Done: the components of section 1 but the wire protocol, and a theorem for every
safety property that is checked. What would be worth adding is a second mstsc
beside the first in `LocalPanel`, once the run has room.
