----------------------------- MODULE HostActions -----------------------------
(***************************************************************************)
(* The host side of an action, inside one explorer process: the XAML       *)
(* thread that takes clicks, the WTS thread whose timer polls the client   *)
(* state, and the single worker of rdpstk::WorkQueue, which share three    *)
(* latches, the queue, the client view and the record of the action whose  *)
(* outcome is awaited.  Each atomic access and each critical section is a  *)
(* step of its own.  The unload of the mod runs beside them.               *)
(*                                                                         *)
(* The relay and the client (BoundRelay) appear as an answer: unknown, or  *)
(* a snapshot the client published.  Sample ticks are indices in the       *)
(* sequence of published snapshots; clock time is left to actions that may *)
(* happen at any moment (a view expires, an action is overdue).            *)
(***************************************************************************)
EXTENDS Integers, Sequences

CONSTANTS Click,       \* clicks of the user, each with its own identity
          CommandOf,   \* what each click asks for
          Capacity,    \* jobs the queue holds
          Life,        \* client process lifetimes
          MaxTick      \* bound: snapshots published

Commands == {"minimize", "fullscreen", "clipboard"}

ASSUME ClickAssumption ==
  CommandOf \in [Click -> Commands] /\ Click \cap {"poll", "none"} = {}
ASSUME CapacityAssumption == Capacity \in Nat \ {0}

VARIABLES
  busy,        \* g_RelayActionBusy
  polling,     \* g_RelayPollInFlight
  restarting,  \* g_ClipboardRestartBusy
  queue,       \* WorkQueue::jobs_: clicks and "poll"
  stopping,    \* WorkQueue::stopping_
  pc,          \* pc[t]: what thread t does next
  clicked,     \* the click the XAML thread is working on
  job,         \* the job the worker is working on
  reply,       \* the reply the worker has received
  seen,        \* seen[t]: the view ObserveHostAction of t has copied
  view,        \* g_ClientView
  awaited,     \* g_ActionCommand, g_ActionBefore: the action and the view before
  overdue,     \* more than five seconds since g_ActionTick
  published,   \* the snapshots of the client, in the order of their ticks
  target,      \* target[c]: the process the click was bound to
  sentAt,      \* history: the last tick published when the send of c began
  outcome,     \* outcome[c]: what the user has been told of c
  unload       \* progress of Wh_ModUninit

latchVars  == <<busy, polling, restarting>>
queueVars  == <<queue, stopping>>
threadVars == <<clicked, job, reply, seen>>
actionVars == <<awaited, overdue, outcome>>
vars == <<latchVars, queueVars, pc, threadVars, view, actionVars, published,
          target, sentAt, unload>>

-----------------------------------------------------------------------------

NoLife   == 0
States   == {"window", "full", "iconic", "gone"}
Snapshot == [life : Life, state : States]
Views    == [known : BOOLEAN, life : Life \cup {NoLife}, tick : 0..MaxTick,
             state : States]
Replies  == [result : {"Accepted", "Observed", "Failed"}, view : Views]

NoView  == [known |-> FALSE, life |-> NoLife, tick |-> 0, state |-> "gone"]
Nothing == [click |-> "none", before |-> NoView]
Failed  == [result |-> "Failed", view |-> NoView]

Latest == LET n == Len(published) IN
  [known |-> TRUE, life |-> published[n].life, tick |-> n,
   state |-> published[n].state]

IsAction(c) == CommandOf[c] # "clipboard"

(* WindowOutcome: an inactive client is neither iconic nor fullscreen.     *)
WindowOutcome(command, before, after) ==
  \/ command = "minimize" /\ after = "iconic"
  \/ command = "fullscreen" /\ (before = "full") # (after = "full")

Goto(t, place) == pc' = [pc EXCEPT ![t] = place]

-----------------------------------------------------------------------------
(* WorkQueue::Post                                                         *)

\* Mutant: a queue that is never closed.
AcceptsAfterStop == Len(queue) < Capacity

Accepts == ~stopping /\ Len(queue) < Capacity

Post(t, j, done, failed) ==
  IF Accepts THEN queue' = Append(queue, j) /\ Goto(t, done)
             ELSE UNCHANGED queue /\ Goto(t, failed)

-----------------------------------------------------------------------------
(* The XAML thread: SendRelayCommandAsync and RestartRdpClipAsync          *)

ClickAction(c) ==
  /\ pc["xaml"] = "idle" /\ outcome[c] = "none" /\ IsAction(c)
  /\ IF view.known /\ view.state # "gone"
     THEN /\ target' = [target EXCEPT ![c] = view.life]
          /\ clicked' = c
          /\ Goto("xaml", "acquire")
          /\ UNCHANGED outcome
     ELSE /\ outcome' = [outcome EXCEPT ![c] = "unavailable"]
          /\ UNCHANGED <<target, clicked, pc>>
  /\ UNCHANGED <<latchVars, queueVars, job, reply, seen, view, awaited, overdue,
                 published, sentAt, unload>>

ClickClipboard(c) ==
  /\ pc["xaml"] = "idle" /\ outcome[c] = "none" /\ ~IsAction(c)
  /\ clicked' = c
  /\ Goto("xaml", "acquire")
  /\ UNCHANGED <<latchVars, queueVars, job, reply, seen, view, actionVars,
                 published, target, sentAt, unload>>

\* compare_exchange_strong on the latch of the click
AcquireLatch ==
  LET taken == IF IsAction(clicked) THEN busy ELSE restarting IN
  /\ pc["xaml"] = "acquire"
  /\ busy' = (busy \/ IsAction(clicked))
  /\ restarting' = (restarting \/ ~IsAction(clicked))
  /\ outcome' = [outcome EXCEPT ![clicked] = IF taken THEN "turnedAway" ELSE "sending"]
  /\ Goto("xaml", IF taken THEN "idle" ELSE "post")
  /\ clicked' = IF taken THEN "none" ELSE clicked
  /\ UNCHANGED <<polling, queueVars, job, reply, seen, view, awaited, overdue, published,
                 target, sentAt, unload>>

PostClick ==
  /\ pc["xaml"] = "post"
  /\ Post("xaml", clicked, "idle", "release")
  /\ clicked' = IF Accepts THEN "none" ELSE clicked
  /\ UNCHANGED <<latchVars, stopping, job, reply, seen, view, actionVars, published,
                 target, sentAt, unload>>

PostFailed ==
  /\ pc["xaml"] = "release"
  /\ busy' = (busy /\ ~IsAction(clicked))
  /\ restarting' = (restarting /\ IsAction(clicked))
  /\ outcome' = [outcome EXCEPT ![clicked] = "unavailable"]
  /\ Goto("xaml", "idle")
  /\ clicked' = "none"
  /\ UNCHANGED <<polling, queueVars, job, reply, seen, view, awaited, overdue, published,
                 target, sentAt, unload>>

-----------------------------------------------------------------------------
(* ObserveHostAction, called by the timer and by the worker after a poll   *)

AfterObserve(t) == IF t = "timer" THEN "acquire" ELSE "reset"

LoadLatch(t) ==
  /\ pc[t] = "load"
  /\ Goto(t, IF busy THEN "copy" ELSE AfterObserve(t))
  /\ UNCHANGED <<latchVars, queueVars, threadVars, view, actionVars, published,
                 target, sentAt, unload>>

CopyView(t) ==
  /\ pc[t] = "copy"
  /\ seen' = [seen EXCEPT ![t] = view]
  /\ Goto(t, "decide")
  /\ UNCHANGED <<latchVars, queueVars, clicked, job, reply, view, actionVars,
                 published, target, sentAt, unload>>

IsLater(v, before) == v.tick > before.tick

\* Mutant: a snapshot of another process counts.
OutcomeSeenOfAnyone(v) ==
  /\ v.known /\ awaited # Nothing
  /\ IsLater(v, awaited.before)
  /\ WindowOutcome(CommandOf[awaited.click], awaited.before.state, v.state)

OutcomeSeen(v) ==
  /\ v.known /\ v.life = awaited.before.life
  /\ IsLater(v, awaited.before)
  /\ WindowOutcome(CommandOf[awaited.click], awaited.before.state, v.state)

\* Mutant: the deadline counts only while the client state is known.
TimedOutIfKnown == overdue /\ view.known

TimedOut == overdue

\* Mutant: the record is not cleared with the latch.
EndAwaitedKeepsRecord(told) ==
  /\ busy' = FALSE
  /\ outcome' = [outcome EXCEPT ![awaited.click] = told]
  /\ UNCHANGED <<awaited, overdue>>

\* Under g_ActionMutex; the store to the latch and the reset of the record
\* are one step, since the next record is made under the same mutex.
EndAwaited(told) ==
  /\ busy' = FALSE
  /\ awaited' = Nothing /\ overdue' = FALSE
  /\ outcome' = [outcome EXCEPT ![awaited.click] = told]

DecideOutcome(t) ==
  /\ pc[t] = "decide"
  /\ \/ /\ awaited # Nothing
        /\ OutcomeSeen(seen[t])
        /\ EndAwaited("observed")
     \/ /\ awaited # Nothing
        /\ ~OutcomeSeen(seen[t]) /\ TimedOut
        /\ EndAwaited("unknown")
     \/ /\ awaited = Nothing \/ (~OutcomeSeen(seen[t]) /\ ~TimedOut)
        /\ UNCHANGED <<busy, awaited, overdue, outcome>>
  /\ seen' = [seen EXCEPT ![t] = NoView]
  /\ Goto(t, AfterObserve(t))
  /\ UNCHANGED <<polling, restarting, queueVars, clicked, job, reply, view,
                 published, target, sentAt, unload>>

-----------------------------------------------------------------------------
(* The WTS thread: PollClientStateAsync on every timer message             *)

\* A posted WM_QUIT is retrieved before any further WM_TIMER.
TimerFires ==
  /\ pc["timer"] = "idle"
  /\ unload = "loaded"
  /\ Goto("timer", "load")
  /\ UNCHANGED <<latchVars, queueVars, threadVars, view, actionVars, published,
                 target, sentAt, unload>>

\* Not in an RDP session, or a poll is under way: nothing to do.
AcquirePoll ==
  /\ pc["timer"] = "acquire"
  /\ \/ Goto("timer", "idle") /\ UNCHANGED polling
     \/ ~polling /\ polling' = TRUE /\ Goto("timer", "post")
  /\ UNCHANGED <<busy, restarting, queueVars, threadVars, view, actionVars,
                 published, target, sentAt, unload>>

PostPoll ==
  /\ pc["timer"] = "post"
  /\ Post("timer", "poll", "idle", "release")
  /\ UNCHANGED <<latchVars, stopping, threadVars, view, actionVars, published,
                 target, sentAt, unload>>

\* Mutant: the latch is left set when the queue is full.
PollRefusedKeepsLatch ==
  /\ pc["timer"] = "release"
  /\ Goto("timer", "idle")
  /\ UNCHANGED <<latchVars, queueVars, threadVars, view, actionVars, published,
                 target, sentAt, unload>>

PollRefused ==
  /\ pc["timer"] = "release"
  /\ polling' = FALSE
  /\ Goto("timer", "idle")
  /\ UNCHANGED <<busy, restarting, queueVars, threadVars, view, actionVars,
                 published, target, sentAt, unload>>

-----------------------------------------------------------------------------
(* The worker                                                              *)

TakeJob ==
  /\ pc["worker"] = "idle"
  /\ ~stopping /\ queue # <<>>
  /\ job' = Head(queue)
  /\ queue' = Tail(queue)
  /\ sentAt' = [c \in Click |-> IF c = Head(queue) THEN Len(published) ELSE sentAt[c]]
  /\ Goto("worker", "run")
  /\ UNCHANGED <<latchVars, stopping, clicked, reply, seen, view, actionVars,
                 published, target, unload>>

\* RunRelayRequest: the relay reads the last snapshot before it forwards the
\* command, and answers for the bound process only.
RunRelayRequest ==
  /\ pc["worker"] = "run"
  /\ \/ reply' = Failed
     \/ job = "poll" /\ reply' = [result |-> "Observed", view |-> Latest]
     \/ /\ job # "poll" /\ Latest.life = target[job] /\ Latest.state # "gone"
        /\ \E result \in {"Accepted", "Observed"} :
             reply' = [result |-> result, view |-> Latest]
  /\ job \in Click => IsAction(job)
  /\ Goto("worker", "apply")
  /\ UNCHANGED <<latchVars, queueVars, clicked, job, seen, view, actionVars,
                 published, target, sentAt, unload>>

ApplyRelayReply ==
  /\ pc["worker"] = "apply"
  /\ view' = reply.view
  /\ Goto("worker", IF job = "poll" THEN "load"
                    ELSE IF reply.result = "Accepted" THEN "record" ELSE "clear")
  /\ UNCHANGED <<latchVars, queueVars, threadVars, actionVars, published, target,
                 sentAt, unload>>

\* Under g_ActionMutex
RecordAction ==
  /\ pc["worker"] = "record"
  /\ awaited' = [click |-> job, before |-> view]
  /\ overdue' = FALSE
  /\ outcome' = [outcome EXCEPT ![job] = "accepted"]
  /\ Goto("worker", "reset")
  /\ UNCHANGED <<latchVars, queueVars, threadVars, view, published, target, sentAt,
                 unload>>

\* The explicit store; the notice with the result follows it.
ClearLatch ==
  /\ pc["worker"] = "clear"
  /\ busy' = FALSE
  /\ outcome' = [outcome EXCEPT ![job] = "ended"]
  /\ Goto("worker", "reset")
  /\ UNCHANGED <<polling, restarting, queueVars, threadVars, view, awaited, overdue,
                 published, target, sentAt, unload>>

\* The destructor of Reset, when the job function returns
ResetLatch ==
  /\ pc["worker"] = "reset"
  /\ busy' = (busy /\ (job = "poll" \/ reply.result = "Accepted"))
  /\ polling' = (polling /\ job # "poll")
  /\ job' = "none"
  /\ reply' = Failed
  /\ Goto("worker", "idle")
  /\ UNCHANGED <<restarting, queueVars, clicked, seen, view, actionVars, published,
                 target, sentAt, unload>>

RestartRdpClip ==
  /\ pc["worker"] = "run"
  /\ job \in Click /\ ~IsAction(job)
  /\ restarting' = FALSE
  /\ outcome' = [outcome EXCEPT ![job] = "ended"]
  /\ job' = "none"
  /\ Goto("worker", "idle")
  /\ UNCHANGED <<busy, polling, queueVars, clicked, reply, seen, view, awaited,
                 overdue, published, target, sentAt, unload>>

-----------------------------------------------------------------------------
(* Time and the client                                                     *)

ViewExpires ==
  /\ view.known
  /\ view' = [known |-> FALSE, life |-> view.life, tick |-> view.tick,
              state |-> view.state]
  /\ UNCHANGED <<latchVars, queueVars, pc, threadVars, actionVars, published,
                 target, sentAt, unload>>

ActionOverdue ==
  /\ awaited # Nothing /\ ~overdue
  /\ overdue' = TRUE
  /\ UNCHANGED <<latchVars, queueVars, pc, threadVars, view, awaited, outcome,
                 published, target, sentAt, unload>>

\* A restarted client publishes under a lifetime of its own.
ClientPublishes ==
  /\ Len(published) < MaxTick
  /\ \E s \in Snapshot :
       /\ s.life >= Latest.life
       /\ published' = Append(published, s)
  /\ UNCHANGED <<latchVars, queueVars, pc, threadVars, view, actionVars, target,
                 sentAt, unload>>

-----------------------------------------------------------------------------
(* Wh_ModUninit: the WTS thread is joined first, then the worker           *)

BeginUnload ==
  /\ unload = "loaded"
  /\ unload' = "timer"
  /\ UNCHANGED <<latchVars, queueVars, pc, threadVars, view, actionVars, published,
                 target, sentAt>>

TimerQuits ==
  /\ unload = "timer"
  /\ pc["timer"] = "idle"
  /\ Goto("timer", "exited")
  /\ unload' = "queue"
  /\ UNCHANGED <<latchVars, queueVars, threadVars, view, actionVars, published,
                 target, sentAt>>

\* Mutant: the queue is emptied but not closed.
StopQueueOpen ==
  /\ unload = "queue"
  /\ queue' = <<>>
  /\ unload' = "join"
  /\ UNCHANGED <<latchVars, stopping, pc, threadVars, view, actionVars, published,
                 target, sentAt>>

StopQueue ==
  /\ unload = "queue"
  /\ stopping' = TRUE
  /\ queue' = <<>>
  /\ unload' = "join"
  /\ UNCHANGED <<latchVars, pc, threadVars, view, actionVars, published, target,
                 sentAt>>

WorkerQuits ==
  /\ pc["worker"] = "idle" /\ stopping
  /\ Goto("worker", "exited")
  /\ unload' = "done"
  /\ UNCHANGED <<latchVars, queueVars, threadVars, view, actionVars, published,
                 target, sentAt>>

-----------------------------------------------------------------------------

Init ==
  /\ busy = FALSE /\ polling = FALSE /\ restarting = FALSE
  /\ queue = <<>> /\ stopping = FALSE
  /\ pc = [t \in {"xaml", "timer", "worker"} |-> "idle"]
  /\ clicked = "none" /\ job = "none" /\ reply = Failed
  /\ seen = [t \in {"timer", "worker"} |-> NoView]
  /\ view = NoView
  /\ awaited = Nothing /\ overdue = FALSE
  /\ published \in {<<s>> : s \in {x \in Snapshot : \A l \in Life : x.life <= l}}
  /\ target = [c \in Click |-> NoLife]
  /\ sentAt = [c \in Click |-> 0]
  /\ outcome = [c \in Click |-> "none"]
  /\ unload = "loaded"

Xaml == AcquireLatch \/ PostClick \/ PostFailed
Observe(t) == LoadLatch(t) \/ CopyView(t) \/ DecideOutcome(t)
Timer == AcquirePoll \/ PostPoll \/ PollRefused \/ Observe("timer")
Worker ==
  \/ TakeJob \/ RunRelayRequest \/ ApplyRelayReply \/ RecordAction \/ ClearLatch
  \/ ResetLatch \/ RestartRdpClip \/ Observe("worker")
Unload == TimerQuits \/ StopQueue \/ WorkerQuits

Next ==
  \/ \E c \in Click : ClickAction(c) \/ ClickClipboard(c)
  \/ Xaml \/ TimerFires \/ Timer \/ Worker
  \/ ViewExpires \/ ActionOverdue \/ ClientPublishes
  \/ BeginUnload \/ Unload

Spec == Init /\ [][Next]_vars

-----------------------------------------------------------------------------
(* Properties                                                              *)

Occurs(S) ==
  LET inQueue == {i \in DOMAIN queue : queue[i] \in S}
      xaml    == clicked \in S /\ pc["xaml"] \in {"post", "release"}
      timer   == "poll" \in S /\ pc["timer"] \in {"post", "release"}
  IN  inQueue \cup {-n : n \in {m \in 1..3 : \/ m = 1 /\ xaml
                                             \/ m = 2 /\ timer
                                             \/ m = 3 /\ job \in S}}

Clipboards == {c \in Click : ~IsAction(c)}

(* The latches of the poll and of the clipboard restart are exact: while   *)
(* one is clear none of its work is posted, queued or running, and while   *)
(* it is set exactly one is (none, once Stop has discarded the queue).  So *)
(* polls cannot pile up behind a slow relay, no rdpclip restart runs twice *)
(* for one latch, and no latch is left set by a job that has ended.        *)
LatchesAreExact ==
  \A latch \in {<<polling, Occurs({"poll"})>>, <<restarting, Occurs(Clipboards)>>} :
    /\ ~latch[1] => latch[2] = {}
    /\ \A i, j \in latch[2] : i = j
    /\ (latch[1] /\ ~stopping) => latch[2] # {}

(* "Requested client window state observed" is said of an action only if   *)
(* its bound process published, after the send had begun, a snapshot that  *)
(* differs in the requested way from one it published before.  The copy of *)
(* the view that is compared may be older than the record it is compared   *)
(* with, and may have been taken for another action.                       *)
ObservedIsLater ==
  \A c \in Click :
    outcome[c] = "observed" =>
      \E t, s \in DOMAIN published :
        /\ s >= sentAt[c] /\ t > s
        /\ published[s].life = target[c] /\ published[t].life = target[c]
        /\ WindowOutcome(CommandOf[c], published[s].state, published[t].state)

(* What the user is told of a click last is told once: no result of one    *)
(* click is ever replaced by that of a later observation.                  *)
Final == {"turnedAway", "unavailable", "ended", "observed", "unknown"}

ToldOnce ==
  [][\A c \in Click : outcome[c] \in Final => outcome'[c] = outcome[c]]_vars

(* Once Wh_ModUninit has joined the worker, none of the queue is left to   *)
(* run and both threads are gone, although the XAML thread may be inside   *)
(* a click all the while.                                                  *)
QuietAfterUnload ==
  unload = "done" =>
    queue = <<>> /\ pc["timer"] = "exited" /\ pc["worker"] = "exited"

(* "Another client action is in progress": from the latch to the outcome,  *)
(* there is at most one action.                                            *)
InProgress(c) == IsAction(c) /\ outcome[c] \in {"sending", "accepted"}

OneActionInProgress ==
  \A c, d \in Click : InProgress(c) /\ InProgress(d) => c = d

(* The threads run; timer messages keep coming; five seconds pass.         *)
Fairness ==
  /\ WF_vars(Xaml) /\ WF_vars(TimerFires) /\ WF_vars(Timer) /\ WF_vars(Worker)
  /\ WF_vars(ActionOverdue) /\ WF_vars(Unload)

FairSpec == Spec /\ Fairness

(* The action latch is always released while the mod stays loaded, even if *)
(* no state change is ever observed: the buttons cannot stay dead.         *)
(* And polls keep being made: their latch never stays set for ever.        *)
LatchesAreReleased ==
  /\ busy ~> (~busy \/ unload # "loaded")
  /\ polling ~> (~polling \/ unload # "loaded")

(* Unloading ends, whatever the worker is doing when it begins.            *)
UnloadEnds == unload = "timer" ~> unload = "done"
=============================================================================
