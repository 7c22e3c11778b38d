-------------------------- MODULE HostActionsProofs --------------------------
(* Proofs about HostActions, for any number of clicks, any capacity of the *)
(* queue and any behaviour of the client.                                  *)
EXTENDS HostActions, TLAPS

Thread == {"xaml", "timer", "worker"}

Place ==
  {"idle", "acquire", "post", "release", "load", "copy", "decide", "run", "apply",
   "record", "clear", "reset", "exited"}

Typed == pc \in [Thread -> Place] /\ stopping \in BOOLEAN

-----------------------------------------------------------------------------
(* The unload                                                              *)

\* The threads leave in the order of the joins; a queue that is closed stays
\* empty.
QuietInv ==
  /\ stopping = TRUE => unload \in {"join", "done"} /\ queue = <<>>
  /\ unload \in {"join", "done"} => stopping = TRUE
  /\ unload \in {"queue", "join", "done"} => pc["timer"] = "exited"
  /\ unload = "done" => pc["worker"] = "exited"

Quiet == Typed /\ QuietInv

LEMMA TypedInit == Init => Typed
<1>1. Init => pc = [t \in Thread |-> "idle"] /\ stopping = FALSE
  BY DEF Init, Thread
<1> QED
  BY <1>1 DEF Typed, Place

LEMMA QuietInit == Init => Quiet
<1>1. Init => unload = "loaded" /\ stopping = FALSE
  BY DEF Init
<1> QED
  BY <1>1, TypedInit DEF Quiet, QuietInv

LEMMA QuietNext == Quiet /\ [Next]_vars => Quiet'
<1> SUFFICES ASSUME Quiet, [Next]_vars PROVE Quiet'
  OBVIOUS
<1> USE DEF Quiet, Typed, QuietInv, Thread, Place, Goto, latchVars, queueVars, threadVars, actionVars
<1>1. ASSUME NEW c \in Click, ClickAction(c) PROVE Quiet'
  BY <1>1 DEF ClickAction
<1>2. ASSUME NEW c \in Click, ClickClipboard(c) PROVE Quiet'
  BY <1>2 DEF ClickClipboard
<1>3. CASE AcquireLatch
  BY <1>3 DEF AcquireLatch
<1>4. CASE PostClick
  BY <1>4 DEF PostClick, Post, Accepts
<1>5. CASE PostFailed
  BY <1>5 DEF PostFailed
<1>6. ASSUME NEW t \in {"timer", "worker"}, Observe(t) PROVE Quiet'
  BY <1>6 DEF Observe, LoadLatch, CopyView, DecideOutcome, AfterObserve
<1>7. CASE TimerFires
  BY <1>7 DEF TimerFires
<1>8. CASE AcquirePoll
  BY <1>8 DEF AcquirePoll
<1>9. CASE PostPoll
  BY <1>9 DEF PostPoll, Post, Accepts
<1>10. CASE PollRefused
  BY <1>10 DEF PollRefused
<1>11. CASE TakeJob
  BY <1>11 DEF TakeJob
<1>12. CASE RunRelayRequest
  BY <1>12 DEF RunRelayRequest
<1>13. CASE ApplyRelayReply
  BY <1>13 DEF ApplyRelayReply
<1>14. CASE RecordAction \/ ClearLatch
  BY <1>14 DEF RecordAction, ClearLatch
<1>15. CASE ResetLatch
  BY <1>15 DEF ResetLatch
<1>16. CASE RestartRdpClip
  BY <1>16 DEF RestartRdpClip
<1>17. CASE ViewExpires \/ ActionOverdue
  BY <1>17 DEF ViewExpires, ActionOverdue
<1>18. CASE ClientPublishes
  BY <1>18 DEF ClientPublishes
<1>19. CASE BeginUnload \/ TimerQuits \/ StopQueue \/ WorkerQuits
  BY <1>19 DEF BeginUnload, TimerQuits, StopQueue, WorkerQuits
<1>20. CASE UNCHANGED vars
  BY <1>20 DEF vars
<1> HIDE DEF Quiet
<1>21. CASE Xaml
  BY <1>3, <1>4, <1>5, <1>21 DEF Xaml
<1>22. CASE Timer
  BY <1>6, <1>8, <1>9, <1>10, <1>22 DEF Timer
<1>23. CASE Worker
  BY <1>6, <1>11, <1>12, <1>13, <1>14, <1>15, <1>16, <1>23 DEF Worker
<1> QED
  BY <1>1, <1>2, <1>7, <1>17, <1>18, <1>19, <1>20, <1>21, <1>22, <1>23 DEF Next, Unload

(* Once Wh_ModUninit has joined the threads, nothing is left to run and    *)
(* the XAML thread, which may be inside a click, can post nothing more.    *)
THEOREM QuietCorrect == Spec => []QuietAfterUnload
<1>1. Quiet => QuietAfterUnload
  <2> SUFFICES ASSUME Quiet, unload = "done"
               PROVE  queue = <<>> /\ pc["timer"] = "exited" /\ pc["worker"] = "exited"
    BY DEF QuietAfterUnload
  <2> QED
    BY DEF Quiet, QuietInv
<1> QED
  BY <1>1, QuietInit, QuietNext, PTL DEF Spec

-----------------------------------------------------------------------------
(* What the user is told                                                   *)

Jobs     == Click \cup {"poll"}
Outcomes == {"none", "turnedAway", "unavailable", "sending", "ended", "accepted",
             "observed", "unknown"}

Clicking == pc["xaml"] \in {"post", "release"}
Working  == pc["worker"] \in {"run", "apply", "record", "clear"}

\* A click is in one place at a time: with the XAML thread, in the queue, with
\* the worker, or recorded as the action that is awaited.
SentInv ==
  /\ outcome \in [Click -> Outcomes] /\ queue \in Seq(Jobs)
  /\ pc["xaml"] # "idle" => clicked \in Click
  /\ pc["xaml"] = "acquire" => outcome[clicked] = "none"
  /\ Clicking => outcome[clicked] = "sending"
  /\ Working => job \in Jobs /\ (job \in Click => outcome[job] = "sending")
  /\ pc["worker"] \in {"record", "clear"} => job \in Click
  /\ awaited # Nothing => awaited.click \in Click /\ outcome[awaited.click] = "accepted"

PlaceInv ==
  /\ \A i \in DOMAIN queue : queue[i] \in Click =>
       /\ outcome[queue[i]] = "sending"
       /\ Clicking => clicked # queue[i]
       /\ Working => job # queue[i]
       /\ \A j \in DOMAIN queue : queue[i] = queue[j] => i = j
  /\ Clicking /\ Working => clicked # job

Told == Typed /\ SentInv /\ PlaceInv

Appends(q, s, j) ==
  /\ q \in Seq(Jobs)
  /\ \A i \in DOMAIN q :
       \/ i \in DOMAIN s /\ q[i] = s[i]
       \/ i = Len(s) + 1 /\ q[i] = j

LEMMA AppendFacts ==
  ASSUME NEW s \in Seq(Jobs), NEW j \in Jobs
  PROVE  Appends(Append(s, j), s, j)
BY DEF Appends

LEMMA ToldInit == Init => Told
<1>1. Init => /\ pc["xaml"] = "idle" /\ pc["worker"] = "idle" /\ queue = <<>>
              /\ outcome = [c \in Click |-> "none"] /\ awaited = Nothing
  BY DEF Init
<1>2. Init => SentInv
  BY <1>1 DEF SentInv, Clicking, Working, Outcomes
<1>3. Init => PlaceInv
  BY <1>1 DEF PlaceInv, Clicking, Working
<1> QED
  BY <1>2, <1>3, TypedInit DEF Told

LEMMA ToldNext ==
  Told /\ [Next]_vars =>
    Told' /\ \A c \in Click : outcome[c] \in Final => outcome'[c] = outcome[c]
<1> DEFINE Kept == \A c \in Click : outcome[c] \in Final => outcome'[c] = outcome[c]
<1> SUFFICES ASSUME Told, [Next]_vars PROVE Told' /\ Kept
  OBVIOUS
<1> USE ClickAssumption
    DEF Told, Typed, Thread, Place, SentInv, PlaceInv, Jobs, Outcomes, Final, Clicking, Working,
        Goto, latchVars, queueVars, threadVars, actionVars
<1>1. ASSUME NEW c \in Click, ClickAction(c) PROVE Told' /\ Kept
  BY <1>1 DEF ClickAction
<1>2. ASSUME NEW c \in Click, ClickClipboard(c) PROVE Told' /\ Kept
  BY <1>2 DEF ClickClipboard
<1>3. CASE AcquireLatch
  BY <1>3 DEF AcquireLatch
<1>4. CASE PostClick
  <2>1. CASE queue' = Append(queue, clicked) /\ Accepts
    <3>1. clicked \in Jobs
      BY <1>4 DEF PostClick
    <3>2. Appends(queue', queue, clicked)
      <4>1. queue \in Seq(Jobs)
        OBVIOUS
      <4> HIDE DEF Told, Typed, SentInv, PlaceInv, Jobs
      <4> QED
        BY <2>1, <3>1, <4>1, AppendFacts
    <3>3. /\ pc' = [pc EXCEPT !["xaml"] = "idle"]
          /\ UNCHANGED <<outcome, awaited, job, stopping>>
      BY <1>4, <2>1 DEF PostClick, Post
    <3>4. Typed' /\ SentInv' /\ Kept
      BY <3>2, <3>3 DEF Appends
    <3>5. PlaceInv'
      BY <1>4, <3>2, <3>3 DEF PostClick, Appends
    <3> QED
      BY <3>4, <3>5
  <2>2. CASE UNCHANGED queue /\ ~Accepts
    BY <1>4, <2>2 DEF PostClick, Post
  <2> QED
    BY <1>4, <2>1, <2>2 DEF PostClick, Post
<1>5. CASE PostFailed
  BY <1>5 DEF PostFailed
<1>6. ASSUME NEW t \in {"timer", "worker"}, Observe(t) PROVE Told' /\ Kept
  <2>1. CASE LoadLatch(t)
    BY <1>6, <2>1 DEF LoadLatch, AfterObserve
  <2>2. CASE CopyView(t)
    BY <1>6, <2>2 DEF CopyView
  <2>3. CASE DecideOutcome(t)
    <3>1. CASE UNCHANGED <<awaited, outcome>>
      BY <1>6, <2>3, <3>1 DEF DecideOutcome, AfterObserve
    <3>2. CASE awaited # Nothing /\ \E told \in Final : EndAwaited(told)
      BY <1>6, <2>3, <3>2 DEF DecideOutcome, AfterObserve, EndAwaited
    <3> QED
      BY <2>3, <3>1, <3>2 DEF DecideOutcome
  <2> QED
    BY <1>6, <2>1, <2>2, <2>3 DEF Observe
<1>7. CASE TimerFires
  BY <1>7 DEF TimerFires
<1>8. CASE AcquirePoll
  BY <1>8 DEF AcquirePoll
<1>9. CASE PostPoll
  <2>1. CASE queue' = Append(queue, "poll") /\ Accepts
    <3>1. Appends(queue', queue, "poll")
      <4>1. queue \in Seq(Jobs) /\ "poll" \in Jobs
        OBVIOUS
      <4> HIDE DEF Told, Typed, SentInv, PlaceInv, Jobs
      <4> QED
        BY <2>1, <4>1, AppendFacts
    <3>2. /\ pc' = [pc EXCEPT !["timer"] = "idle"]
          /\ UNCHANGED <<outcome, awaited, job, clicked, stopping>>
      BY <1>9, <2>1 DEF PostPoll, Post
    <3>3. Typed' /\ SentInv' /\ Kept
      BY <3>1, <3>2 DEF Appends
    <3>4. PlaceInv'
      BY <3>1, <3>2 DEF Appends
    <3> QED
      BY <3>3, <3>4
  <2>2. CASE UNCHANGED queue /\ ~Accepts
    BY <1>9, <2>2 DEF PostPoll, Post
  <2> QED
    BY <1>9, <2>1, <2>2 DEF PostPoll, Post
<1>10. CASE PollRefused
  BY <1>10 DEF PollRefused
<1>11. CASE TakeJob
  BY <1>11 DEF TakeJob
<1>12. CASE RunRelayRequest
  BY <1>12 DEF RunRelayRequest
<1>13. CASE ApplyRelayReply
  BY <1>13 DEF ApplyRelayReply
<1>14. CASE RecordAction
  BY <1>14 DEF RecordAction
<1>15. CASE ClearLatch
  BY <1>15 DEF ClearLatch
<1>16. CASE ResetLatch
  BY <1>16 DEF ResetLatch
<1>17. CASE RestartRdpClip
  BY <1>17 DEF RestartRdpClip
<1>18. CASE ViewExpires \/ ActionOverdue
  BY <1>18 DEF ViewExpires, ActionOverdue
<1>19. CASE ClientPublishes
  BY <1>19 DEF ClientPublishes
<1>20. CASE BeginUnload \/ TimerQuits \/ WorkerQuits
  BY <1>20 DEF BeginUnload, TimerQuits, WorkerQuits
<1>21. CASE StopQueue
  BY <1>21 DEF StopQueue
<1>22. CASE UNCHANGED vars
  BY <1>22 DEF vars
<1> HIDE DEF Told, Kept
<1>23. CASE Xaml
  BY <1>3, <1>4, <1>5, <1>23 DEF Xaml
<1>24. CASE Timer
  BY <1>6, <1>8, <1>9, <1>10, <1>24 DEF Timer
<1>25. CASE Worker
  BY <1>6, <1>11, <1>12, <1>13, <1>14, <1>15, <1>16, <1>17, <1>25 DEF Worker
<1> QED
  BY <1>1, <1>2, <1>7, <1>18, <1>19, <1>20, <1>21, <1>22, <1>23, <1>24, <1>25
     DEF Next, Unload

(* The last thing told of a click stays: no later reply, observation or    *)
(* timeout, of this or of another click, replaces it.                      *)
THEOREM ToldCorrect == Spec => ToldOnce
BY ToldInit, ToldNext, PTL DEF Spec, ToldOnce

-----------------------------------------------------------------------------
(* The latches of the polls and of the clipboard restart                   *)

InQueue(S) == \E i \in DOMAIN queue : queue[i] \in S

\* The work of a latch, S, is held by a thread that posts it, waits in the
\* queue, or is what the worker works on; it is in one of these places, once.
OnePlace(latch, posting, S) ==
  /\ latch = FALSE => posting = FALSE /\ job \notin S /\ ~InQueue(S)
  /\ posting = TRUE => job \notin S /\ ~InQueue(S)
  /\ job \in S => ~InQueue(S)
  /\ \A i, j \in DOMAIN queue : queue[i] \in S /\ queue[j] \in S => i = j
  /\ latch = TRUE /\ stopping = FALSE => posting = TRUE \/ job \in S \/ InQueue(S)

PollPosting == pc["timer"] \in {"post", "release"}
ClipPosting == Clicking /\ clicked \in Clipboards

PollInv == OnePlace(polling, PollPosting, {"poll"})
ClipInv == OnePlace(restarting, ClipPosting, Clipboards)

WorkerInv ==
  /\ polling \in BOOLEAN /\ restarting \in BOOLEAN
  /\ job \in Jobs \cup {"none"}
  /\ pc["worker"] \in {"idle", "exited"} => job = "none"
  /\ job \in Clipboards => pc["worker"] = "run"

Exact == Told /\ WorkerInv /\ PollInv /\ ClipInv

Unique(q, S) == \A i, j \in DOMAIN q : q[i] \in S /\ q[j] \in S => i = j
Holds(q, S)  == \E i \in DOMAIN q : q[i] \in S

LEMMA TailFacts ==
  ASSUME NEW q \in Seq(Jobs), q # <<>>, NEW S
  PROVE  /\ Holds(q, S) <=> Head(q) \in S \/ Holds(Tail(q), S)
         /\ Unique(q, S) => Unique(Tail(q), S)
         /\ Unique(q, S) /\ Head(q) \in S => ~Holds(Tail(q), S)
<1>1. /\ DOMAIN q = 1..Len(q) /\ DOMAIN Tail(q) = 1..(Len(q) - 1)
      /\ Len(q) \in Nat \ {0} /\ Head(q) = q[1]
      /\ \A i \in DOMAIN Tail(q) : Tail(q)[i] = q[i + 1]
  OBVIOUS
<1>2. \A i \in DOMAIN Tail(q) : i + 1 \in DOMAIN q /\ i + 1 # 1 /\ Tail(q)[i] = q[i + 1]
  BY <1>1
<1>3. \A i, j \in DOMAIN Tail(q) : i + 1 = j + 1 => i = j
  BY <1>1
<1>4. 1 \in DOMAIN q
  BY <1>1
<1>5. \A i \in DOMAIN q : i = 1 \/ (i - 1 \in DOMAIN Tail(q) /\ Tail(q)[i - 1] = q[i])
  BY <1>1
<1>6. Holds(q, S) <=> Head(q) \in S \/ Holds(Tail(q), S)
  BY <1>1, <1>2, <1>4, <1>5 DEF Holds
<1>7. Unique(q, S) => Unique(Tail(q), S)
  BY <1>2, <1>3 DEF Unique
<1>8. Unique(q, S) /\ Head(q) \in S => ~Holds(Tail(q), S)
  BY <1>1, <1>2, <1>4 DEF Unique, Holds
<1> QED
  BY <1>6, <1>7, <1>8

LEMMA ExactInit == Init => Exact
<1>1. Init => /\ pc["xaml"] = "idle" /\ pc["timer"] = "idle" /\ pc["worker"] = "idle"
              /\ queue = <<>> /\ job = "none" /\ polling = FALSE /\ restarting = FALSE
  BY DEF Init
<1>2. Init => WorkerInv
  BY <1>1, ClickAssumption DEF WorkerInv, Clipboards
<1>3. Init => PollInv
  BY <1>1 DEF PollInv, OnePlace, PollPosting, InQueue
<1>4. Init => ClipInv
  BY <1>1, ClickAssumption DEF ClipInv, OnePlace, ClipPosting, Clicking, InQueue, Clipboards
<1> QED
  BY <1>2, <1>3, <1>4, ToldInit DEF Exact

LEMMA ExactNext == Exact /\ [Next]_vars => Exact'
<1> DEFINE Good == WorkerInv' /\ PollInv' /\ ClipInv'
<1> SUFFICES ASSUME Exact, [Next]_vars, Told' PROVE Good
  BY ToldNext DEF Exact
<1> USE ClickAssumption
    DEF Exact, Told, Typed, Thread, Place, SentInv, Jobs, Clicking, Working, WorkerInv, PollInv,
        ClipInv, OnePlace, PollPosting, ClipPosting, InQueue, Clipboards, IsAction, Goto,
        latchVars, queueVars, threadVars, actionVars
<1>1. ASSUME NEW c \in Click, ClickAction(c) PROVE Good
  BY <1>1 DEF ClickAction
<1>2. ASSUME NEW c \in Click, ClickClipboard(c) PROVE Good
  BY <1>2 DEF ClickClipboard
<1>3. CASE AcquireLatch
  BY <1>3 DEF AcquireLatch
<1>4. CASE PostClick
  <2>1. CASE queue' = Append(queue, clicked) /\ Accepts
    <3>1. clicked \in Jobs
      BY <1>4 DEF PostClick
    <3>2. Appends(queue', queue, clicked)
      <4>1. queue \in Seq(Jobs)
        OBVIOUS
      <4> HIDE DEF Told, Typed, SentInv, PlaceInv, Jobs
      <4> QED
        BY <2>1, <3>1, <4>1, AppendFacts
    <3>3. /\ pc' = [pc EXCEPT !["xaml"] = "idle"] /\ pc["xaml"] = "post"
          /\ UNCHANGED <<polling, restarting, job, stopping>>
      BY <1>4, <2>1 DEF PostClick, Post
    <3>4. /\ DOMAIN queue' = 1..(Len(queue) + 1) /\ DOMAIN queue = 1..Len(queue)
          /\ queue'[Len(queue) + 1] = clicked
      BY <2>1, <3>1
    <3>5. WorkerInv'
      BY <3>3
    <3>6. PollInv'
      BY <3>2, <3>3, <3>4 DEF Appends
    <3>7. ClipInv'
      BY <3>2, <3>3, <3>4 DEF Appends
    <3> QED
      BY <3>5, <3>6, <3>7
  <2>2. CASE UNCHANGED queue /\ ~Accepts
    BY <1>4, <2>2 DEF PostClick, Post
  <2> QED
    BY <1>4, <2>1, <2>2 DEF PostClick, Post
<1>5. CASE PostFailed
  BY <1>5 DEF PostFailed
<1>6. ASSUME NEW t \in {"timer", "worker"}, Observe(t) PROVE Good
  <2>1. CASE LoadLatch(t)
    BY <1>6, <2>1 DEF LoadLatch, AfterObserve
  <2>2. CASE CopyView(t)
    BY <1>6, <2>2 DEF CopyView
  <2>3. CASE DecideOutcome(t)
    <3>1. CASE UNCHANGED <<awaited, outcome>>
      BY <1>6, <2>3, <3>1 DEF DecideOutcome, AfterObserve
    <3>2. CASE awaited # Nothing /\ \E told \in Final : EndAwaited(told)
      BY <1>6, <2>3, <3>2 DEF DecideOutcome, AfterObserve, EndAwaited
    <3> QED
      BY <2>3, <3>1, <3>2 DEF DecideOutcome, Final
  <2> QED
    BY <1>6, <2>1, <2>2, <2>3 DEF Observe
<1>7. CASE TimerFires
  BY <1>7 DEF TimerFires
<1>8. CASE AcquirePoll
  <2>1. CASE pc' = [pc EXCEPT !["timer"] = "idle"] /\ UNCHANGED polling
    BY <1>8, <2>1 DEF AcquirePoll
  <2>2. CASE polling = FALSE /\ polling' = TRUE /\ pc' = [pc EXCEPT !["timer"] = "post"]
    <3>1. UNCHANGED <<queue, job, clicked, restarting, stopping>>
      BY <1>8 DEF AcquirePoll
    <3>2. PollInv'
      BY <2>2, <3>1
    <3>3. ClipInv' /\ WorkerInv'
      BY <2>2, <3>1
    <3> QED
      BY <3>2, <3>3
  <2> QED
    BY <1>8, <2>1, <2>2 DEF AcquirePoll
<1>9. CASE PostPoll
  <2>1. CASE queue' = Append(queue, "poll") /\ Accepts
    <3>1. Appends(queue', queue, "poll")
      <4>1. queue \in Seq(Jobs) /\ "poll" \in Jobs
        OBVIOUS
      <4> HIDE DEF Told, Typed, SentInv, PlaceInv, Jobs
      <4> QED
        BY <2>1, <4>1, AppendFacts
    <3>2. /\ pc' = [pc EXCEPT !["timer"] = "idle"] /\ pc["timer"] = "post"
          /\ UNCHANGED <<polling, restarting, job, clicked, stopping>>
      BY <1>9, <2>1 DEF PostPoll, Post
    <3>3. /\ DOMAIN queue' = 1..(Len(queue) + 1) /\ DOMAIN queue = 1..Len(queue)
          /\ queue'[Len(queue) + 1] = "poll"
      BY <2>1
    <3>4. WorkerInv'
      BY <3>2
    <3>5. PollInv'
      BY <3>1, <3>2, <3>3 DEF Appends
    <3>6. ClipInv'
      BY <3>1, <3>2, <3>3 DEF Appends
    <3> QED
      BY <3>4, <3>5, <3>6
  <2>2. CASE UNCHANGED queue /\ ~Accepts
    BY <1>9, <2>2 DEF PostPoll, Post
  <2> QED
    BY <1>9, <2>1, <2>2 DEF PostPoll, Post
<1>10. CASE PollRefused
  <2>1. /\ polling' = FALSE /\ pc["timer"] = "release" /\ pc' = [pc EXCEPT !["timer"] = "idle"]
        /\ UNCHANGED <<queue, job, clicked, restarting, stopping>>
    BY <1>10 DEF PollRefused
  <2>2. PollInv'
    BY <2>1
  <2>3. ClipInv' /\ WorkerInv'
    BY <2>1
  <2> QED
    BY <2>2, <2>3
<1>11. CASE TakeJob
  <2>1. /\ pc["worker"] = "idle" /\ pc' = [pc EXCEPT !["worker"] = "run"]
        /\ job' = Head(queue) /\ queue' = Tail(queue) /\ queue # <<>>
        /\ UNCHANGED <<polling, restarting, clicked, stopping>>
    BY <1>11 DEF TakeJob
  <2>2. job = "none" /\ queue \in Seq(Jobs) /\ job' \in Jobs
    BY <2>1
  <2>3. WorkerInv'
    BY <2>1, <2>2
  <2>4. ASSUME NEW S PROVE /\ Holds(queue, S) <=> job' \in S \/ Holds(queue', S)
                           /\ Unique(queue, S) => Unique(queue', S)
                           /\ Unique(queue, S) /\ job' \in S => ~Holds(queue', S)
    <3> HIDE DEF Exact, Jobs
    <3> QED
      BY <2>1, <2>2, TailFacts
  <2>5. ClipPosting' = ClipPosting /\ PollPosting' = PollPosting
    BY <2>1
  <2>6. ASSUME NEW S, "none" \notin S, NEW latch, NEW posting, OnePlace(latch, posting, S)
        PROVE  /\ latch = FALSE => posting = FALSE /\ job' \notin S /\ ~Holds(queue', S)
               /\ posting = TRUE => job' \notin S /\ ~Holds(queue', S)
               /\ job' \in S => ~Holds(queue', S)
               /\ Unique(queue', S)
               /\ latch = TRUE /\ stopping = FALSE =>
                    posting = TRUE \/ job' \in S \/ Holds(queue', S)
    <3>1. /\ latch = FALSE => posting = FALSE /\ ~Holds(queue, S)
          /\ posting = TRUE => ~Holds(queue, S)
          /\ Unique(queue, S)
          /\ latch = TRUE /\ stopping = FALSE => posting = TRUE \/ Holds(queue, S)
      BY <2>2, <2>6 DEF Holds, Unique
    <3> HIDE DEF Exact
    <3> QED
      BY <2>4, <3>1
  <2>7. PollInv'
    <3> DEFINE Poll == {"poll"}
    <3>1. "none" \notin Poll /\ OnePlace(polling, PollPosting, Poll)
      OBVIOUS
    <3>2. OnePlace(polling, PollPosting, Poll)' => PollInv'
      OBVIOUS
    <3> HIDE DEF Exact, PollPosting, OnePlace, Poll, PollInv
    <3>3. OnePlace(polling, PollPosting, Poll)'
      BY <2>1, <2>5, <2>6, <3>1 DEF OnePlace, Holds, Unique
    <3> QED
      BY <3>2, <3>3
  <2>8. ClipInv'
    <3>1. "none" \notin Clipboards /\ OnePlace(restarting, ClipPosting, Clipboards)
      OBVIOUS
    <3> HIDE DEF Exact, ClipPosting, Clipboards, OnePlace
    <3> QED
      BY <2>1, <2>5, <2>6, <3>1 DEF OnePlace, Holds, Unique
  <2> QED
    BY <2>3, <2>7, <2>8
<1>12. CASE RunRelayRequest
  BY <1>12 DEF RunRelayRequest
<1>13. CASE ApplyRelayReply
  BY <1>13 DEF ApplyRelayReply
<1>14. CASE RecordAction
  BY <1>14 DEF RecordAction
<1>15. CASE ClearLatch
  BY <1>15 DEF ClearLatch
<1>16. CASE ResetLatch
  BY <1>16 DEF ResetLatch
<1>17. CASE RestartRdpClip
  BY <1>17 DEF RestartRdpClip
<1>18. CASE ViewExpires \/ ActionOverdue
  BY <1>18 DEF ViewExpires, ActionOverdue
<1>19. CASE ClientPublishes
  BY <1>19 DEF ClientPublishes
<1>20. CASE BeginUnload \/ TimerQuits \/ WorkerQuits
  BY <1>20 DEF BeginUnload, TimerQuits, WorkerQuits
<1>21. CASE StopQueue
  BY <1>21 DEF StopQueue
<1>22. CASE UNCHANGED vars
  BY <1>22 DEF vars
<1> HIDE DEF Good, Exact
<1>23. CASE Xaml
  BY <1>3, <1>4, <1>5, <1>23 DEF Xaml
<1>24. CASE Timer
  BY <1>6, <1>8, <1>9, <1>10, <1>24 DEF Timer
<1>25. CASE Worker
  BY <1>6, <1>11, <1>12, <1>13, <1>14, <1>15, <1>16, <1>17, <1>25 DEF Worker
<1> QED
  BY <1>1, <1>2, <1>7, <1>18, <1>19, <1>20, <1>21, <1>22, <1>23, <1>24, <1>25
     DEF Next, Unload

(* While a latch is clear none of its work is posted, queued or running;   *)
(* while it is set exactly one is, or none once the queue is closed.       *)
THEOREM LatchesCorrect == Spec => []LatchesAreExact
<1>1. ASSUME Exact PROVE LatchesAreExact
  <2> DEFINE Copies(latch, places) == /\ ~latch => places = {}
                                      /\ \A i, j \in places : i = j
                                      /\ latch /\ ~stopping => places # {}
  <2>1. queue \in Seq(Jobs) /\ DOMAIN queue = 1..Len(queue) /\ Len(queue) \in Nat
    BY <1>1 DEF Exact, Told, SentInv
  <2>2. \A i \in DOMAIN queue : i > 0
    BY <2>1
  <2>3. "poll" \notin Clipboards
    BY ClickAssumption DEF Clipboards
  <2>4. polling \in BOOLEAN /\ restarting \in BOOLEAN /\ stopping \in BOOLEAN
    BY <1>1 DEF Exact, WorkerInv, Told, Typed
  <2>5. PollInv /\ ClipInv
    BY <1>1 DEF Exact
  <2>6. clicked # "poll" \/ ~Clicking
    BY <1>1, ClickAssumption DEF Exact, Told, SentInv, Clicking
  <2>7. Copies(polling, Occurs({"poll"}))
    BY <2>2, <2>4, <2>5, <2>6
       DEF PollInv, OnePlace, Occurs, PollPosting, InQueue, Clicking
  <2>8. Copies(restarting, Occurs(Clipboards))
    BY <2>2, <2>3, <2>4, <2>5
       DEF ClipInv, OnePlace, Occurs, ClipPosting, InQueue, Clicking
  <2> QED
    BY <2>7, <2>8 DEF LatchesAreExact
<1> QED
  BY <1>1, ExactInit, ExactNext, PTL DEF Spec

-----------------------------------------------------------------------------
(* What "observed" is worth                                                *)

\* v is a snapshot that the client has published.
Real(v) ==
  /\ v.tick \in DOMAIN published
  /\ published[v.tick].life = v.life /\ published[v.tick].state = v.state

\* v is a snapshot of the process c was bound to, no older than its send.
Since(c, v) == Real(v) /\ v.tick >= sentAt[c] /\ v.life = target[c]

SnapshotInv ==
  /\ published \in Seq(Snapshot) /\ published # <<>>
  /\ DOMAIN target = Click /\ sentAt \in [Click -> Nat]
  /\ \A c \in Click : sentAt[c] <= Len(published)
  /\ DOMAIN seen = {"timer", "worker"}

\* What is known was published; and from the reply to the record of the action,
\* the view to compare with is one of the bound process since the send.  The view
\* may expire between the two: it is unknown then, and still the same snapshot.
ViewInv ==
  /\ view.known => Real(view)
  /\ \A t \in {"timer", "worker"} : seen[t].known => Real(seen[t])
  /\ pc["worker"] = "apply" =>
       /\ reply.view.known => Real(reply.view)
       /\ job \in Click /\ reply.result = "Accepted" => Since(job, reply.view)
  /\ pc["worker"] = "record" => Since(job, view)
  /\ awaited # Nothing => Since(awaited.click, awaited.before)

Observing == Told /\ SnapshotInv /\ ViewInv /\ ObservedIsLater

\* A later publication hides no earlier one.
LEMMA PublishedStays ==
  ASSUME SnapshotInv, NEW s \in Snapshot, published' = Append(published, s)
  PROVE  /\ published' \in Seq(Snapshot) /\ published' # <<>>
         /\ Len(published') = Len(published) + 1 /\ Len(published) \in Nat
         /\ \A n \in DOMAIN published : n \in DOMAIN published' /\ published'[n] = published[n]
<1>1. published \in Seq(Snapshot)
  BY DEF SnapshotInv
<1> HIDE DEF Snapshot
<1> QED
  BY <1>1

LEMMA LatestIsReal == SnapshotInv => Real(Latest) /\ Latest.tick = Len(published)
<1> SUFFICES ASSUME SnapshotInv PROVE Real(Latest) /\ Latest.tick = Len(published)
  OBVIOUS
<1>1. Len(published) \in DOMAIN published
  <2>1. published \in Seq(Snapshot) /\ published # <<>>
    BY DEF SnapshotInv
  <2> HIDE DEF Snapshot
  <2> QED
    BY <2>1
<1> QED
  BY <1>1 DEF Real, Latest

LEMMA ObservingInit == Init => Observing
<1> SUFFICES ASSUME Init PROVE Observing
  OBVIOUS
<1>1. Told
  BY ToldInit
<1>2. SnapshotInv
  <2>1. PICK s \in Snapshot : published = <<s>>
    BY DEF Init
  <2>2. published \in Seq(Snapshot) /\ published # <<>> /\ Len(published) = 1
    <3> HIDE DEF Snapshot
    <3> QED
      BY <2>1
  <2>3. /\ target = [c \in Click |-> NoLife] /\ sentAt = [c \in Click |-> 0]
        /\ seen = [t \in {"timer", "worker"} |-> NoView]
    BY DEF Init
  <2> QED
    BY <2>2, <2>3 DEF SnapshotInv
<1>3. ViewInv
  <2>1. /\ view.known = FALSE /\ awaited = Nothing /\ pc["worker"] = "idle"
        /\ \A t \in {"timer", "worker"} : seen[t].known = FALSE
    BY DEF Init, NoView
  <2> QED
    BY <2>1 DEF ViewInv
<1>4. ObservedIsLater
  BY DEF Init, ObservedIsLater
<1> QED
  BY <1>1, <1>2, <1>3, <1>4 DEF Observing

\* What a step must leave alone to change none of this: the snapshots, and of the
\* clicks that were sent the process they are bound to and the time of the send.
LEMMA SinceKept ==
  ASSUME SnapshotInv, NEW c \in Click, NEW v, Since(c, v),
         published' = published \/ \E s \in Snapshot : published' = Append(published, s),
         target'[c] = target[c], sentAt'[c] = sentAt[c]
  PROVE  /\ v.tick \in DOMAIN published' /\ published'[v.tick].life = v.life
         /\ published'[v.tick].state = v.state
         /\ v.tick >= sentAt'[c] /\ v.life = target'[c]
BY PublishedStays DEF Since, Real

LEMMA ObservedKept ==
  ASSUME SnapshotInv, ObservedIsLater, NEW c \in Click, outcome[c] = "observed",
         published' = published \/ \E s \in Snapshot : published' = Append(published, s),
         target'[c] = target[c], sentAt'[c] = sentAt[c]
  PROVE  \E t, s \in DOMAIN published' :
           /\ s >= sentAt'[c] /\ t > s
           /\ published'[s].life = target'[c] /\ published'[t].life = target'[c]
           /\ WindowOutcome(CommandOf[c], published'[s].state, published'[t].state)
<1>1. PICK t, s \in DOMAIN published :
        /\ s >= sentAt[c] /\ t > s
        /\ published[s].life = target[c] /\ published[t].life = target[c]
        /\ WindowOutcome(CommandOf[c], published[s].state, published[t].state)
  BY DEF ObservedIsLater
<1>2. /\ t \in DOMAIN published' /\ s \in DOMAIN published'
      /\ published'[t] = published[t] /\ published'[s] = published[s]
  BY PublishedStays
<1> QED
  BY <1>1, <1>2

\* The end of an awaited action is told as "observed" for a reason.
LEMMA DecideObserved ==
  ASSUME Observing, NEW t \in {"timer", "worker"}, DecideOutcome(t), awaited # Nothing,
         OutcomeSeen(seen[t]), EndAwaited("observed")
  PROVE  ObservedIsLater'
<1> DEFINE c == awaited.click
           b == awaited.before
           v == seen[t]
<1>1. c \in Click /\ outcome' = [outcome EXCEPT ![c] = "observed"] /\ outcome \in [Click -> Outcomes]
      /\ UNCHANGED <<published, target, sentAt>>
  BY DEF Observing, Told, SentInv, EndAwaited, DecideOutcome
<1>2. Since(c, b) /\ Real(v) /\ v.life = b.life /\ v.tick > b.tick
      /\ WindowOutcome(CommandOf[c], b.state, v.state)
  BY DEF Observing, ViewInv, OutcomeSeen, IsLater
<1>3. /\ b.tick \in DOMAIN published /\ v.tick \in DOMAIN published
      /\ b.tick >= sentAt[c] /\ v.tick > b.tick
      /\ published[b.tick].life = target[c] /\ published[v.tick].life = target[c]
      /\ WindowOutcome(CommandOf[c], published[b.tick].state, published[v.tick].state)
  BY <1>2 DEF Since, Real
<1>4. ASSUME NEW d \in Click, d # c, outcome'[d] = "observed"
      PROVE  \E n, m \in DOMAIN published' :
               /\ m >= sentAt'[d] /\ n > m
               /\ published'[m].life = target'[d] /\ published'[n].life = target'[d]
               /\ WindowOutcome(CommandOf[d], published'[m].state, published'[n].state)
  BY <1>1, <1>4, ObservedKept DEF Observing
<1> HIDE DEF c, b, v
<1>5. \E n, m \in DOMAIN published' :
               /\ m >= sentAt'[c] /\ n > m
               /\ published'[m].life = target'[c] /\ published'[n].life = target'[c]
               /\ WindowOutcome(CommandOf[c], published'[m].state, published'[n].state)
  BY <1>1, <1>3
<1> QED
  BY <1>4, <1>5 DEF ObservedIsLater

LEMMA ObservingNext == Observing /\ [Next]_vars => Observing'
<1> DEFINE Good == SnapshotInv' /\ ViewInv' /\ ObservedIsLater'
<1> SUFFICES ASSUME Observing, [Next]_vars, Told' PROVE Good
  BY ToldNext DEF Observing
<1>1. SnapshotInv /\ ViewInv /\ ObservedIsLater /\ Told
  BY DEF Observing
\* Most steps leave alone what the outcome is judged by.
<1>2. ASSUME UNCHANGED <<published, target, sentAt>>,
             \A c \in Click : outcome'[c] = "observed" => outcome[c] = "observed"
      PROVE  ObservedIsLater'
  BY <1>1, <1>2, ObservedKept DEF ObservedIsLater
<1>3. ASSUME UNCHANGED <<published, target, sentAt, seen>> PROVE SnapshotInv'
  BY <1>1, <1>3 DEF SnapshotInv
<1>4. ASSUME UNCHANGED <<published, target, sentAt, seen, view, reply, job, awaited>>,
             pc'["worker"] \in {"apply", "record"} => pc'["worker"] = pc["worker"]
      PROVE  ViewInv'
  BY <1>1, <1>4 DEF ViewInv, Since, Real
<1>5. ASSUME UNCHANGED <<published, target, sentAt, seen, view, reply, job, awaited>>,
             pc'["worker"] \in {"apply", "record"} => pc'["worker"] = pc["worker"],
             \A c \in Click : outcome'[c] = "observed" => outcome[c] = "observed"
      PROVE  Good
  BY <1>2, <1>3, <1>4, <1>5
<1> USE DEF Goto, latchVars, queueVars, threadVars, actionVars
<1>6. pc \in [Thread -> Place] /\ outcome \in [Click -> Outcomes]
  BY <1>1 DEF Told, Typed, SentInv
<1>7. ASSUME NEW c \in Click, ClickAction(c) PROVE Good
  <2>1. outcome[c] = "none" /\ UNCHANGED <<published, sentAt, seen, view, reply, job, awaited>>
        /\ pc'["worker"] = pc["worker"]
    BY <1>6, <1>7 DEF ClickAction, Thread
  <2>2. /\ DOMAIN target' = Click /\ \A d \in Click \ {c} : target'[d] = target[d]
        /\ \A d \in Click : outcome'[d] = "observed" => outcome[d] = "observed" /\ d # c
    BY <1>1, <1>6, <1>7 DEF ClickAction, SnapshotInv
  <2>3. SnapshotInv'
    BY <1>1, <2>1, <2>2 DEF SnapshotInv
  <2>4. pc["worker"] \in {"apply", "record"} /\ job \in Click => job # c
    BY <1>1, <2>1 DEF Told, SentInv, Working
  <2>5. awaited # Nothing => awaited.click \in Click \ {c}
    BY <1>1, <2>1 DEF Told, SentInv
  <2>6. pc["worker"] = "record" => job \in Click
    BY <1>1 DEF Told, SentInv
  <2>7. ViewInv'
    BY <1>1, <2>1, <2>2, <2>4, <2>5, <2>6 DEF ViewInv, Since, Real
  <2>8. ObservedIsLater'
    BY <1>1, <2>1, <2>2, ObservedKept DEF ObservedIsLater
  <2> QED
    BY <2>3, <2>7, <2>8
<1>8. ASSUME NEW c \in Click, ClickClipboard(c) PROVE Good
  BY <1>5, <1>6, <1>8 DEF ClickClipboard, Thread
<1>9. CASE AcquireLatch
  BY <1>5, <1>6, <1>9 DEF AcquireLatch, Thread
<1>10. CASE PostClick
  BY <1>5, <1>6, <1>10 DEF PostClick, Post, Thread
<1>11. CASE PostFailed
  BY <1>5, <1>6, <1>11 DEF PostFailed, Thread
<1>12. ASSUME NEW t \in {"timer", "worker"}, LoadLatch(t) PROVE Good
  BY <1>5, <1>6, <1>12 DEF LoadLatch, AfterObserve, Thread
<1>13. ASSUME NEW t \in {"timer", "worker"}, CopyView(t) PROVE Good
  <2>1. /\ seen' = [seen EXCEPT ![t] = view]
        /\ pc'["worker"] \notin {"apply", "record"} \/ pc'["worker"] = pc["worker"]
        /\ UNCHANGED <<published, target, sentAt, view, reply, job, awaited, outcome>>
    BY <1>6, <1>13 DEF CopyView, Thread
  <2>2. \A u \in {"timer", "worker"} : seen'[u] = IF u = t THEN view ELSE seen[u]
    BY <1>1, <1>13 DEF CopyView, SnapshotInv
  <2>3. SnapshotInv'
    BY <1>1, <1>13 DEF SnapshotInv, CopyView
  <2>4. ViewInv'
    BY <1>1, <2>1, <2>2 DEF ViewInv, Since, Real
  <2> QED
    BY <1>2, <2>1, <2>3, <2>4
<1>14. ASSUME NEW t \in {"timer", "worker"}, DecideOutcome(t) PROVE Good
  <2>1. /\ UNCHANGED <<published, target, sentAt, view, reply, job>>
        /\ seen' = [seen EXCEPT ![t] = NoView] /\ NoView.known = FALSE
        /\ pc'["worker"] = pc["worker"] \/ pc'["worker"] \notin {"apply", "record"}
        /\ awaited' = awaited \/ awaited' = Nothing
    BY <1>6, <1>14 DEF DecideOutcome, AfterObserve, Thread, NoView, EndAwaited
  <2>2. \A u \in {"timer", "worker"} : seen'[u] = IF u = t THEN NoView ELSE seen[u]
    BY <1>1, <2>1 DEF SnapshotInv
  <2>3. SnapshotInv'
    BY <1>1, <2>1 DEF SnapshotInv
  <2>4. ViewInv'
    BY <1>1, <2>1, <2>2 DEF ViewInv, Since, Real
  <2>5. CASE awaited # Nothing /\ OutcomeSeen(seen[t]) /\ EndAwaited("observed")
    BY <1>14, <2>3, <2>4, <2>5, DecideObserved
  <2>6. CASE \/ awaited # Nothing /\ EndAwaited("unknown")
             \/ UNCHANGED outcome
    <3>1. \A c \in Click : outcome'[c] = "observed" => outcome[c] = "observed"
      BY <1>6, <2>6 DEF EndAwaited
    <3> QED
      BY <1>2, <2>1, <2>3, <2>4, <3>1
  <2> QED
    BY <1>14, <2>5, <2>6 DEF DecideOutcome
<1>15. CASE TimerFires \/ AcquirePoll \/ PollRefused
  BY <1>5, <1>6, <1>15 DEF TimerFires, AcquirePoll, PollRefused, Thread
<1>16. CASE PostPoll
  BY <1>5, <1>6, <1>16 DEF PostPoll, Post, Thread
<1>17. CASE TakeJob
  <2>1. /\ queue # <<>> /\ sentAt' = [c \in Click |-> IF c = Head(queue) THEN Len(published) ELSE sentAt[c]]
        /\ pc'["worker"] = "run" /\ UNCHANGED <<published, target, seen, view, awaited, outcome>>
    BY <1>6, <1>17 DEF TakeJob, Thread
  <2>2. Head(queue) \in Click => outcome[Head(queue)] = "sending"
    <3>1. Head(queue) = queue[1] /\ 1 \in DOMAIN queue
      <4>1. queue \in Seq(Jobs)
        BY <1>1 DEF Told, SentInv
      <4> QED
        BY <2>1, <4>1
    <3> QED
      BY <1>1, <3>1 DEF Told, PlaceInv
  <2>3. Len(published) \in Nat
    BY <1>1 DEF SnapshotInv
  <2>4. SnapshotInv'
    BY <1>1, <2>1, <2>3 DEF SnapshotInv
  <2>5. awaited # Nothing => awaited.click \in Click /\ awaited.click # Head(queue)
    BY <1>1, <2>2 DEF Told, SentInv
  <2>6. awaited # Nothing => sentAt'[awaited.click] = sentAt[awaited.click]
    BY <2>1, <2>5
  <2>7. ViewInv'
    BY <1>1, <2>1, <2>6 DEF ViewInv, Since, Real
  <2>8. \A c \in Click : outcome[c] = "observed" => sentAt'[c] = sentAt[c]
    BY <2>1, <2>2
  <2>9. ObservedIsLater'
    BY <1>1, <2>1, <2>8, ObservedKept DEF ObservedIsLater
  <2> QED
    BY <2>4, <2>7, <2>9
<1>18. CASE RunRelayRequest
  <2>1. /\ pc["worker"] = "run" /\ pc'["worker"] = "apply"
        /\ UNCHANGED <<published, target, sentAt, seen, view, job, awaited, outcome>>
    BY <1>6, <1>18 DEF RunRelayRequest, Thread
  <2>2. Real(Latest) /\ Latest.tick = Len(published) /\ Len(published) \in Nat
    BY <1>1, LatestIsReal DEF SnapshotInv
  <2>3. reply'.view.known => Real(reply'.view)
    <3>1. reply' = Failed \/ reply'.view = Latest
      BY <1>18 DEF RunRelayRequest
    <3> QED
      BY <2>2, <3>1 DEF Failed, NoView
  <2>4. job \in Click /\ reply'.result = "Accepted" => Since(job, reply'.view)
    <3>1. ASSUME job \in Click, reply'.result = "Accepted"
          PROVE  reply'.view = Latest /\ Latest.life = target[job] /\ sentAt[job] <= Len(published)
                 /\ sentAt[job] \in Nat
      BY <1>1, <1>18, <3>1, ClickAssumption DEF RunRelayRequest, Failed, SnapshotInv
    <3> QED
      BY <2>2, <3>1 DEF Since
  <2>5. ViewInv'
    BY <1>1, <2>1, <2>3, <2>4 DEF ViewInv, Since, Real
  <2> QED
    BY <1>2, <1>3, <2>1, <2>5
<1>19. CASE ApplyRelayReply
  <2>1. /\ pc["worker"] = "apply" /\ view' = reply.view
        /\ UNCHANGED <<published, target, sentAt, seen, reply, job, awaited, outcome>>
        /\ pc'["worker"] # "apply"
        /\ pc'["worker"] = "record" => job # "poll" /\ reply.result = "Accepted"
    BY <1>6, <1>19 DEF ApplyRelayReply, Thread
  <2>2. job \in Click \/ job = "poll"
    BY <1>1, <2>1 DEF Told, SentInv, Working, Jobs
  <2>3. ViewInv'
    BY <1>1, <2>1, <2>2 DEF ViewInv, Since, Real
  <2> QED
    BY <1>2, <1>3, <2>1, <2>3
<1>20. CASE RecordAction
  <2>1. /\ pc["worker"] = "record" /\ pc'["worker"] = "reset"
        /\ awaited' = [click |-> job, before |-> view]
        /\ outcome' = [outcome EXCEPT ![job] = "accepted"]
        /\ UNCHANGED <<published, target, sentAt, seen, view, reply, job>>
    BY <1>6, <1>20 DEF RecordAction, Thread
  <2>2. Since(job, view) /\ awaited'.click = job /\ awaited'.before = view
    BY <1>1, <2>1 DEF ViewInv
  <2>3. ViewInv'
    BY <1>1, <2>1, <2>2 DEF ViewInv, Since, Real
  <2>4. \A c \in Click : outcome'[c] = "observed" => outcome[c] = "observed"
    BY <1>6, <2>1
  <2> QED
    BY <1>2, <1>3, <2>1, <2>3, <2>4
<1>21. CASE ClearLatch
  BY <1>5, <1>6, <1>21 DEF ClearLatch, Thread
<1>22. CASE ResetLatch \/ RestartRdpClip
  <2>1. /\ pc'["worker"] = "idle" /\ UNCHANGED <<published, target, sentAt, seen, view, awaited>>
        /\ \A c \in Click : outcome'[c] = "observed" => outcome[c] = "observed"
    BY <1>6, <1>22 DEF ResetLatch, RestartRdpClip, Thread
  <2>2. ViewInv'
    BY <1>1, <2>1 DEF ViewInv, Since, Real
  <2> QED
    BY <1>2, <1>3, <2>1, <2>2
<1>23. CASE ViewExpires
  <2>1. /\ view'.known = FALSE /\ view'.life = view.life /\ view'.tick = view.tick
        /\ view'.state = view.state
        /\ UNCHANGED <<published, target, sentAt, seen, reply, job, awaited, outcome, pc>>
    BY <1>23 DEF ViewExpires
  <2>2. ViewInv'
    BY <1>1, <2>1 DEF ViewInv, Since, Real
  <2> QED
    BY <1>2, <1>3, <2>1, <2>2
<1>24. CASE ActionOverdue
  BY <1>5, <1>24 DEF ActionOverdue
<1>25. CASE ClientPublishes
  <2>1. /\ \E s \in Snapshot : published' = Append(published, s)
        /\ UNCHANGED <<target, sentAt, seen, view, reply, job, awaited, outcome, pc>>
    BY <1>25 DEF ClientPublishes
  <2>2. /\ published' \in Seq(Snapshot) /\ published' # <<>>
        /\ Len(published') = Len(published) + 1 /\ Len(published) \in Nat
        /\ \A n \in DOMAIN published : n \in DOMAIN published' /\ published'[n] = published[n]
    BY <1>1, <2>1, PublishedStays
  <2>3. SnapshotInv'
    BY <1>1, <2>1, <2>2 DEF SnapshotInv
  <2>4. \A v : Real(v) => v.tick \in DOMAIN published' /\ published'[v.tick] = published[v.tick]
    BY <2>2 DEF Real
  <2>5. ViewInv'
    BY <1>1, <2>1, <2>4 DEF ViewInv, Since, Real
  <2>6. ObservedIsLater'
    BY <1>1, <2>1, ObservedKept DEF ObservedIsLater
  <2> QED
    BY <2>3, <2>5, <2>6
<1>26. CASE BeginUnload \/ TimerQuits \/ StopQueue \/ WorkerQuits
  BY <1>5, <1>6, <1>26 DEF BeginUnload, TimerQuits, StopQueue, WorkerQuits, Thread
<1>27. CASE UNCHANGED vars
  BY <1>5, <1>27 DEF vars
<1> HIDE DEF Good
<1> QED
  BY <1>7, <1>8, <1>9, <1>10, <1>11, <1>12, <1>13, <1>14, <1>15, <1>16, <1>17, <1>18, <1>19,
     <1>20, <1>21, <1>22, <1>23, <1>24, <1>25, <1>26, <1>27
     DEF Next, Xaml, Timer, Worker, Observe, Unload

(* "Requested client window state observed" is said only of an action whose  *)
(* own process published, after the send, two snapshots that differ as asked, *)
(* although the view is written by the polls of others, expires at any        *)
(* moment and is compared through a copy that may be older than the record.   *)
THEOREM ObservedCorrect == Spec => []ObservedIsLater
<1>1. Observing => ObservedIsLater
  BY DEF Observing
<1> QED
  BY <1>1, ObservingInit, ObservingNext, PTL DEF Spec
=============================================================================
