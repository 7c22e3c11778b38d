--------------------------- MODULE StatusPublisher ---------------------------
(***************************************************************************)
(* WriteLocalWidgetStatus inside one mstsc process: the record of the      *)
(* client state, published by the one-second ticks of up to three threads  *)
(* and, when the session frame goes, by the frame's own thread.  The reads *)
(* of the clock, of the last tick and of the frame and the replacement of  *)
(* the file are steps of their own.  The gate on the sole client process   *)
(* (BoundRelay models it) and a failing replacement are refusals that may  *)
(* always be taken.                                                        *)
(***************************************************************************)
EXTENDS Integers

CONSTANTS Ticker,    \* threads with a status tick: overlay, watchdog, panel
          Frame,     \* the thread of the session frame
          Interval,  \* LOCAL_WIDGET_STATUS_MIN_INTERVAL_MS
          Width,     \* ticks wrap at this width (2^64)
          MaxClock   \* bound: the clock

ASSUME ThreadAssumption == Frame \notin Ticker
ASSUME ClockAssumption ==
  Interval \in Nat \ {0} /\ MaxClock \in Nat /\ Width \in Nat
  /\ Interval <= MaxClock /\ MaxClock < Width

VARIABLES
  clock,      \* GetTickCount64
  lastTick,   \* g_localWidgetStatusLastTick
  frame,      \* g_hRdpFrame is the session frame
  pc,         \* pc[t]: what thread t does next
  now, last,  \* now[t], last[t]: the locals of the call
  active,     \* active[t]: the record t is about to publish shows a session
  file,       \* the status record on disk
  stopping,   \* g_clientStopping
  unload,     \* progress of ModUninit
  lastOpen    \* history: when the frame was last open

callVars == <<pc, now, last, active>>
vars == <<clock, lastTick, frame, callVars, file, stopping, unload, lastOpen>>

Thread == Ticker \cup {Frame}
Record == [tick : 0..MaxClock, active : BOOLEAN]
Absent == [tick |-> 0, active |-> FALSE]

\* The locals of a call are forgotten when it returns.
Goto(t, place) == pc' = [pc EXCEPT ![t] = place]
Leave(t) ==
  /\ Goto(t, "idle")
  /\ now' = [now EXCEPT ![t] = 0]
  /\ last' = [last EXCEPT ![t] = 0]
  /\ active' = [active EXCEPT ![t] = FALSE]
Elapsed(n, l) == (n - l) % Width

-----------------------------------------------------------------------------
(* The world                                                               *)

TimePasses ==
  /\ clock < MaxClock
  /\ clock' = clock + 1
  /\ lastOpen' = IF frame THEN clock' ELSE lastOpen
  /\ UNCHANGED <<lastTick, frame, callVars, file, stopping, unload>>

OpenFrame ==
  /\ ~frame /\ pc[Frame] = "idle"
  /\ frame' = TRUE
  /\ lastOpen' = clock
  /\ UNCHANGED <<clock, lastTick, callVars, file, stopping, unload>>

-----------------------------------------------------------------------------
(* WriteLocalWidgetStatus                                                  *)

\* A tick; the stop flag is checked before the clock is read.
Tick(t) ==
  /\ t \in Ticker /\ pc[t] = "idle"
  /\ ~stopping
  /\ now' = [now EXCEPT ![t] = clock]
  /\ Goto(t, "load")
  /\ UNCHANGED <<clock, lastTick, frame, last, active, file, stopping, unload, lastOpen>>

LoadLast(t) ==
  /\ pc[t] = "load"
  /\ IF Elapsed(now[t], lastTick) < Interval
     THEN Leave(t)
     ELSE /\ last' = [last EXCEPT ![t] = lastTick]
          /\ Goto(t, "swap")
          /\ UNCHANGED <<now, active>>
  /\ UNCHANGED <<clock, lastTick, frame, file, stopping, unload, lastOpen>>

CompareExchange(t) ==
  /\ pc[t] = "swap"
  /\ IF lastTick = last[t]
     THEN /\ lastTick' = now[t]
          /\ Goto(t, "sample")
          /\ UNCHANGED <<now, last, active>>
     ELSE /\ Leave(t)
          /\ UNCHANGED lastTick
  /\ UNCHANGED <<clock, frame, file, stopping, unload, lastOpen>>

\* FrameSubclassProc on WM_DESTROY: the frame is forgotten, then the record is
\* forced.  Once the mod stops, nothing is written.
DestroyFrame ==
  /\ frame /\ pc[Frame] = "idle"
  /\ frame' = FALSE
  /\ Goto(Frame, "force")
  /\ UNCHANGED <<clock, lastTick, now, last, active, file, stopping, unload, lastOpen>>

ForceWrite ==
  /\ pc[Frame] = "force"
  /\ IF stopping
     THEN Leave(Frame)
     ELSE /\ now' = [now EXCEPT ![Frame] = clock]
          /\ Goto(Frame, "store")
          /\ UNCHANGED <<last, active>>
  /\ UNCHANGED <<clock, lastTick, frame, file, stopping, unload, lastOpen>>

ForceStore ==
  /\ pc[Frame] = "store"
  /\ lastTick' = now[Frame]
  /\ Goto(Frame, "sample")
  /\ UNCHANGED <<clock, frame, now, last, active, file, stopping, unload,
                 lastOpen>>

SampleFrame(t) ==
  /\ pc[t] = "sample"
  /\ active' = [active EXCEPT ![t] = frame]
  /\ Goto(t, "publish")
  /\ UNCHANGED <<clock, lastTick, frame, now, last, file, stopping, unload, lastOpen>>

\* Mutant: the record is stamped when it is written.
PublishStamped(t) ==
  /\ pc[t] = "publish"
  /\ \/ UNCHANGED file
     \/ file' = [tick |-> clock, active |-> active[t]]
  /\ Leave(t)
  /\ UNCHANGED <<clock, lastTick, frame, stopping, unload, lastOpen>>

\* Not the sole client, no path, or the replacement fails: the old record stays.
PublishRecord(t) ==
  /\ pc[t] = "publish"
  /\ \/ UNCHANGED file
     \/ file' = [tick |-> now[t], active |-> active[t]]
  /\ Leave(t)
  /\ UNCHANGED <<clock, lastTick, frame, stopping, unload,
                 lastOpen>>

-----------------------------------------------------------------------------
(* ModUninit: stop, join the ticking threads, delete the record            *)

BeginUnload ==
  /\ unload = "loaded"
  /\ stopping' = TRUE
  /\ unload' = "join"
  /\ UNCHANGED <<clock, lastTick, frame, callVars, file, lastOpen>>

\* Mutant: the record is deleted while a tick may still be publishing.
DeleteUnjoined ==
  /\ unload = "join"
  /\ file' = Absent
  /\ unload' = "done"
  /\ UNCHANGED <<clock, lastTick, frame, callVars, stopping, lastOpen>>

DeleteLocalWidgetStatusFile ==
  /\ unload = "join"
  /\ \A t \in Ticker : pc[t] = "idle"
  /\ file' = Absent
  /\ unload' = "done"
  /\ UNCHANGED <<clock, lastTick, frame, callVars, stopping, lastOpen>>

-----------------------------------------------------------------------------

Init ==
  /\ clock = Interval /\ lastTick = 0
  /\ frame = FALSE
  /\ pc = [t \in Thread |-> "idle"]
  /\ now = [t \in Thread |-> 0]
  /\ last = [t \in Thread |-> 0]
  /\ active = [t \in Thread |-> FALSE]
  /\ file = Absent
  /\ stopping = FALSE /\ unload = "loaded"
  /\ lastOpen = 0

Call(t) == LoadLast(t) \/ CompareExchange(t) \/ SampleFrame(t) \/ PublishRecord(t)

Next ==
  \/ TimePasses \/ OpenFrame
  \/ \E t \in Ticker : Tick(t)
  \/ \E t \in Thread : Call(t)
  \/ DestroyFrame \/ ForceWrite \/ ForceStore
  \/ BeginUnload \/ DeleteLocalWidgetStatusFile

Spec == Init /\ [][Next]_vars

-----------------------------------------------------------------------------
(* Properties                                                              *)

TypeOK ==
  /\ clock \in 0..MaxClock /\ lastTick \in 0..MaxClock
  /\ frame \in BOOLEAN
  /\ pc \in [Thread -> {"idle", "load", "swap", "force", "store", "sample", "publish"}]
  /\ now \in [Thread -> 0..MaxClock] /\ last \in [Thread -> 0..MaxClock]
  /\ active \in [Thread -> BOOLEAN]
  /\ file \in Record
  /\ stopping \in BOOLEAN /\ unload \in {"loaded", "join", "done"}
  /\ lastOpen \in 0..MaxClock

(* What a reader may conclude from a record that shows a session: the      *)
(* frame was open at the time of its tick or later.  Host and panel accept *)
(* a record for four seconds on that ground, whichever thread wrote it and *)
(* however long the replacement of the file was delayed.                   *)
ActiveIsNoOlderThanItsTick == file.active => lastOpen >= file.tick

(* Once the mod has unloaded, no record shows a session, although the      *)
(* frame's thread, which is not joined, may still be inside a forced write.*)
NoSessionAfterUnload == unload = "done" => ~file.active
=============================================================================
