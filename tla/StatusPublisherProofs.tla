------------------------ MODULE StatusPublisherProofs ------------------------
(* Proofs about StatusPublisher, for any number of ticking threads, any    *)
(* interval and any width of the clock.                                    *)
EXTENDS StatusPublisher, TLAPS

-----------------------------------------------------------------------------
(* Type correctness                                                        *)

LEMMA TypeInit == Init => TypeOK
<1>1. 0 \in 0..MaxClock /\ Interval \in 0..MaxClock
  BY ClockAssumption
<1>2. Absent \in Record
  BY <1>1 DEF Absent, Record
<1> QED
  BY <1>1, <1>2 DEF Init, TypeOK

LEMMA TypeNext == TypeOK /\ [Next]_vars => TypeOK'
<1> SUFFICES ASSUME TypeOK, [Next]_vars PROVE TypeOK'
  OBVIOUS
<1> USE DEF TypeOK, callVars, Thread, Goto, Leave
<1>0. 0 \in 0..MaxClock /\ Absent \in Record
  BY ClockAssumption DEF Absent, Record
<1>1. CASE TimePasses
  <2>1. clock' \in 0..MaxClock /\ lastOpen' \in 0..MaxClock
    BY <1>1, ClockAssumption DEF TimePasses
  <2> QED
    BY <1>1, <2>1 DEF TimePasses
<1>2. CASE OpenFrame
  BY <1>2 DEF OpenFrame
<1>3. ASSUME NEW t \in Ticker, Tick(t) PROVE TypeOK'
  BY <1>3 DEF Tick
<1>4. ASSUME NEW t \in Thread, LoadLast(t) PROVE TypeOK'
  BY <1>4, <1>0 DEF LoadLast
<1>5. ASSUME NEW t \in Thread, CompareExchange(t) PROVE TypeOK'
  <2>1. CASE lastTick = last[t]
    BY <1>5, <2>1 DEF CompareExchange
  <2>2. CASE lastTick # last[t]
    BY <1>0, <1>5, <2>2 DEF CompareExchange
  <2> QED
    BY <2>1, <2>2
<1>6. ASSUME NEW t \in Thread, SampleFrame(t) PROVE TypeOK'
  BY <1>6 DEF SampleFrame
<1>7. ASSUME NEW t \in Thread, PublishRecord(t) PROVE TypeOK'
  <2>1. [tick |-> now[t], active |-> active[t]] \in Record
    BY <1>7 DEF Record
  <2> QED
    BY <1>7, <1>0, <2>1 DEF PublishRecord
<1>8. CASE DestroyFrame
  BY <1>8 DEF DestroyFrame
<1>9. CASE ForceWrite
  BY <1>9, <1>0 DEF ForceWrite
<1>10. CASE ForceStore
  BY <1>10 DEF ForceStore
<1>11. CASE BeginUnload
  BY <1>11 DEF BeginUnload
<1>12. CASE DeleteLocalWidgetStatusFile
  BY <1>12, <1>0 DEF DeleteLocalWidgetStatusFile
<1>13. CASE UNCHANGED vars
  BY <1>13 DEF vars
<1> QED
  BY <1>1, <1>2, <1>3, <1>4, <1>5, <1>6, <1>7, <1>8, <1>9, <1>10, <1>11, <1>12,
     <1>13 DEF Next, Call

(* Every variable of WriteLocalWidgetStatus keeps its type; the clock      *)
(* stays within its bound and a last tick is a time that has been.         *)
THEOREM TypeCorrect == Spec => []TypeOK
<1> QED
  BY TypeInit, TypeNext, PTL DEF Spec

-----------------------------------------------------------------------------
(* What a record says                                                      *)

\* Times that have been, and the frame while it is open.
ClockInv ==
  /\ lastOpen <= clock
  /\ frame => lastOpen = clock
  /\ \A t \in Thread : now[t] <= clock

\* A record, on disk or about to be, shows a session only if the frame was
\* open at its tick or later.
SampleInv ==
  /\ \A t \in Thread : active[t] => pc[t] = "publish" /\ lastOpen >= now[t]
  /\ file.active => lastOpen >= file.tick

RecordInv == TypeOK /\ ClockInv /\ SampleInv

LEMMA RecordInit == Init => RecordInv
BY TypeInit, ClockAssumption DEF Init, RecordInv, ClockInv, SampleInv, Absent, Thread

LEMMA RecordNext == RecordInv /\ [Next]_vars => RecordInv'
<1> SUFFICES ASSUME RecordInv, [Next]_vars PROVE ClockInv' /\ SampleInv'
  BY TypeNext DEF RecordInv
<1> USE DEF RecordInv, TypeOK, Record, ClockInv, SampleInv, callVars, Thread, Goto, Leave
<1>1. CASE TimePasses
  BY <1>1, ClockAssumption DEF TimePasses
<1>2. CASE OpenFrame
  BY <1>2 DEF OpenFrame
<1>3. ASSUME NEW t \in Ticker, Tick(t) PROVE ClockInv' /\ SampleInv'
  BY <1>3 DEF Tick
<1>4. ASSUME NEW t \in Thread, LoadLast(t) PROVE ClockInv' /\ SampleInv'
  BY <1>4 DEF LoadLast
<1>5. ASSUME NEW t \in Thread, CompareExchange(t) PROVE ClockInv' /\ SampleInv'
  BY <1>5 DEF CompareExchange
<1>6. ASSUME NEW t \in Thread, SampleFrame(t) PROVE ClockInv' /\ SampleInv'
  BY <1>6 DEF SampleFrame
<1>7. ASSUME NEW t \in Thread, PublishRecord(t) PROVE ClockInv' /\ SampleInv'
  BY <1>7 DEF PublishRecord
<1>8. CASE DestroyFrame
  BY <1>8 DEF DestroyFrame
<1>9. CASE ForceWrite
  BY <1>9 DEF ForceWrite
<1>10. CASE ForceStore
  BY <1>10 DEF ForceStore
<1>11. CASE BeginUnload
  BY <1>11 DEF BeginUnload
<1>12. CASE DeleteLocalWidgetStatusFile
  BY <1>12 DEF DeleteLocalWidgetStatusFile, Absent
<1>13. CASE UNCHANGED vars
  BY <1>13 DEF vars
<1> QED
  BY <1>1, <1>2, <1>3, <1>4, <1>5, <1>6, <1>7, <1>8, <1>9, <1>10, <1>11, <1>12,
     <1>13 DEF Next, Call

(* A reader that finds a session in the record may conclude that the frame *)
(* was open at the record's tick or later, however the threads race.       *)
THEOREM RecordCorrect == Spec => []ActiveIsNoOlderThanItsTick
<1>1. RecordInv => ActiveIsNoOlderThanItsTick
  BY DEF RecordInv, SampleInv, ActiveIsNoOlderThanItsTick
<1> QED
  BY <1>1, RecordInit, RecordNext, PTL DEF Spec

-----------------------------------------------------------------------------
(* The unload                                                              *)

\* The frame's thread, alone in not being joined, publishes nothing but
\* records of a frame that has gone.
ForcedInv ==
  /\ pc[Frame] \in {"idle", "force", "store", "sample", "publish"}
  /\ pc[Frame] # "idle" => ~frame
  /\ ~active[Frame]

\* Once the mod stops no tick begins; the record is deleted after the last.
StopInv ==
  /\ unload # "loaded" => stopping
  /\ unload = "done" => /\ \A t \in Ticker : pc[t] = "idle"
                        /\ ~file.active

UnloadInv == TypeOK /\ ForcedInv /\ StopInv

LEMMA UnloadInit == Init => UnloadInv
BY TypeInit DEF Init, UnloadInv, ForcedInv, StopInv, Thread

LEMMA UnloadNext == UnloadInv /\ [Next]_vars => UnloadInv'
<1> SUFFICES ASSUME UnloadInv, [Next]_vars PROVE ForcedInv' /\ StopInv'
  BY TypeNext DEF UnloadInv
<1> USE ThreadAssumption
    DEF UnloadInv, TypeOK, ForcedInv, StopInv, callVars, Thread, Goto, Leave
<1>1. CASE TimePasses
  BY <1>1 DEF TimePasses
<1>2. CASE OpenFrame
  BY <1>2 DEF OpenFrame
<1>3. ASSUME NEW t \in Ticker, Tick(t) PROVE ForcedInv' /\ StopInv'
  BY <1>3 DEF Tick
<1>4. ASSUME NEW t \in Thread, LoadLast(t) PROVE ForcedInv' /\ StopInv'
  BY <1>4 DEF LoadLast
<1>5. ASSUME NEW t \in Thread, CompareExchange(t) PROVE ForcedInv' /\ StopInv'
  BY <1>5 DEF CompareExchange
<1>6. ASSUME NEW t \in Thread, SampleFrame(t) PROVE ForcedInv' /\ StopInv'
  BY <1>6 DEF SampleFrame
<1>7. ASSUME NEW t \in Thread, PublishRecord(t) PROVE ForcedInv' /\ StopInv'
  BY <1>7 DEF PublishRecord
<1>8. CASE DestroyFrame
  BY <1>8 DEF DestroyFrame
<1>9. CASE ForceWrite
  BY <1>9 DEF ForceWrite
<1>10. CASE ForceStore
  BY <1>10 DEF ForceStore
<1>11. CASE BeginUnload
  BY <1>11 DEF BeginUnload
<1>12. CASE DeleteLocalWidgetStatusFile
  BY <1>12 DEF DeleteLocalWidgetStatusFile, Absent
<1>13. CASE UNCHANGED vars
  BY <1>13 DEF vars
<1> QED
  BY <1>1, <1>2, <1>3, <1>4, <1>5, <1>6, <1>7, <1>8, <1>9, <1>10, <1>11, <1>12,
     <1>13 DEF Next, Call

(* No record that shows a session is left after the unload, although the   *)
(* frame's thread may still be publishing.                                 *)
THEOREM UnloadCorrect == Spec => []NoSessionAfterUnload
<1>1. UnloadInv => NoSessionAfterUnload
  BY DEF UnloadInv, StopInv, NoSessionAfterUnload
<1> QED
  BY <1>1, UnloadInit, UnloadNext, PTL DEF Spec
=============================================================================
