-------------------------- MODULE LocalPanelProofs --------------------------
(* Proofs about LocalPanel, for any set of lifetimes and any number of     *)
(* clicks and ticks.                                                       *)
EXTENDS LocalPanel, FiniteSetTheorems, TLAPS

USE DEF processVars, clientVars, contractVars, explorerVars, panelVars

-----------------------------------------------------------------------------
(* Type correctness                                                        *)

Results == {"Observed", "Accepted", "Unknown", "Rejected", "Unavailable", "TargetChanged",
            "NoReceiver", "Ambiguous", "TimedOut"}
Frame == [open : BOOLEAN, iconic : BOOLEAN, full : BOOLEAN]
Sight == [iconic : Nat, normal : Nat]
Message == [life : Life, command : Command, click : Clicks]
Clicked == [command : Command, click : Clicks]
Bind == [command : Command, click : Clicks, life : Life, tick : Nat, full : BOOLEAN]
RecordOf(lives) == [life : lives, active : BOOLEAN, iconic : BOOLEAN, full : BOOLEAN,
                    tick : Nat, fresh : BOOLEAN]
Widget == [at : {"idle"}] \cup [at : {"stamped"}, tick : Nat]
          \cup [at : {"sampled"}, record : RecordOf(Life)]
          \cup [at : Command \cup {"answer"}, of : Message]
Panel == [at : {"idle"}]
         \cup [at : {"read"}, for : [command : {"poll"}, click : {0}] \cup Clicked,
               target : Life \cup {"none", "many"}]
         \cup [at : {"find"}, of : Bind]
         \cup [at : {"wait", "answered"}, of : Bind, result : Results]

Typed ==
  /\ process \in [Life -> {"new", "running", "exited"}]
  /\ frame \in [Life -> Frame] /\ lastSeen \in [Life -> Sight]
  /\ widget \in [Life -> Widget]
  /\ file \in RecordOf(Life \cup {"none"}) /\ (file.active => file.life \in Life)
  /\ inbox \in Seq(Clicked) /\ clicks \in 0..MaxClick
  /\ panel \in Panel
  /\ sent \subseteq Message
  /\ feedback \in [command : Command \cup {"none"}, click : Clicks \cup {0}, result : Results,
                   life : Life \cup {"none"}, tick : Nat, full : BOOLEAN]
  /\ clock \in Nat
  /\ asked \in [Clicks -> Life \cup {"none"}] /\ carriedOut \in [Clicks -> Seq(Life)]
  /\ told \in [Clicks -> Results \cup {"nothing"}]

\* The clicks that have been carried out.
Done == {k \in Clicks : carriedOut[k] # <<>>}

-----------------------------------------------------------------------------
(* The inductive invariant                                                 *)

\* lastSeen is right, and never ahead of the clock.
SightInv ==
  \A l \in Life : /\ IF frame[l].iconic THEN lastSeen[l].iconic = clock
                                        ELSE lastSeen[l].normal = clock
                  /\ lastSeen[l].iconic <= clock /\ lastSeen[l].normal <= clock

\* The window was, since tick, as the record has it.
True(record) ==
  IF record.iconic THEN lastSeen[record.life].iconic >= record.tick
                   ELSE lastSeen[record.life].normal >= record.tick

\* What the local widget thread of l is about to publish is true.
TrueBeforeWritten(l) ==
  /\ widget[l].at = "stamped" => widget[l].tick <= clock
  /\ widget[l].at = "sampled" => widget[l].record.life = l /\ True(widget[l].record)

RecordInv ==
  /\ file.life \in Life => True(file)
  /\ \A l \in Life : TrueBeforeWritten(l)

Busy(l) == widget[l].at \in Command \cup {"answer"}

\* A command is with the thread it was sent to for as long as that thread works
\* at it, there is one command of a click, and what was done is only to be answered.
SentInv ==
  /\ \A l \in Life : Busy(l) => widget[l].of \in sent /\ widget[l].of.life = l
  /\ \A m, n \in sent : m.click = n.click => m = n
  /\ \A m \in sent : m.click \in Done => widget[m.life] = [at |-> "answer", of |-> m]
  /\ \A l \in Life : widget[l].at = "answer" => widget[l].of.click \in Done

\* k is newer than every click that was sent, done or given its feedback.
Newer(k) ==
  /\ \A d \in Done : d < k
  /\ \A m \in sent : m.click < k
  /\ feedback.click < k

\* The click the panel is at work on.
PanelClick == IF panel.at = "idle" THEN 0
              ELSE IF panel.at = "read" THEN panel.for.click ELSE panel.of.click

\* Clicks are taken in the order they were made, each once.
ClickInv ==
  /\ Newer(clicks + 1) /\ PanelClick <= clicks
  /\ \A i \in DOMAIN inbox :
       /\ Newer(inbox[i].click) /\ PanelClick < inbox[i].click /\ inbox[i].click <= clicks
       /\ \A j \in DOMAIN inbox : j < i => inbox[j].click < inbox[i].click
  /\ panel.at = "read" => panel.for.command = "poll" \/ Newer(panel.for.click)
  /\ panel.at = "find" => Newer(panel.of.click)
  /\ panel.at \in {"wait", "answered"} => feedback.click < panel.of.click

\* Nothing has carried out click k, and nothing will.
Final(k) == k \notin Done /\ \A m \in sent : m.click # k

\* The frame has been seen as the command wants it since the click was sent.
SeenSince(of) ==
  /\ of.command = "minimize" => lastSeen[of.life].iconic >= of.tick
  /\ of.command = "restore" => lastSeen[of.life].normal >= of.tick

\* The panel waits for the command it sent, and an answer is worth what the
\* feedback will say of it.
AnswerInv ==
  /\ panel.at \in {"find", "wait", "answered"} => panel.of.tick <= clock
  /\ panel.at = "wait" => \A m \in sent : m.click = panel.of.click =>
                            m.life = panel.of.life /\ m.command = panel.of.command
  /\ panel.at = "answered" =>
       /\ panel.result \in Refusals => Final(panel.of.click)
       /\ panel.result \in Successes => panel.of.click \in Done
       /\ panel.result = "Observed" => SeenSince(panel.of)

FeedbackInv ==
  /\ feedback.result = "Rejected" => Final(feedback.click) /\ feedback.click \in Clicks
  /\ feedback.result = "Observed" => feedback.life \in Life /\ SeenSince(feedback)

\* The click the panel has bound, and not given its feedback yet, or 0.
BoundClick == IF panel.at \in {"find", "wait", "answered"} THEN panel.of.click ELSE 0

\* A command is on its way only to the process that its click was bound to, and
\* a click whose first feedback was a refusal is over.
ContractInv ==
  /\ \A m \in sent : asked[m.click] = m.life
  /\ panel.at \in {"find", "wait", "answered"} => asked[panel.of.click] = panel.of.life
  /\ \A k \in Clicks : /\ asked[k] # "none" => k <= feedback.click \/ k = BoundClick
                       /\ told[k] # "nothing" => k <= feedback.click
                       /\ told[k] \in Refusals => Final(k)

Inv == Typed /\ SightInv /\ RecordInv /\ SentInv /\ ClickInv /\ AnswerInv /\ FeedbackInv

-----------------------------------------------------------------------------
(* Typed is inductive                                                      *)

LEMMA TargetTyped == FindTarget \in Life \cup {"none", "many"}
<1>1. Cardinality({}) = 0
  BY FS_EmptySet
<1> QED
  BY <1>1 DEF FindTarget, Running

LEMMA ResultTyped ==
  ASSUME NEW target, NEW record PROVE TargetResult(target, record) \in Results
BY DEF TargetResult, Results

LEMMA RecordTyped ==
  ASSUME NEW l \in Life, frame[l] \in Frame, NEW tick \in Nat
  PROVE  Record(l, tick) \in RecordOf(Life)
BY DEF Record, RecordOf, Frame

\* What a local widget thread keeps at each stage.
LEMMA WidgetKeeps ==
  ASSUME Typed, NEW l \in Life
  PROVE  /\ widget[l].at = "stamped" => widget[l].tick \in Nat
         /\ widget[l].at = "sampled" => widget[l].record \in RecordOf(Life)
         /\ Busy(l) => widget[l].of \in Message
         /\ Busy(l) \/ widget[l].at \in {"idle", "stamped", "sampled"}
         /\ Busy(l) => widget[l] \in [at : Command \cup {"answer"}, of : Message]
         /\ "of" \in DOMAIN widget[l] => Busy(l)
<1>1. widget[l] \in Widget
  BY DEF Typed
<1>2. widget[l].at \in Command => widget[l].at \notin {"idle", "stamped", "sampled", "answer"}
  BY CommandAssumption DEF Commands
<1> QED
  BY <1>1, <1>2 DEF Widget, Busy

LEMMA FrameTyped ==
  ASSUME Typed, NEW l \in Life
  PROVE  /\ frame[l] \in Frame /\ Closed \in Frame /\ [Closed EXCEPT !.open = TRUE] \in Frame
         /\ [frame[l] EXCEPT !.iconic = ~@] \in Frame /\ [frame[l] EXCEPT !.full = ~@] \in Frame
         /\ \A iconic \in BOOLEAN : [frame[l] EXCEPT !.iconic = iconic] \in Frame
<1>1. frame[l] \in Frame
  BY DEF Typed
<1> QED
  BY <1>1 DEF Frame, Closed

\* What a step of the client may do to the window.
LEMMA SetFrameTyped ==
  ASSUME Typed, NEW l \in Life, NEW f \in Frame, SetFrame(l, f)
  PROVE  frame' \in [Life -> Frame] /\ lastSeen' \in [Life -> Sight]
<1>1. lastSeen[l] \in Sight /\ [lastSeen[l] EXCEPT !.iconic = clock] \in Sight
      /\ [lastSeen[l] EXCEPT !.normal = clock] \in Sight
  BY DEF Typed, Sight
<1> QED
  BY <1>1 DEF SetFrame, Typed

\* The replies to a command.
LEMMA AnswerTyped ==
  ASSUME Typed, NEW l \in Life, NEW m, NEW result \in Results, Answer(l, m, result)
  PROVE  widget' \in [Life -> Widget] /\ sent' \subseteq Message /\ panel' \in Panel
<1>1. [at |-> "idle"] \in Widget
  BY DEF Widget
<1>2. widget' \in [Life -> Widget]
  BY <1>1 DEF Answer, Typed
<1>3. panel' \in Panel
  <2>1. CASE panel.at = "wait"
    <3>1. panel \in [at : {"wait", "answered"}, of : Bind, result : Results]
      BY <2>1 DEF Typed, Panel
    <3>2. [panel EXCEPT !.at = "answered", !.result = result] \in Panel
      BY <3>1 DEF Panel
    <3> QED
      BY <3>2 DEF Answer, Typed
  <2> QED
    BY <2>1 DEF Answer, Typed
<1> QED
  BY <1>2, <1>3 DEF Answer, Typed

\* A click is carried out.
LEMMA CarryOutEffect ==
  ASSUME Typed, NEW l \in Life, NEW m \in Message, CarryOut(l, m)
  PROVE  /\ Done' = Done \cup {m.click}
         /\ carriedOut' \in [Clicks -> Seq(Life)]
<1>1. m.click \in Clicks /\ carriedOut[m.click] \in Seq(Life)
  BY DEF Typed, Message
<1>2. Append(carriedOut[m.click], l) \in Seq(Life) /\ Append(carriedOut[m.click], l) # <<>>
  BY <1>1
<1>3. carriedOut' = [carriedOut EXCEPT ![m.click] = Append(carriedOut[m.click], l)]
  BY DEF CarryOut
<1>4. carriedOut' \in [Clicks -> Seq(Life)]
  BY <1>2, <1>3 DEF Typed
<1>5. \A k \in Clicks : carriedOut'[k] # <<>> <=> carriedOut[k] # <<>> \/ k = m.click
  BY <1>1, <1>2, <1>3 DEF Typed
<1> QED
  BY <1>1, <1>4, <1>5 DEF Done

LEMMA DoneKept == ASSUME carriedOut' = carriedOut PROVE Done' = Done
BY DEF Done

LEMMA ClicksAreNat == Clicks \subseteq Nat /\ 0 \notin Clicks
BY DEF Clicks

LEMMA TypedInit == Init => Typed
<1> SUFFICES ASSUME Init PROVE Typed
  OBVIOUS
<1>1. /\ frame \in [Life -> Frame] /\ lastSeen \in [Life -> Sight] /\ widget \in [Life -> Widget]
      /\ panel \in Panel /\ process \in [Life -> {"new", "running", "exited"}]
  BY DEF Init, Closed, Frame, Sight, Widget, Panel
<1>2. file \in RecordOf(Life \cup {"none"}) /\ (file.active => file.life \in Life)
  <2>1. NoRecord \in RecordOf(Life \cup {"none"}) /\ ~NoRecord.active
    BY DEF NoRecord, RecordOf
  <2>2. ASSUME NEW l \in Past
        PROVE  /\ [NoRecord EXCEPT !.life = l, !.active = TRUE, !.fresh = TRUE]
                    \in RecordOf(Life \cup {"none"})
               /\ [NoRecord EXCEPT !.life = l, !.active = TRUE, !.fresh = TRUE].life = l
    BY PastAssumption DEF NoRecord, RecordOf
  <2>3. file = NoRecord \/ \E l \in Past :
          file = [NoRecord EXCEPT !.life = l, !.active = TRUE, !.fresh = TRUE]
    BY DEF Init
  <2>4. CASE file = NoRecord
    BY <2>1, <2>4
  <2>5. ASSUME NEW l \in Past,
               file = [NoRecord EXCEPT !.life = l, !.active = TRUE, !.fresh = TRUE]
        PROVE  file \in RecordOf(Life \cup {"none"}) /\ file.life \in Life
    BY <2>2, <2>5, PastAssumption
  <2> QED
    BY <2>3, <2>4, <2>5
<1>3. /\ inbox = <<>> /\ sent \subseteq Message
      /\ clock \in Nat
  BY DEF Init
<1>5. inbox \in Seq(Clicked)
  BY <1>3
<1>6. /\ clicks \in 0..MaxClick /\ asked \in [Clicks -> Life \cup {"none"}]
      /\ carriedOut \in [Clicks -> Seq(Life)] /\ told \in [Clicks -> Results \cup {"nothing"}]
  <2>1. <<>> \in Seq(Life) /\ 0 \in 0..MaxClick
    BY BoundAssumption
  <2>2. /\ clicks = 0 /\ asked = [k \in Clicks |-> "none"]
        /\ carriedOut = [k \in Clicks |-> <<>>] /\ told = [k \in Clicks |-> "nothing"]
    BY DEF Init
  <2>3. carriedOut \in [Clicks -> Seq(Life)]
    BY <2>1, <2>2
  <2> QED
    BY <2>1, <2>2, <2>3
<1>4. feedback \in [command : Command \cup {"none"}, click : Clicks \cup {0}, result : Results,
                    life : Life \cup {"none"}, tick : Nat, full : BOOLEAN]
  BY DEF Init, NoFeedback, Results
<1> QED
  BY <1>1, <1>2, <1>3, <1>4, <1>5, <1>6 DEF Typed

\* The steps of the user and of the frame's thread.
LEMMA TypedWindow ==
  ASSUME Typed, NEW l \in Life,
         StartClient(l) \/ UserMoves(l) \/ TakeChord(l) \/ CloseFrame(l) \/ ExitProcess(l)
  PROVE  Typed'
<1>1. /\ frame[l] \in Frame /\ Closed \in Frame /\ [Closed EXCEPT !.open = TRUE] \in Frame
      /\ [frame[l] EXCEPT !.iconic = ~@] \in Frame /\ [frame[l] EXCEPT !.full = ~@] \in Frame
  BY FrameTyped
<1>2. \E f \in Frame : SetFrame(l, f)
  BY <1>1 DEF StartClient, UserMoves, TakeChord, CloseFrame, ExitProcess
<1>3. frame' \in [Life -> Frame] /\ lastSeen' \in [Life -> Sight]
  BY <1>2, SetFrameTyped
<1>4. [at |-> "idle"] \in Widget
  BY DEF Widget
<1>5. process' \in [Life -> {"new", "running", "exited"}] /\ widget' \in [Life -> Widget]
      /\ sent' \subseteq Message
  <2>1. CASE ExitProcess(l)
    BY <1>4, <2>1 DEF Typed, ExitProcess
  <2>2. CASE StartClient(l)
    BY <2>2 DEF Typed, StartClient
  <2>3. CASE UserMoves(l) \/ TakeChord(l) \/ CloseFrame(l)
    BY <2>3 DEF Typed, UserMoves, TakeChord, CloseFrame
  <2> QED
    BY <2>1, <2>2, <2>3
<1> QED
  BY <1>3, <1>5 DEF Typed, StartClient, UserMoves, TakeChord, CloseFrame, ExitProcess

\* The local widget thread publishes.
LEMMA TypedPublisher ==
  ASSUME Typed, NEW l \in Life, Tick(l) \/ Sample(l) \/ Publish(l)
  PROVE  Typed'
<1> USE DEF Works
<1>1. [at |-> "idle"] \in Widget
  BY DEF Widget
<1>2. CASE Tick(l)
  <2>1. [at |-> "stamped", tick |-> clock] \in Widget
    BY DEF Widget, Typed
  <2> QED
    BY <1>2, <2>1 DEF Tick, Typed
<1>3. CASE Sample(l)
  <2>1. widget[l].tick \in Nat
    BY <1>3, WidgetKeeps DEF Sample
  <2>2. [at |-> "sampled", record |-> Record(l, widget[l].tick)] \in Widget
    BY <2>1, RecordTyped DEF Typed, Widget
  <2> QED
    BY <1>1, <1>3, <2>2 DEF Sample, Typed
<1>4. CASE Publish(l)
  <2>1. widget[l].record \in RecordOf(Life)
    BY <1>4, WidgetKeeps DEF Publish
  <2>2. widget[l].record \in RecordOf(Life \cup {"none"}) /\ widget[l].record.life \in Life
    BY <2>1 DEF RecordOf
  <2> QED
    BY <1>1, <1>4, <2>2 DEF Publish, Typed
<1> QED
  BY <1>2, <1>3, <1>4

\* What the chord may do: the command is answered, carried out or not; a key is
\* left down only of a chord whose outcome is answered to be unknown.
LEMMA ToggleEffect ==
  ASSUME NEW l \in Life, ToggleFullscreen(l)
  PROVE  /\ widget[l].at = "fullscreen"
         /\ SetFrame(l, [frame[l] EXCEPT !.iconic = FALSE]) \/ UNCHANGED <<frame, lastSeen>>
         /\ \E result \in {"Accepted", "Rejected", "Unknown"} :
              /\ Answer(l, widget[l].of, result)
              /\ CarryOut(l, widget[l].of) \/ UNCHANGED carriedOut
              /\ result = "Accepted" => CarryOut(l, widget[l].of)
              /\ result = "Rejected" => UNCHANGED carriedOut
              /\ result # "Unknown" => held' = held
         /\ held' \subseteq held \cup {widget[l].of.click}
         /\ UNCHANGED <<process, closing, file, explorerVars, clock>>
<1>1. /\ widget[l].at = "fullscreen"
      /\ SetFrame(l, [frame[l] EXCEPT !.iconic = FALSE]) \/ UNCHANGED <<frame, lastSeen>>
      /\ UNCHANGED <<process, closing, file, explorerVars, clock>>
  BY DEF ToggleFullscreen, Works
<1>4. ~SendChord(l) => Answer(l, widget[l].of, "Rejected") /\ UNCHANGED <<chord, held, carriedOut>>
  BY DEF ToggleFullscreen
<1>2. CASE SendChord(l)
  BY <1>1, <1>2 DEF SendChord, TypeBreak
<1>3. CASE Answer(l, widget[l].of, "Rejected") /\ UNCHANGED <<chord, held, carriedOut>>
  BY <1>1, <1>3
<1> QED
  BY <1>2, <1>3, <1>4

\* The local widget thread carries out commands.
LEMMA TypedCommand ==
  ASSUME Typed, NEW l \in Life,
         \/ \E m \in sent : Begin(l, m) \/ FindAsAsked(l, m)
         \/ Minimize(l) \/ Restore(l) \/ AnswerWindow(l) \/ ToggleFullscreen(l) \/ Disconnect(l)
  PROVE  Typed'
<1> USE DEF Works
<1>1. {"Rejected", "TargetChanged", "Unavailable", "Observed", "Accepted", "Unknown"} \subseteq Results
  BY DEF Results
<1>2. ASSUME NEW m \in sent, Begin(l, m) PROVE Typed'
  <2>1. [at |-> m.command, of |-> m] \in Widget
    BY DEF Typed, Widget, Message
  <2>2. \/ \E result \in Results : Answer(l, m, result)
        \/ widget' = [widget EXCEPT ![l] = [at |-> m.command, of |-> m]] /\ UNCHANGED <<sent, panel>>
    BY <1>1, <1>2 DEF Begin
  <2>3. widget' \in [Life -> Widget] /\ sent' \subseteq Message /\ panel' \in Panel
    <3>1. widget \in [Life -> Widget] /\ sent \subseteq Message /\ panel \in Panel
      BY DEF Typed
    <3> QED
      BY <2>1, <2>2, <3>1, AnswerTyped
  <2>4. UNCHANGED <<processVars, frame, lastSeen, file, carriedOut, explorerVars, clock>>
    BY <1>2 DEF Begin
  <2> QED
    BY <2>3, <2>4 DEF Typed
<1>7. ASSUME NEW m \in sent, FindAsAsked(l, m) PROVE Typed'
  <2>1. widget' \in [Life -> Widget] /\ sent' \subseteq Message /\ panel' \in Panel
    BY <1>1, <1>7, AnswerTyped DEF FindAsAsked
  <2>2. carriedOut' \in [Clicks -> Seq(Life)]
    BY <1>7, CarryOutEffect DEF FindAsAsked, Typed
  <2> QED
    BY <1>7, <2>1, <2>2 DEF FindAsAsked, Typed
<1>3. ASSUME NEW command \in {"minimize", "restore"}, NEW iconic \in BOOLEAN,
             ShowWindow(l, command, iconic)
      PROVE  Typed'
  <2>1. widget[l] \in [at : Command \cup {"answer"}, of : Message]
    BY <1>3 DEF ShowWindow, Typed, Widget
  <2>2. [widget[l] EXCEPT !.at = "answer"] \in Widget /\ widget[l].of \in Message
    BY <2>1 DEF Widget, Message
  <2>3. widget' \in [Life -> Widget] /\ sent' \subseteq Message /\ panel' \in Panel
    BY <1>1, <1>3, <2>2, AnswerTyped DEF ShowWindow, Typed
  <2>4. frame' \in [Life -> Frame] /\ lastSeen' \in [Life -> Sight]
        /\ carriedOut' \in [Clicks -> Seq(Life)]
    <3>1. frame[l] \in Frame /\ [frame[l] EXCEPT !.iconic = iconic] \in Frame
      BY FrameTyped
    <3>2. \/ SetFrame(l, [frame[l] EXCEPT !.iconic = iconic]) \/ UNCHANGED <<frame, lastSeen>>
      BY <1>3 DEF ShowWindow
    <3>3. frame' \in [Life -> Frame] /\ lastSeen' \in [Life -> Sight]
      BY <3>1, <3>2, SetFrameTyped DEF Typed
    <3>4. carriedOut' \in [Clicks -> Seq(Life)]
      <4>1. CarryOut(l, widget[l].of) \/ UNCHANGED carriedOut
        BY <1>3 DEF ShowWindow
      <4> QED
        BY <2>2, <4>1, CarryOutEffect DEF Typed
    <3> QED
      BY <3>2, <3>3, <3>4
  <2> QED
    BY <1>3, <2>3, <2>4 DEF ShowWindow, Typed
<1>4. CASE AnswerWindow(l)
  <2>1. widget' \in [Life -> Widget] /\ sent' \subseteq Message /\ panel' \in Panel
    BY <1>1, <1>4, AnswerTyped DEF AnswerWindow
  <2> QED
    BY <1>4, <2>1 DEF AnswerWindow, Typed
<1>5. CASE ToggleFullscreen(l)
  <2>1. widget' \in [Life -> Widget] /\ sent' \subseteq Message /\ panel' \in Panel
    BY <1>1, <1>5, ToggleEffect, AnswerTyped
  <2>2. frame' \in [Life -> Frame] /\ lastSeen' \in [Life -> Sight]
    <3>1. frame[l] \in Frame /\ [frame[l] EXCEPT !.iconic = FALSE] \in Frame
      BY FrameTyped
    <3> QED
      BY <1>5, <3>1, ToggleEffect, SetFrameTyped DEF Typed
  <2>3. carriedOut' \in [Clicks -> Seq(Life)]
    <3>1. widget[l].of \in Message
      BY <1>5, ToggleEffect DEF Typed, Widget
    <3> QED
      BY <1>5, <3>1, ToggleEffect, CarryOutEffect DEF Typed
  <2> QED
    BY <1>5, <2>1, <2>2, <2>3, ToggleEffect DEF Typed
<1>6. CASE Disconnect(l)
  <2>1. widget' \in [Life -> Widget] /\ sent' \subseteq Message /\ panel' \in Panel
    BY <1>1, <1>6, AnswerTyped DEF Disconnect
  <2>2. carriedOut' \in [Clicks -> Seq(Life)]
    <3>1. widget[l].of \in Message
      BY <1>6 DEF Disconnect, Typed, Widget
    <3> QED
      BY <1>6, <3>1, CarryOutEffect DEF Disconnect, Typed
  <2> QED
    BY <1>6, <2>1, <2>2 DEF Disconnect, Typed
<1> QED
  BY <1>2, <1>3, <1>4, <1>5, <1>6, <1>7 DEF Minimize, Restore

\* The feedback of a click.
LEMMA FeedbackTyped ==
  ASSUME NEW of, NEW result \in Results, SetFeedback(of, result),
         told \in [Clicks -> Results \cup {"nothing"}],
         of \in [command : Command, click : Clicks, life : Life \cup {"none"}, tick : Nat,
                 full : BOOLEAN]
  PROVE  /\ feedback' \in [command : Command \cup {"none"}, click : Clicks \cup {0}, result : Results,
                           life : Life \cup {"none"}, tick : Nat, full : BOOLEAN]
         /\ panel' \in Panel /\ told' \in [Clicks -> Results \cup {"nothing"}]
BY DEF SetFeedback, Panel

LEMMA TypedPanel ==
  ASSUME Typed,
         \/ \E command \in Command : Click(command)
         \/ ApplyStateToWidget \/ StatusThread \/ TakeTimer
  PROVE  Typed'
<1> DEFINE Feedback == [command : Command \cup {"none"}, click : Clicks \cup {0}, result : Results,
                        life : Life \cup {"none"}, tick : Nat, full : BOOLEAN]
<1>1. ASSUME NEW command \in Command, Click(command) PROVE Typed'
  <2>1. clicks' \in 0..MaxClick /\ [command |-> command, click |-> clicks'] \in Clicked
    BY <1>1, BoundAssumption DEF Click, Typed, Clicked, Clicks
  <2>2. inbox' \in Seq(Clicked)
    BY <1>1, <2>1 DEF Click, Typed
  <2> QED
    BY <1>1, <2>1, <2>2 DEF Click, Typed
<1>2. CASE ApplyStateToWidget
  BY <1>2 DEF ApplyStateToWidget, Typed
<1>3. CASE TakeTimer
  <2>1. panel' \in Panel
    BY <1>3, TargetTyped DEF TakeTimer, Panel
  <2> QED
    BY <1>3, <2>1 DEF TakeTimer, Typed
<1>4. CASE TakeClick
  <2>1. Head(inbox) \in Clicked /\ Tail(inbox) \in Seq(Clicked)
    <3>1. inbox \in Seq(Clicked) /\ inbox # <<>>
      BY <1>4 DEF TakeClick, Typed
    <3> QED
      BY <3>1
  <2>2. Head(inbox) \in [command : {"poll"}, click : {0}] \cup Clicked
    BY <2>1
  <2>3. panel' \in Panel
    BY <1>4, <2>2, TargetTyped DEF TakeClick, Panel
  <2> QED
    BY <1>4, <2>1, <2>3 DEF TakeClick, Typed
<1>5. CASE PollStatus
  <2>1. \/ feedback' = feedback
        \/ \E result \in Results : feedback' = [feedback EXCEPT !.result = result]
    <3>1. TargetResult(panel.target, file) \in Results /\ {"Observed", "Unknown"} \subseteq Results
      BY ResultTyped DEF Results
    <3> QED
      BY <1>5, <3>1 DEF PollStatus, ObserveFeedback
  <2>2. feedback' \in Feedback
    BY <2>1 DEF Typed
  <2>3. panel' \in Panel
    BY <1>5 DEF PollStatus, Panel
  <2> QED
    BY <1>5, <2>2, <2>3 DEF PollStatus, Typed
<1>6. CASE OnSendCommand
  <2>1. panel.for \in Clicked
    BY <1>6 DEF OnSendCommand, Typed, Panel
  <2>2. Bound \in [command : Command, click : Clicks, life : Life \cup {"none"}, tick : Nat,
                   full : BOOLEAN]
    BY <2>1 DEF Bound, Typed, RecordOf, Clicked
  <2>3. ASSUME CommandEnabledForState(WidgetState, panel.for.command) PROVE Bound \in Bind
    BY <2>2, <2>3 DEF CommandEnabledForState, WidgetState, Active, Bound, Typed, Bind
  <2>4. TargetResult(panel.target, file) \in Results /\ "Unavailable" \in Results
    BY ResultTyped DEF Results
  <2>5. CASE /\ panel' = [at |-> "find", of |-> Bound] /\ UNCHANGED <<feedback, told>>
             /\ asked' = [asked EXCEPT ![Bound.click] = Bound.life]
             /\ CommandEnabledForState(WidgetState, panel.for.command)
    <3>1. panel' \in Panel /\ asked' \in [Clicks -> Life \cup {"none"}]
      BY <2>3, <2>5 DEF Panel, Bind, Typed
    <3> QED
      BY <1>6, <2>5, <3>1 DEF OnSendCommand, Typed
  <2>6. CASE (\E result \in Results : SetFeedback(Bound, result)) /\ UNCHANGED asked
    <3>1. /\ feedback' \in Feedback /\ panel' \in Panel
          /\ told' \in [Clicks -> Results \cup {"nothing"}]
      <4>1. told \in [Clicks -> Results \cup {"nothing"}]
        BY DEF Typed
      <4> QED
        BY <2>2, <2>6, <4>1, FeedbackTyped
    <3>2. UNCHANGED <<clientVars, state, shown, inbox, clicks, sent, clock>>
      BY <1>6 DEF OnSendCommand
    <3> QED
      BY <2>6, <3>1, <3>2 DEF Typed
  <2> QED
    BY <1>6, <2>4, <2>5, <2>6 DEF OnSendCommand
<1>7. CASE SendLocalWidgetCommand
  <2>1. panel.of \in Bind
    BY <1>7 DEF SendLocalWidgetCommand, Typed, Panel
  <2>2. TargetResult(FindTarget, panel.of) \in Results /\ "Rejected" \in Results
        /\ "Unknown" \in Results
    BY ResultTyped DEF Results
  <2>3. CASE /\ FindTarget = panel.of.life
             /\ panel' = [at |-> "wait", of |-> panel.of, result |-> "Unknown"]
             /\ sent' = sent \cup {[life |-> FindTarget, command |-> panel.of.command,
                                    click |-> panel.of.click]}
             /\ UNCHANGED <<feedback, told>>
    <3>1. panel' \in Panel
      BY <2>1, <2>2, <2>3 DEF Panel
    <3>2. sent' \subseteq Message
      BY <2>1, <2>3 DEF Typed, Bind, Message
    <3> QED
      BY <1>7, <2>3, <3>1, <3>2 DEF SendLocalWidgetCommand, Typed
  <2>4. CASE (\E result \in Results : SetFeedback(panel.of, result)) /\ UNCHANGED sent
    <3>1. /\ feedback' \in Feedback /\ panel' \in Panel
          /\ told' \in [Clicks -> Results \cup {"nothing"}]
      BY <2>1, <2>4, FeedbackTyped DEF Bind, Typed
    <3> QED
      BY <1>7, <2>4, <3>1 DEF SendLocalWidgetCommand, Typed
  <2> QED
    BY <1>7, <2>2, <2>3, <2>4 DEF SendLocalWidgetCommand
<1>8. CASE SendTimesOut \/ TakeAnswer
  <2>1. panel.of \in Bind /\ \E result \in Results : SetFeedback(panel.of, result)
    BY <1>8 DEF SendTimesOut, TakeAnswer, Typed, Panel, Results
  <2>2. /\ feedback' \in Feedback /\ panel' \in Panel
        /\ told' \in [Clicks -> Results \cup {"nothing"}]
    BY <2>1, FeedbackTyped DEF Bind, Typed
  <2> QED
    BY <1>8, <2>2 DEF SendTimesOut, TakeAnswer, Typed
<1> QED
  BY <1>1, <1>2, <1>3, <1>4, <1>5, <1>6, <1>7, <1>8 DEF StatusThread

LEMMA TypedTime == Typed /\ (TimePasses \/ RecordAges \/ FeedbackAges \/ UserTapsKeys) => Typed'
<1> USE DEF Typed
<1>1. ASSUME Typed, TimePasses PROVE Typed'
  <2>1. clock' \in Nat
    BY <1>1 DEF TimePasses
  <2>2. lastSeen' \in [Life -> Sight]
    BY <1>1, <2>1 DEF TimePasses, Sight
  <2> QED
    BY <1>1, <2>1, <2>2 DEF TimePasses
<1>2. ASSUME Typed, RecordAges PROVE Typed'
  <2>1. file' \in RecordOf(Life \cup {"none"}) /\ (file'.active => file'.life \in Life)
    BY <1>2 DEF RecordAges, RecordOf
  <2> QED
    BY <1>2, <2>1 DEF RecordAges
<1>3. ASSUME Typed, FeedbackAges \/ UserTapsKeys PROVE Typed'
  BY <1>3 DEF FeedbackAges, UserTapsKeys
<1> QED
  BY <1>1, <1>2, <1>3

LEMMA TypedNext == Typed /\ [Next]_vars => Typed'
<1>1. ASSUME Typed, UNCHANGED vars PROVE Typed'
  BY <1>1 DEF Typed, vars
<1> QED
  BY <1>1, TypedWindow, TypedPublisher, TypedCommand, TypedPanel, TypedTime DEF Next, Client

-----------------------------------------------------------------------------
(* SightInv is inductive, and what was seen stays seen                     *)

\* Time and the history of the window only grow.
Later ==
  /\ clock' >= clock
  /\ \A l \in Life : /\ lastSeen'[l].iconic >= lastSeen[l].iconic
                     /\ lastSeen'[l].normal >= lastSeen[l].normal

LEMMA SetFrameSight ==
  ASSUME Typed, SightInv, NEW l \in Life, NEW f \in Frame, SetFrame(l, f), clock' = clock
  PROVE  SightInv' /\ Later
<1>1. clock \in Nat /\ \A k \in Life : lastSeen[k] \in Sight
  BY DEF Typed
<1>2. lastSeen'[l] = IF f.iconic THEN [lastSeen[l] EXCEPT !.iconic = clock]
                                 ELSE [lastSeen[l] EXCEPT !.normal = clock]
  BY DEF SetFrame, Typed
<1>3. /\ IF f.iconic THEN lastSeen'[l].iconic = clock /\ lastSeen'[l].normal = lastSeen[l].normal
                     ELSE lastSeen'[l].normal = clock /\ lastSeen'[l].iconic = lastSeen[l].iconic
      /\ frame'[l] = f
      /\ \A k \in Life \ {l} : lastSeen'[k] = lastSeen[k] /\ frame'[k] = frame[k]
  <2>1. lastSeen[l] \in Sight
    BY <1>1
  <2> QED
    BY <1>2, <2>1 DEF Sight, SetFrame, Typed
<1>4. \A k \in Life : lastSeen[k].iconic \in Nat /\ lastSeen[k].normal \in Nat
  BY <1>1 DEF Sight
<1> QED
  BY <1>1, <1>3, <1>4 DEF SightInv, Later

LEMMA SightInit == Init => SightInv
<1> SUFFICES ASSUME Init, NEW l \in Life
             PROVE  /\ IF frame[l].iconic THEN lastSeen[l].iconic = clock
                                           ELSE lastSeen[l].normal = clock
                    /\ lastSeen[l].iconic <= clock /\ lastSeen[l].normal <= clock
  BY DEF SightInv
<1>1. frame[l].iconic = FALSE
  BY DEF Init, Closed
<1>2. lastSeen[l].iconic = 0 /\ lastSeen[l].normal = 0 /\ clock = 0
  BY DEF Init
<1> QED
  BY <1>1, <1>2

LEMMA SightNext ==
  ASSUME Typed, SightInv, [Next]_vars
  PROVE  SightInv' /\ Later
<1>1. \A k \in Life : lastSeen[k] \in Sight /\ lastSeen[k].iconic \in Nat /\ lastSeen[k].normal \in Nat
  BY DEF Typed, Sight
<1>2. ASSUME frame' = frame, lastSeen' = lastSeen, clock' = clock PROVE SightInv' /\ Later
  BY <1>1, <1>2 DEF SightInv, Later, Typed
<1>3. ASSUME NEW l \in Life,
             StartClient(l) \/ UserMoves(l) \/ TakeChord(l) \/ CloseFrame(l) \/ ExitProcess(l)
      PROVE  SightInv' /\ Later
  <2>1. /\ frame[l] \in Frame /\ Closed \in Frame /\ [Closed EXCEPT !.open = TRUE] \in Frame
        /\ [frame[l] EXCEPT !.iconic = ~@] \in Frame /\ [frame[l] EXCEPT !.full = ~@] \in Frame
    BY FrameTyped
  <2>2. clock' = clock /\ \E f \in Frame : SetFrame(l, f)
    BY <1>3, <2>1 DEF StartClient, UserMoves, TakeChord, CloseFrame, ExitProcess
  <2> QED
    BY <2>2, SetFrameSight
<1>4. ASSUME NEW l \in Life, Minimize(l) \/ Restore(l) \/ ToggleFullscreen(l)
      PROVE  SightInv' /\ Later
  <2>1. /\ [frame[l] EXCEPT !.iconic = TRUE] \in Frame /\ [frame[l] EXCEPT !.iconic = FALSE] \in Frame
    BY FrameTyped
  <2>2. clock' = clock /\ ((\E f \in Frame : SetFrame(l, f)) \/ UNCHANGED <<frame, lastSeen>>)
    BY <1>4, <2>1, ToggleEffect DEF Minimize, Restore, ShowWindow
  <2> QED
    BY <1>2, <2>2, SetFrameSight
<1>5. CASE TimePasses
  <2>1. clock \in Nat /\ clock' = clock + 1 /\ frame' = frame
    BY <1>5 DEF TimePasses, Typed
  <2>2. ASSUME NEW l \in Life
        PROVE  IF frame[l].iconic
                 THEN lastSeen'[l].iconic = clock' /\ lastSeen'[l].normal = lastSeen[l].normal
                 ELSE lastSeen'[l].normal = clock' /\ lastSeen'[l].iconic = lastSeen[l].iconic
    <3>1. lastSeen'[l] = IF frame[l].iconic THEN [lastSeen[l] EXCEPT !.iconic = clock']
                                            ELSE [lastSeen[l] EXCEPT !.normal = clock']
      BY <1>5 DEF TimePasses
    <3>2. lastSeen[l] \in Sight
      BY <1>1
    <3> QED
      BY <3>1, <3>2 DEF Sight
  <2> QED
    BY <1>1, <2>1, <2>2 DEF SightInv, Later
<1>6. ASSUME NEW l \in Life,
             \/ Tick(l) \/ Sample(l) \/ Publish(l)
             \/ \E m \in sent : Begin(l, m) \/ FindAsAsked(l, m)
             \/ AnswerWindow(l) \/ Disconnect(l)
      PROVE  SightInv' /\ Later
  BY <1>2, <1>6 DEF Tick, Sample, Publish, Begin, FindAsAsked, AnswerWindow, Disconnect
<1>7. CASE \/ \E command \in Command : Click(command)
           \/ ApplyStateToWidget \/ StatusThread \/ TakeTimer \/ RecordAges \/ FeedbackAges
           \/ UserTapsKeys \/ UNCHANGED vars
  <2>1. frame' = frame /\ lastSeen' = lastSeen /\ clock' = clock
    BY <1>7 DEF Click, ApplyStateToWidget, StatusThread, TakeTimer, RecordAges, FeedbackAges,
      UserTapsKeys, vars, TakeClick, PollStatus, OnSendCommand, SendLocalWidgetCommand, SendTimesOut, TakeAnswer
  <2> QED
    BY <1>2, <2>1
<1> QED
  BY <1>3, <1>4, <1>5, <1>6, <1>7 DEF Next, Client

-----------------------------------------------------------------------------
(* RecordInv is inductive                                                  *)

LEMMA RecordInit == Init => RecordInv
<1> SUFFICES ASSUME Init PROVE RecordInv
  OBVIOUS
<1>1. \A l \in Life : widget[l].at = "idle"
  BY DEF Init
<1>2. file.iconic = FALSE /\ file.tick = 0
  <2>1. NoRecord.iconic = FALSE /\ NoRecord.tick = 0
    BY DEF NoRecord
  <2>2. ASSUME NEW l, file = [NoRecord EXCEPT !.life = l, !.active = TRUE, !.fresh = TRUE]
        PROVE  file.iconic = FALSE /\ file.tick = 0
    BY <2>2 DEF NoRecord
  <2>3. file = NoRecord \/ \E l \in Past :
          file = [NoRecord EXCEPT !.life = l, !.active = TRUE, !.fresh = TRUE]
    BY DEF Init
  <2> QED
    BY <2>1, <2>2, <2>3
<1>3. \A l \in Life : lastSeen[l].normal = 0
  BY DEF Init
<1> QED
  BY <1>1, <1>2, <1>3 DEF RecordInv, True, TrueBeforeWritten

LEMMA FileKept ==
  ASSUME Typed, Typed', Later, RecordInv,
         file' = file \/ file' = [file EXCEPT !.fresh = FALSE]
  PROVE  (file.life \in Life => True(file))'
<1>1. /\ file'.life = file.life /\ file'.tick = file.tick /\ file'.iconic = file.iconic
      /\ file.tick \in Nat
  BY DEF Typed, RecordOf
<1>2. file.life \in Life =>
        /\ lastSeen[file.life].iconic \in Nat /\ lastSeen[file.life].normal \in Nat
        /\ lastSeen'[file.life].iconic \in Nat /\ lastSeen'[file.life].normal \in Nat
  BY DEF Typed, Sight
<1> QED
  BY <1>1, <1>2 DEF True, Later, RecordInv

LEMMA WriterKept ==
  ASSUME Typed, Typed', Later, RecordInv, NEW l \in Life,
         widget'[l] = widget[l] \/ widget'[l].at \notin {"stamped", "sampled"}
  PROVE  TrueBeforeWritten(l)'
<1>1. CASE widget'[l].at \notin {"stamped", "sampled"}
  BY <1>1 DEF TrueBeforeWritten
<1>2. CASE widget'[l] = widget[l] /\ widget[l].at = "stamped"
  <2>1. widget[l].tick \in Nat /\ clock \in Nat /\ clock' \in Nat
    BY <1>2, WidgetKeeps DEF Typed
  <2> QED
    BY <1>2, <2>1 DEF TrueBeforeWritten, RecordInv, Later
<1>3. CASE widget'[l] = widget[l] /\ widget[l].at = "sampled"
  <2> DEFINE r == widget[l].record
  <2>1. r \in RecordOf(Life)
    BY <1>3, WidgetKeeps
  <2>2. r.life = l /\ r.tick \in Nat /\ True(r)
    BY <1>3, <2>1 DEF RecordInv, TrueBeforeWritten, RecordOf
  <2>3. /\ lastSeen[l].iconic \in Nat /\ lastSeen[l].normal \in Nat
        /\ lastSeen'[l].iconic \in Nat /\ lastSeen'[l].normal \in Nat
    BY DEF Typed, Sight
  <2>4. True(r)'
    BY <1>3, <2>2, <2>3 DEF True, Later
  <2> QED
    BY <1>3, <2>2, <2>4 DEF TrueBeforeWritten
<1> QED
  BY <1>1, <1>2, <1>3

LEMMA RecordNext ==
  ASSUME Typed, Typed', SightInv, Later, RecordInv, [Next]_vars
  PROVE  RecordInv'
<1>1. ASSUME file' = file \/ file' = [file EXCEPT !.fresh = FALSE], NEW l \in Life,
             TrueBeforeWritten(l)', \A k \in Life \ {l} : widget'[k] = widget[k]
      PROVE  RecordInv'
  BY <1>1, FileKept, WriterKept DEF RecordInv
<1>2. ASSUME file' = file \/ file' = [file EXCEPT !.fresh = FALSE], widget' = widget
      PROVE  RecordInv'
  BY <1>2, FileKept, WriterKept DEF RecordInv
<1>3. ASSUME NEW l \in Life, NEW w, widget' = [widget EXCEPT ![l] = w]
      PROVE  widget'[l] = w /\ \A k \in Life \ {l} : widget'[k] = widget[k]
  BY <1>3 DEF Typed
<1>4. ASSUME NEW l \in Life, Tick(l) PROVE RecordInv'
  <2>1. /\ widget' = [widget EXCEPT ![l] = [at |-> "stamped", tick |-> clock]]
        /\ clock' = clock /\ file' = file /\ clock \in Nat
    BY <1>4 DEF Tick, Typed
  <2>2. TrueBeforeWritten(l)'
    <3>1. widget'[l] = [at |-> "stamped", tick |-> clock]
      BY <1>3, <2>1
    <3>3. clock <= clock
      BY <2>1
    <3>2. widget'[l].at = "stamped" /\ widget'[l].tick = clock
      BY <3>1
    <3> QED
      BY <2>1, <3>2, <3>3 DEF TrueBeforeWritten
  <2> QED
    BY <1>1, <1>3, <2>1, <2>2
<1>5. ASSUME NEW l \in Life, Sample(l) PROVE RecordInv'
  <2>1. file' = file /\ lastSeen' = lastSeen
    BY <1>5 DEF Sample
  <2>2. CASE widget' = [widget EXCEPT ![l] = [at |-> "idle"]]
    BY <1>1, <1>3, <2>1, <2>2, WriterKept
  <2>3. CASE widget' = [widget EXCEPT ![l] = [at |-> "sampled", record |-> Record(l, widget[l].tick)]]
    <3>1. widget[l].tick <= clock /\ clock \in Nat /\ widget[l].tick \in Nat
      BY <1>5, WidgetKeeps DEF Sample, Works, RecordInv, TrueBeforeWritten, Typed
    <3>2. IF frame[l].iconic THEN lastSeen[l].iconic >= widget[l].tick
                             ELSE lastSeen[l].normal >= widget[l].tick
      BY <3>1 DEF SightInv
    <3>3. TrueBeforeWritten(l)'
      <4> DEFINE r == Record(l, widget[l].tick)
      <4>1. widget'[l] = [at |-> "sampled", record |-> r]
        BY <1>3, <2>3
      <4>2. widget'[l].at = "sampled" /\ widget'[l].record = r
        BY <4>1
      <4>3. r.life = l /\ r.iconic = frame[l].iconic /\ r.tick = widget[l].tick
        BY DEF Record
      <4>4. IF r.iconic THEN lastSeen'[l].iconic >= r.tick ELSE lastSeen'[l].normal >= r.tick
        BY <2>1, <3>2, <4>3
      <4> HIDE DEF r
      <4> QED
        BY <4>2, <4>3, <4>4 DEF TrueBeforeWritten, True
    <3> QED
      BY <1>1, <1>3, <2>1, <2>3, <3>3
  <2> QED
    BY <1>5, <2>2, <2>3 DEF Sample
<1>6. ASSUME NEW l \in Life, Publish(l) PROVE RecordInv'
  <2>1. /\ lastSeen' = lastSeen /\ widget' = [widget EXCEPT ![l] = [at |-> "idle"]]
        /\ file' = file \/ file' = widget[l].record
    BY <1>6 DEF Publish
  <2>2. \A k \in Life : TrueBeforeWritten(k)'
    BY <1>3, <2>1, WriterKept
  <2>3. CASE file' = file
    BY <2>2, <2>3, FileKept DEF RecordInv
  <2>4. CASE file' = widget[l].record
    <3>1. True(widget[l].record)
      BY <1>6 DEF Publish, Works, RecordInv, TrueBeforeWritten
    <3>2. True(file)'
      BY <2>1, <2>4, <3>1 DEF True
    <3> QED
      BY <2>2, <3>2 DEF RecordInv
  <2> QED
    BY <2>1, <2>3, <2>4
<1>7. ASSUME NEW l \in Life, NEW m, NEW result, Answer(l, m, result), file' = file
      PROVE  RecordInv'
  <2>1. widget' = [widget EXCEPT ![l] = [at |-> "idle"]]
    BY <1>7 DEF Answer
  <2> QED
    BY <1>1, <1>3, <1>7, <2>1, WriterKept
<1>8. ASSUME NEW l \in Life, NEW m \in sent, Begin(l, m) PROVE RecordInv'
  <2>1. m.command \notin {"stamped", "sampled"} /\ file' = file
    BY <1>8, CommandAssumption DEF Begin, Typed, Message, Commands
  <2>2. CASE widget' = [widget EXCEPT ![l] = [at |-> m.command, of |-> m]]
    BY <1>1, <1>3, <2>1, <2>2, WriterKept
  <2> QED
    BY <1>7, <1>8, <2>1, <2>2 DEF Begin
<1>9. ASSUME NEW l \in Life, Minimize(l) \/ Restore(l) PROVE RecordInv'
  <2>1. file' = file /\ Busy(l)
    BY <1>9, WidgetKeeps DEF Minimize, Restore, ShowWindow, Works
  <2>2. CASE widget' = [widget EXCEPT ![l] = [@ EXCEPT !.at = "answer"]]
    <3>1. [widget[l] EXCEPT !.at = "answer"].at = "answer"
      BY <2>1, WidgetKeeps
    <3> QED
      BY <1>1, <1>3, <2>1, <2>2, <3>1, WriterKept
  <2> QED
    BY <1>7, <1>9, <2>1, <2>2 DEF Minimize, Restore, ShowWindow
<1>10. ASSUME NEW l \in Life,
              \/ \E m \in sent : FindAsAsked(l, m)
              \/ AnswerWindow(l) \/ ToggleFullscreen(l) \/ Disconnect(l)
       PROVE  RecordInv'
  BY <1>7, <1>10, ToggleEffect DEF FindAsAsked, AnswerWindow, Disconnect
<1>11. ASSUME NEW l \in Life,
              StartClient(l) \/ UserMoves(l) \/ TakeChord(l) \/ CloseFrame(l)
       PROVE  RecordInv'
  BY <1>2, <1>11 DEF StartClient, UserMoves, TakeChord, CloseFrame
<1>12. ASSUME NEW l \in Life, ExitProcess(l) PROVE RecordInv'
  <2>1. widget' = [widget EXCEPT ![l] = [at |-> "idle"]] /\ file' = file
    BY <1>12 DEF ExitProcess
  <2> QED
    BY <1>1, <1>3, <2>1, WriterKept
<1>13. CASE \/ \E command \in Command : Click(command)
            \/ ApplyStateToWidget \/ StatusThread \/ TakeTimer \/ TimePasses \/ RecordAges
            \/ FeedbackAges \/ UserTapsKeys \/ UNCHANGED vars
  <2>1. widget' = widget /\ (file' = file \/ file' = [file EXCEPT !.fresh = FALSE])
    BY <1>13 DEF Click, ApplyStateToWidget, StatusThread, TakeTimer, TimePasses, RecordAges,
      FeedbackAges, UserTapsKeys, vars, TakeClick, PollStatus, OnSendCommand,
      SendLocalWidgetCommand, SendTimesOut, TakeAnswer
  <2> QED
    BY <1>2, <2>1
<1> QED
  BY <1>4, <1>5, <1>6, <1>8, <1>9, <1>10, <1>11, <1>12, <1>13 DEF Next, Client

-----------------------------------------------------------------------------
(* Clicks: what the steps of a client do to them                           *)

\* The commands on their way and the clicks that are done, after a step of a client.
Settles ==
  /\ sent' \subseteq sent
  /\ \A d \in Done' : d \in Done \/ \E m \in sent : d = m.click
  /\ Done \subseteq Done'

\* What a client leaves alone: the panel at most gets its answer.
ClientEffect ==
  /\ Settles
  /\ UNCHANGED <<feedback, clicks, inbox>>
  /\ panel' = panel \/ (panel.at = "wait" /\ panel'.at = "answered" /\ panel'.of = panel.of)

LEMMA SeenKept ==
  ASSUME Typed, Typed', Later, NEW of, of.life \in Life, of.tick \in Nat, SeenSince(of)
  PROVE  /\ of.command = "minimize" => lastSeen'[of.life].iconic >= of.tick
         /\ of.command = "restore" => lastSeen'[of.life].normal >= of.tick
<1>1. /\ lastSeen[of.life].iconic \in Nat /\ lastSeen[of.life].normal \in Nat
      /\ lastSeen'[of.life].iconic \in Nat /\ lastSeen'[of.life].normal \in Nat
  BY DEF Typed, Sight
<1> QED
  BY <1>1 DEF SeenSince, Later

\* What the panel keeps at each stage.
LEMMA PanelKeeps ==
  ASSUME Typed
  PROVE  /\ panel.at \in {"idle", "read", "find", "wait", "answered"}
         /\ panel.at \in {"find", "wait", "answered"} =>
              /\ panel.of \in Bind /\ panel.of.life \in Life /\ panel.of.tick \in Nat
              /\ panel.of.click \in Clicks /\ panel.of.command \in Command
         /\ panel.at = "read" =>
              /\ panel.for.click \in Clicks \cup {0}
              /\ panel.for.command # "poll" => panel.for \in Clicked /\ panel.for.click \in Clicks
         /\ panel.at \in {"wait", "answered"} =>
              panel \in [at : {"wait", "answered"}, of : Bind, result : Results]
         /\ PanelClick \in Nat
<1>1. /\ panel.at \in {"idle", "read", "find", "wait", "answered"}
      /\ panel.at \in {"find", "wait", "answered"} => panel.of \in Bind
      /\ panel.at = "read" => panel.for \in [command : {"poll"}, click : {0}] \cup Clicked
      /\ panel.at \in {"wait", "answered"} =>
           panel \in [at : {"wait", "answered"}, of : Bind, result : Results]
  BY DEF Typed, Panel
<1>2. panel.at \in {"find", "wait", "answered"} =>
              /\ panel.of.life \in Life /\ panel.of.tick \in Nat
              /\ panel.of.click \in Clicks /\ panel.of.command \in Command
  BY <1>1 DEF Bind
<1>3. panel.at = "read" =>
        /\ panel.for.click \in Clicks \cup {0}
        /\ panel.for.command # "poll" => panel.for \in Clicked /\ panel.for.click \in Clicks
  BY <1>1 DEF Clicked
<1>4. PanelClick \in Nat
  <2>1. CASE panel.at = "idle"
    BY <2>1 DEF PanelClick
  <2>2. CASE panel.at = "read"
    <3>1. \A k \in Clicks \cup {0} : k \in Nat
      BY ClicksAreNat
    <3> QED
      BY <1>3, <2>2, <3>1 DEF PanelClick
  <2>3. CASE panel.at \in {"find", "wait", "answered"}
    BY <1>2, <2>3, ClicksAreNat DEF PanelClick
  <2> QED
    BY <1>1, <2>1, <2>2, <2>3
<1> QED
  BY <1>1, <1>2, <1>3, <1>4

LEMMA AnswerKept ==
  ASSUME Typed, Typed', Later, AnswerInv, Settles, panel' = panel
  PROVE  AnswerInv'
<1>1. panel.at \in {"find", "wait", "answered"} => panel'.of.tick <= clock'
  <2>1. clock \in Nat /\ clock' \in Nat /\ clock' >= clock
    BY DEF Typed, Later
  <2> QED
    BY <2>1, PanelKeeps DEF AnswerInv
<1>2. panel.at = "wait" => \A m \in sent' : m.click = panel'.of.click =>
                             m.life = panel'.of.life /\ m.command = panel'.of.command
  BY DEF AnswerInv, Settles
<1>3. panel.at = "answered" =>
        /\ panel.result \in Refusals => Final(panel.of.click)'
        /\ panel.result \in Successes => panel.of.click \in Done'
  BY DEF AnswerInv, Final, Settles
<1>4. panel.at = "answered" /\ panel.result = "Observed" => SeenSince(panel.of)'
  BY PanelKeeps, SeenKept DEF AnswerInv, SeenSince
<1> QED
  BY <1>1, <1>2, <1>3, <1>4 DEF AnswerInv

LEMMA FeedbackKept ==
  ASSUME Typed, Typed', Later, FeedbackInv, Settles, feedback' = feedback
  PROVE  FeedbackInv'
<1>1. feedback.result = "Rejected" => Final(feedback.click)'
  BY DEF FeedbackInv, Final, Settles
<1>2. feedback.tick \in Nat
  BY DEF Typed
<1>3. feedback.result = "Observed" => SeenSince(feedback)'
  BY <1>2, SeenKept DEF FeedbackInv, SeenSince
<1> QED
  BY <1>1, <1>3 DEF FeedbackInv

\* A command is answered that the thread has or just took.
LEMMA AnswerStep ==
  ASSUME Typed, Typed', SightInv, Later, SentInv, AnswerInv,
         NEW l \in Life, NEW m \in sent, m.life = l, widget[l].at = "idle" \/ widget[l].of = m,
         NEW result \in Results, Answer(l, m, result),
         Done' = Done \/ Done' = Done \cup {m.click},
         result \in Refusals => m.click \notin Done',
         result \in Successes => m.click \in Done',
         result = "Observed" => AsAsked(l, m.command) /\ lastSeen' = lastSeen,
         UNCHANGED <<feedback, clicks, inbox>>
  PROVE  SentInv' /\ ClientEffect /\ AnswerInv'
<1>1. /\ widget' = [widget EXCEPT ![l] = [at |-> "idle"]] /\ sent' = sent \ {m}
      /\ IF panel.at = "wait" /\ panel.of.click = m.click
           THEN panel' = [panel EXCEPT !.at = "answered", !.result = result] ELSE panel' = panel
  BY DEF Answer
<1>2. widget'[l] = [at |-> "idle"] /\ \A k \in Life \ {l} : widget'[k] = widget[k]
  BY <1>1 DEF Typed
<1>3. SentInv'
  <2>1. ~Busy(l)'
    BY <1>2, CommandAssumption DEF Busy, Commands
  <2>2. \A k \in Life : Busy(k)' => widget'[k].of \in sent' /\ widget'[k].of.life = k
    BY <1>1, <1>2, <2>1 DEF Busy, SentInv
  <2>3. ASSUME NEW n \in sent', n.click \in Done'
        PROVE  widget'[n.life] = [at |-> "answer", of |-> n]
    <3>1. n \in sent /\ n # m /\ n.click # m.click /\ n.life \in Life
      BY <1>1 DEF SentInv, Typed, Message
    <3>2. widget[n.life] = [at |-> "answer", of |-> n]
      BY <2>3, <3>1 DEF SentInv
    <3>3. widget[n.life].at = "answer" /\ widget[n.life].of = n
      BY <3>2
    <3>4. n.life # l
      BY <3>1, <3>3
    <3> QED
      BY <1>2, <3>1, <3>2, <3>4
  <2>4. \A k \in Life : widget'[k].at = "answer" => widget'[k].of.click \in Done'
    BY <1>2 DEF SentInv
  <2> QED
    BY <1>1, <2>2, <2>3, <2>4 DEF SentInv
<1>4. Settles
  BY <1>1 DEF Settles
<1>5. CASE panel.at = "wait" /\ panel.of.click = m.click
  <2>1. panel \in [at : {"wait", "answered"}, of : Bind, result : Results]
    BY <1>5, PanelKeeps
  <2>2. panel'.at = "answered" /\ panel'.of = panel.of /\ panel'.result = result
    BY <1>1, <1>5, <2>1
  <2>3. m.life = panel.of.life /\ m.command = panel.of.command /\ panel.of.tick <= clock
        /\ panel.of.tick \in Nat /\ clock \in Nat /\ clock' \in Nat /\ clock' >= clock
    BY <1>5, PanelKeeps DEF AnswerInv, Typed, Later
  <2>4. /\ result \in Refusals => Final(panel.of.click)'
        /\ result \in Successes => panel.of.click \in Done'
    BY <1>1, <1>5, <2>2 DEF Final, SentInv
  <2>5. result = "Observed" => SeenSince(panel.of)'
    <3>1. CASE result = "Observed"
      <4>1. AsAsked(l, m.command) /\ lastSeen' = lastSeen /\ panel.of.life = l
        BY <2>3, <3>1
      <4>2. IF frame[l].iconic THEN lastSeen[l].iconic = clock ELSE lastSeen[l].normal = clock
        BY DEF SightInv
      <4>3. /\ panel.of.command = "minimize" => lastSeen'[l].iconic >= panel.of.tick
            /\ panel.of.command = "restore" => lastSeen'[l].normal >= panel.of.tick
        BY <2>3, <4>1, <4>2 DEF AsAsked
      <4> QED
        BY <2>2, <4>1, <4>3 DEF SeenSince
    <3> QED
      BY <3>1
  <2>6. AnswerInv'
    BY <2>2, <2>3, <2>4, <2>5 DEF AnswerInv, SeenSince, Final
  <2> QED
    BY <1>3, <1>4, <1>5, <2>2, <2>6 DEF ClientEffect
<1>6. CASE panel' = panel
  BY <1>3, <1>4, <1>6, AnswerKept DEF ClientEffect
<1> QED
  BY <1>1, <1>5, <1>6

\* The thread starts to work at a command that it will answer later.
LEMMA StartStep ==
  ASSUME Typed, SentInv, NEW l \in Life, NEW m \in sent, m.life = l, widget[l].at = "idle",
         widget' = [widget EXCEPT ![l] = [at |-> m.command, of |-> m]],
         UNCHANGED <<sent, Done>>
  PROVE  SentInv'
<1>1. widget'[l] = [at |-> m.command, of |-> m] /\ \A k \in Life \ {l} : widget'[k] = widget[k]
  BY DEF Typed
<1>2. widget'[l].of = m
  BY <1>1
<1>3. \A k \in Life : Busy(k)' => widget'[k].of \in sent' /\ widget'[k].of.life = k
  BY <1>1, <1>2 DEF Busy, SentInv
<1>4. ASSUME NEW n \in sent, n.click \in Done PROVE widget'[n.life] = [at |-> "answer", of |-> n]
  <2>1. n.life \in Life /\ widget[n.life] = [at |-> "answer", of |-> n]
    BY <1>4 DEF SentInv, Typed, Message
  <2>2. widget[n.life].at = "answer"
    BY <2>1
  <2> QED
    BY <1>1, <2>1, <2>2
<1>5. widget'[l].at # "answer"
  BY <1>1, CommandAssumption DEF Typed, Message, Commands
<1>6. \A k \in Life : widget'[k].at = "answer" => widget'[k].of.click \in Done
  BY <1>1, <1>5 DEF SentInv
<1> QED
  BY <1>3, <1>4, <1>6 DEF SentInv

\* ShowWindow has returned.
LEMMA ShownStep ==
  ASSUME Typed, SentInv, NEW l \in Life, Busy(l), widget[l].at # "answer",
         widget' = [widget EXCEPT ![l] = [@ EXCEPT !.at = "answer"]], sent' = sent,
         Done' = Done \cup {widget[l].of.click}
  PROVE  SentInv'
<1> DEFINE m == widget[l].of
<1>1. widget[l] \in [at : Command \cup {"answer"}, of : Message]
  BY WidgetKeeps
<1>2. m \in sent /\ m.life = l
  BY DEF SentInv
<1>3. [widget[l] EXCEPT !.at = "answer"] = [at |-> "answer", of |-> m]
  BY <1>1
<1>4. widget'[l] = [at |-> "answer", of |-> m] /\ \A k \in Life \ {l} : widget'[k] = widget[k]
  BY <1>3 DEF Typed
<1>5. widget'[l].of = m
  BY <1>4
<1>6. \A k \in Life : Busy(k)' => widget'[k].of \in sent' /\ widget'[k].of.life = k
  BY <1>2, <1>4, <1>5 DEF Busy, SentInv
<1>7. ASSUME NEW n \in sent, n.click \in Done' PROVE widget'[n.life] = [at |-> "answer", of |-> n]
  <2>1. CASE n.click = m.click
    <3>1. n = m
      BY <1>2, <2>1 DEF SentInv
    <3> QED
      BY <1>2, <1>4, <3>1
  <2>2. CASE n.click \in Done
    <3>1. n.life \in Life /\ widget[n.life] = [at |-> "answer", of |-> n]
      BY <2>2 DEF SentInv, Typed, Message
    <3>2. widget[n.life].at = "answer"
      BY <3>1
    <3> QED
      BY <1>4, <3>1, <3>2
  <2> QED
    BY <1>7, <2>1, <2>2
<1>8. \A k \in Life : widget'[k].at = "answer" => widget'[k].of.click \in Done'
  BY <1>4, <1>5 DEF SentInv
<1> QED
  BY <1>6, <1>7, <1>8 DEF SentInv

\* A step of a thread that has no command, or one that ends with its process.
LEMMA IdleStep ==
  ASSUME Typed, SentInv, NEW l \in Life, NEW w, widget' = [widget EXCEPT ![l] = w], Done' = Done,
         w.at \notin Command \cup {"answer"},
         \/ ~Busy(l) /\ sent' = sent
         \/ sent' = {m \in sent : m.life # l}
  PROVE  SentInv'
<1>1. widget'[l] = w /\ \A k \in Life \ {l} : widget'[k] = widget[k]
  BY DEF Typed
<1>2. \A k \in Life : Busy(k)' => widget'[k].of \in sent' /\ widget'[k].of.life = k
  BY <1>1 DEF Busy, SentInv
<1>3. ASSUME NEW n \in sent', n.click \in Done PROVE widget'[n.life] = [at |-> "answer", of |-> n]
  <2>1. n \in sent /\ n.life \in Life /\ widget[n.life] = [at |-> "answer", of |-> n]
    BY <1>3 DEF SentInv, Typed, Message
  <2>2. widget[n.life].at = "answer"
    BY <2>1
  <2>3. n.life # l
    BY <2>2 DEF Busy
  <2> QED
    BY <1>1, <2>1, <2>3
<1>4. \A k \in Life : widget'[k].at = "answer" => widget'[k].of.click \in Done
  BY <1>1 DEF SentInv
<1> QED
  BY <1>2, <1>3, <1>4 DEF SentInv

LEMMA ClientStep ==
  ASSUME Typed, Typed', SightInv, Later, SentInv, AnswerInv, NEW l \in Life, Client(l)
  PROVE  SentInv' /\ ClientEffect /\ AnswerInv'
<1> USE DEF Works
<1>1. ASSUME Settles, UNCHANGED <<feedback, clicks, inbox, panel>>, SentInv'
      PROVE  SentInv' /\ ClientEffect /\ AnswerInv'
  BY <1>1, AnswerKept DEF ClientEffect
<1>2. ASSUME UNCHANGED <<sent, Done>> PROVE Settles
  BY <1>2 DEF Settles
<1>3. CASE StartClient(l) \/ UserMoves(l) \/ TakeChord(l) \/ CloseFrame(l)
  <2>1. UNCHANGED <<sent, Done, widget, feedback, clicks, inbox, panel>>
    BY DoneKept, <1>3 DEF StartClient, UserMoves, TakeChord, CloseFrame
  <2>2. SentInv'
    BY <2>1 DEF SentInv, Busy
  <2> QED
    BY <1>1, <1>2, <2>1, <2>2
<1>4. CASE ExitProcess(l)
  <2>1. /\ widget' = [widget EXCEPT ![l] = [at |-> "idle"]] /\ sent' = {m \in sent : m.life # l}
        /\ UNCHANGED <<Done, feedback, clicks, inbox, panel>>
    BY DoneKept, <1>4 DEF ExitProcess
  <2>2. "idle" \notin Command \cup {"answer"}
    BY CommandAssumption DEF Commands
  <2>3. SentInv'
    BY <2>1, <2>2, IdleStep
  <2>4. Settles
    BY <2>1 DEF Settles
  <2> QED
    BY <1>1, <2>1, <2>3, <2>4
<1>5. CASE Tick(l) \/ Sample(l) \/ Publish(l)
  <2>1. /\ UNCHANGED <<sent, Done, feedback, clicks, inbox, panel>>
        /\ widget[l].at \in {"idle", "stamped", "sampled"}
        /\ \/ widget' = [widget EXCEPT ![l] = [at |-> "idle"]]
           \/ widget' = [widget EXCEPT ![l] = [at |-> "stamped", tick |-> clock]]
           \/ widget' = [widget EXCEPT ![l] = [at |-> "sampled", record |-> Record(l, widget[l].tick)]]
    BY <1>5, DoneKept DEF Tick, Sample, Publish
  <2>2. {"idle", "stamped", "sampled"} \cap (Command \cup {"answer"}) = {}
    BY CommandAssumption DEF Commands
  <2>3. ~Busy(l)
    BY <2>1, <2>2 DEF Busy
  <2>4. SentInv'
    BY <2>1, <2>2, <2>3, IdleStep
  <2> QED
    BY <1>1, <1>2, <2>1, <2>4
<1>6. ASSUME NEW m \in sent, Begin(l, m) PROVE SentInv' /\ ClientEffect /\ AnswerInv'
  <2>1. /\ widget[l].at = "idle" /\ m.life = l /\ Done' = Done /\ lastSeen' = lastSeen
        /\ UNCHANGED <<feedback, clicks, inbox>>
    BY <1>6, DoneKept DEF Begin
  <2>2. CASE \E result \in {"Rejected", "TargetChanged", "Unavailable"} : Answer(l, m, result)
    <3>1. m.click \notin Done
      <4>1. m.click \in Done => widget[l] = [at |-> "answer", of |-> m]
        BY <2>1 DEF SentInv
      <4> QED
        BY <2>1, <4>1
    <3>2. {"Rejected", "TargetChanged", "Unavailable"} \subseteq Results \ Successes
      BY DEF Results, Successes
    <3> QED
      BY <2>1, <2>2, <3>1, <3>2, AnswerStep
  <2>4. CASE /\ widget' = [widget EXCEPT ![l] = [at |-> m.command, of |-> m]]
             /\ UNCHANGED <<sent, panel>>
    <3>1. SentInv'
      BY <2>1, <2>4, StartStep
    <3> QED
      BY <1>1, <1>2, <2>1, <2>4, <3>1
  <2> QED
    BY <1>6, <2>2, <2>4 DEF Begin
<1>15. ASSUME NEW m \in sent, FindAsAsked(l, m) PROVE SentInv' /\ ClientEffect /\ AnswerInv'
  <2>1. /\ widget[l].at = "idle" /\ m.life = l /\ lastSeen' = lastSeen
        /\ UNCHANGED <<feedback, clicks, inbox>> /\ AsAsked(l, m.command)
        /\ Answer(l, m, "Observed") /\ CarryOut(l, m)
    BY <1>15 DEF FindAsAsked
  <2>2. Done' = Done \cup {m.click}
    BY <2>1, CarryOutEffect DEF Typed
  <2>3. "Observed" \in Results \ Refusals
    BY DEF Results, Refusals
  <2> QED
    BY <2>1, <2>2, <2>3, AnswerStep
<1>7. ASSUME Busy(l), NEW result \in Results, Answer(l, widget[l].of, result),
             result # "Observed", Done' = Done \/ Done' = Done \cup {widget[l].of.click},
             result \in Refusals => Done' = Done /\ widget[l].at # "answer",
             result \in Successes => widget[l].of.click \in Done',
             UNCHANGED <<feedback, clicks, inbox>>
      PROVE  SentInv' /\ ClientEffect /\ AnswerInv'
  <2>1. widget[l].of \in sent /\ widget[l].of.life = l
    BY <1>7 DEF SentInv
  <2>2. widget[l].at # "answer" => widget[l].of.click \notin Done
    <3>1. widget[l].of.click \in Done => widget[l] = [at |-> "answer", of |-> widget[l].of]
      BY <2>1 DEF SentInv
    <3>2. [at |-> "answer", of |-> widget[l].of].at = "answer"
      OBVIOUS
    <3> QED
      BY <3>1, <3>2
  <2>4. result \in Refusals => widget[l].of.click \notin Done'
    BY <1>7, <2>2
  <2> QED
    BY <1>7, <2>1, <2>4, AnswerStep
<1>8. /\ {"Rejected", "Accepted", "Unknown", "Observed"} \subseteq Results
      /\ Successes = {"Accepted", "Observed"} /\ "Rejected" \in Refusals
      /\ {"Accepted", "Observed", "Unknown"} \cap Refusals = {}
  BY DEF Results, Successes, Refusals
<1>16. Busy(l) => widget[l].of \in sent /\ widget[l].of \in Message /\ widget[l].of.life = l
  BY WidgetKeeps DEF SentInv
<1>9. CASE Minimize(l) \/ Restore(l)
  <2>1. Busy(l) /\ widget[l].at # "answer" /\ UNCHANGED <<feedback, clicks, inbox>>
    BY <1>9, WidgetKeeps DEF Minimize, Restore, ShowWindow
  <2>2. CASE Answer(l, widget[l].of, "Rejected") /\ Done' = Done
    BY <1>7, <1>8, <2>1, <2>2
  <2>3. CASE /\ widget' = [widget EXCEPT ![l] = [@ EXCEPT !.at = "answer"]] /\ sent' = sent
             /\ Done' = Done \cup {widget[l].of.click} /\ panel' = panel
    <3>1. SentInv'
      BY <2>1, <2>3, ShownStep
    <3>2. Settles
      BY <2>1, <2>3 DEF Settles, SentInv
    <3> QED
      BY <1>1, <2>1, <2>3, <3>1, <3>2
  <2>4. CarryOut(l, widget[l].of) => Done' = Done \cup {widget[l].of.click}
    BY <1>16, <2>1, CarryOutEffect
  <2> QED
    BY <1>9, <2>2, <2>3, <2>4, DoneKept DEF Minimize, Restore, ShowWindow
<1>10. CASE AnswerWindow(l)
  <2>1. /\ Busy(l) /\ UNCHANGED <<feedback, clicks, inbox, Done, lastSeen>>
        /\ widget[l].of.click \in Done'
    BY <1>10, DoneKept DEF AnswerWindow, Busy, SentInv
  <2>2. CASE AsAsked(l, widget[l].of.command) /\ Answer(l, widget[l].of, "Observed")
    <3>1. widget[l].of \in sent /\ widget[l].of.life = l
      BY <2>1 DEF SentInv
    <3> QED
      BY <1>8, <2>1, <2>2, <3>1, AnswerStep
  <2>3. CASE Answer(l, widget[l].of, "Accepted")
    BY <1>7, <1>8, <2>1, <2>3
  <2> QED
    BY <1>10, <2>2, <2>3 DEF AnswerWindow
<1>11. CASE ToggleFullscreen(l) \/ Disconnect(l)
  <2>1. Busy(l) /\ widget[l].at # "answer" /\ UNCHANGED <<feedback, clicks, inbox>>
    BY <1>11, WidgetKeeps, ToggleEffect DEF Disconnect
  <2>2. \/ Answer(l, widget[l].of, "Accepted") /\ Done' = Done \cup {widget[l].of.click}
        \/ Answer(l, widget[l].of, "Rejected") /\ Done' = Done
        \/ /\ Answer(l, widget[l].of, "Unknown")
           /\ Done' = Done \/ Done' = Done \cup {widget[l].of.click}
    <3>1. CarryOut(l, widget[l].of) => Done' = Done \cup {widget[l].of.click}
      BY <1>16, <2>1, CarryOutEffect
    <3> QED
      BY <1>11, <3>1, DoneKept, ToggleEffect DEF Disconnect
  <2> QED
    BY <1>7, <1>8, <2>1, <2>2
<1> QED
  BY <1>3, <1>4, <1>5, <1>6, <1>9, <1>10, <1>11, <1>15 DEF Client

-----------------------------------------------------------------------------
(* Clicks: what the steps of the panel do to them                          *)

LEMMA ClickTypes ==
  ASSUME Typed
  PROVE  /\ clicks \in Nat /\ feedback.click \in Nat /\ PanelClick \in Nat /\ Done \subseteq Nat
         /\ \A m \in sent : m.click \in Nat /\ m.click \in Clicks
         /\ \A i \in DOMAIN inbox : inbox[i].click \in Nat /\ inbox[i].command \in Command
<1>1. inbox \in Seq(Clicked)
  BY DEF Typed
<1>2. \A i \in DOMAIN inbox : inbox[i] \in Clicked
  BY <1>1
<1>3. \A i \in DOMAIN inbox : inbox[i].click \in Nat /\ inbox[i].command \in Command
  BY <1>2, ClicksAreNat DEF Clicked
<1>4. \A m \in sent : m.click \in Nat /\ m.click \in Clicks
  BY ClicksAreNat DEF Typed, Message
<1>5. Done \subseteq Nat
  BY ClicksAreNat DEF Done
<1>6. clicks \in Nat /\ feedback.click \in Nat
  BY ClicksAreNat, BoundAssumption DEF Typed
<1> QED
  BY <1>3, <1>4, <1>5, <1>6, PanelKeeps

\* The steps of the clients leave the order of the clicks as it is.
LEMMA ClientClicks ==
  ASSUME Typed, Typed', ClickInv, ClientEffect
  PROVE  ClickInv'
<1>1. PanelClick' = PanelClick
  BY PanelKeeps DEF ClientEffect, PanelClick
<1>2. feedback' = feedback /\ clicks' = clicks /\ inbox' = inbox /\ Settles
  BY DEF ClientEffect
<1>3. Newer(clicks + 1)'
  <2>1. clicks + 1 \in Nat
    BY ClickTypes
  <2> QED
    BY <1>2, <2>1 DEF ClickInv, Newer, Settles
<1>4. \A i \in DOMAIN inbox : Newer(inbox[i].click)'
  BY <1>2 DEF ClickInv, Newer, Settles
<1>5. panel'.at = "read" => panel'.for.command = "poll" \/ Newer(panel.for.click)'
  BY <1>2 DEF ClientEffect, ClickInv, Newer, Settles
<1>6. panel'.at = "find" => Newer(panel.of.click)'
  BY <1>2 DEF ClientEffect, ClickInv, Newer, Settles
<1>7. panel'.at \in {"wait", "answered"} => feedback'.click < panel'.of.click
  BY <1>2 DEF ClientEffect, ClickInv
<1> QED
  BY <1>1, <1>2, <1>3, <1>4, <1>5, <1>6, <1>7 DEF ClickInv

\* A step that takes up no click and gives no feedback to one.
LEMMA FeedbackChanged ==
  ASSUME Typed, ClickInv, panel'.at = "idle", UNCHANGED <<sent, Done, inbox, clicks>>,
         feedback'.click = feedback.click \/ feedback'.click = PanelClick
  PROVE  ClickInv'
<1>1. PanelClick' = 0
  BY DEF PanelClick
<1>2. \A i \in DOMAIN inbox : Newer(inbox[i].click)'
  BY ClickTypes DEF ClickInv, Newer
<1>3. Newer(clicks + 1)'
  BY ClickTypes DEF ClickInv, Newer
<1>4. \A i \in DOMAIN inbox : 0 < inbox[i].click /\ inbox[i].click <= clicks
  BY ClickTypes DEF ClickInv
<1> QED
  BY <1>1, <1>2, <1>3, <1>4, ClickTypes DEF ClickInv

LEMMA ClickStep ==
  ASSUME Typed, ClickInv, NEW command \in Command, Click(command)
  PROVE  ClickInv'
<1> DEFINE new == [command |-> command, click |-> clicks + 1]
<1>1. /\ clicks' = clicks + 1 /\ inbox' = Append(inbox, new)
      /\ UNCHANGED <<sent, Done, feedback, panel>> /\ clicks \in Nat /\ clicks + 1 \in Nat
      /\ clicks + 1 \in Clicks
  <2>1. clicks \in 0..MaxClick /\ clicks < MaxClick
    BY DEF Click, Typed
  <2>2. clicks + 1 \in Clicks /\ clicks \in Nat /\ clicks + 1 \in Nat
    BY <2>1, BoundAssumption DEF Clicks
  <2> QED
    BY <2>2, DoneKept DEF Click
<1>2. /\ DOMAIN inbox' = 1..(Len(inbox) + 1) /\ DOMAIN inbox = 1..Len(inbox) /\ Len(inbox) \in Nat
      /\ inbox'[Len(inbox) + 1] = new /\ \A i \in DOMAIN inbox : inbox'[i] = inbox[i]
  <2>1. inbox \in Seq(Clicked) /\ new \in Clicked
    BY <1>1 DEF Typed, Clicked
  <2> HIDE DEF new
  <2> QED
    BY <1>1, <2>1
<1>3. new.click = clicks + 1
  OBVIOUS
<1> HIDE DEF new
<1>4. PanelClick' = PanelClick
  BY <1>1 DEF PanelClick
<1>5. Newer(clicks + 1) /\ PanelClick < clicks + 1 /\ PanelClick <= clicks'
  BY <1>1, ClickTypes DEF ClickInv
<1>6. \A k \in Nat : Newer(k) => Newer(k)'
  BY <1>1 DEF Newer
<1>7. Newer(clicks + 1)' 
  BY <1>1, <1>5, ClickTypes DEF Newer
<1>8. ASSUME NEW i \in DOMAIN inbox'
      PROVE  /\ Newer(inbox'[i].click) /\ PanelClick < inbox'[i].click /\ inbox'[i].click <= clicks'
             /\ \A j \in DOMAIN inbox' : j < i => inbox'[j].click < inbox'[i].click
  <2>1. CASE i = Len(inbox) + 1
    <3>1. inbox'[i].click = clicks + 1
      BY <1>2, <1>3, <2>1
    <3>2. \A j \in DOMAIN inbox' : j < i => j \in DOMAIN inbox
      BY <1>2, <2>1
    <3>3. \A j \in DOMAIN inbox : inbox[j].click <= clicks /\ inbox[j].click \in Nat
      BY ClickTypes DEF ClickInv
    <3> QED
      BY <1>1, <1>2, <1>5, <3>1, <3>2, <3>3
  <2>2. CASE i \in DOMAIN inbox
    <3>1. \A j \in DOMAIN inbox' : j < i => j \in DOMAIN inbox
      BY <1>2, <2>2
    <3>2. /\ Newer(inbox[i].click) /\ PanelClick < inbox[i].click /\ inbox[i].click <= clicks
          /\ inbox[i].click \in Nat
          /\ \A j \in DOMAIN inbox : j < i => inbox[j].click < inbox[i].click
      BY <2>2, ClickTypes DEF ClickInv
    <3> QED
      BY <1>1, <1>2, <2>2, <3>1, <3>2
  <2> QED
    BY <1>2, <2>1, <2>2
<1>9. \A i \in DOMAIN inbox' : Newer(inbox[i].click)'
  BY <1>1, <1>8 DEF Newer
<1> QED
  BY <1>1, <1>4, <1>5, <1>7, <1>8, <1>9 DEF ClickInv, Newer

LEMMA TakeClickStep ==
  ASSUME Typed, ClickInv, TakeClick
  PROVE  ClickInv'
<1>1. /\ panel' = [at |-> "read", for |-> Head(inbox), target |-> FindTarget]
      /\ inbox' = Tail(inbox) /\ inbox # <<>> /\ UNCHANGED <<sent, Done, feedback, clicks>>
  BY DoneKept DEF TakeClick
<1>2. panel'.at = "read" /\ panel'.for = Head(inbox)
  BY <1>1
<1>3. /\ Head(inbox) = inbox[1] /\ 1 \in DOMAIN inbox
      /\ \A i \in DOMAIN inbox' : i + 1 \in DOMAIN inbox /\ 1 < i + 1 /\ inbox'[i] = inbox[i + 1]
      /\ \A i, j \in DOMAIN inbox' : j < i => j + 1 < i + 1
  <2>1. inbox \in Seq(Clicked)
    BY DEF Typed
  <2> QED
    BY <1>1, <2>1
<1>4. PanelClick' = inbox[1].click
  BY <1>2, <1>3 DEF PanelClick
<1>6. Newer(inbox[1].click) /\ inbox[1].click <= clicks
  BY <1>3 DEF ClickInv
<1>7. \A i \in DOMAIN inbox' : /\ Newer(inbox'[i].click) /\ inbox[1].click < inbox'[i].click
                               /\ inbox'[i].click <= clicks
                               /\ \A j \in DOMAIN inbox' : j < i => inbox'[j].click < inbox'[i].click
  BY <1>3 DEF ClickInv
<1>9. Newer(clicks + 1)
  BY DEF ClickInv
<1> QED
  BY <1>1, <1>2, <1>3, <1>4, <1>6, <1>7, <1>9 DEF ClickInv, Newer

\* The steps of the panel keep all that is said of clicks, commands and answers.
ClickParts == SentInv /\ ClickInv /\ AnswerInv /\ FeedbackInv

LEMMA PanelStep ==
  ASSUME Typed, Typed', SightInv, Later, RecordInv, ClickParts,
         \/ \E command \in Command : Click(command)
         \/ ApplyStateToWidget \/ StatusThread \/ TakeTimer
  PROVE  ClickParts'
<1> USE DEF ClickParts
<1>0. Done' = Done
  BY DoneKept DEF Click, ApplyStateToWidget, StatusThread, TakeTimer, TakeClick, PollStatus,
    OnSendCommand, SendLocalWidgetCommand, SendTimesOut, TakeAnswer
<1>1. ASSUME UNCHANGED <<sent, Done, widget>> PROVE SentInv' /\ Settles
  BY <1>1 DEF SentInv, Busy, Settles
<1>2. ASSUME NEW command \in Command, Click(command) PROVE ClickParts'
  <2>1. UNCHANGED <<sent, Done, widget, feedback, panel>>
    BY <1>0, <1>2 DEF Click
  <2> QED
    BY <1>1, <1>2, <2>1, ClickStep, AnswerKept, FeedbackKept
<1>3. CASE ApplyStateToWidget
  <2>1. UNCHANGED <<sent, Done, widget, feedback, panel, clicks, inbox>>
    BY <1>0, <1>3 DEF ApplyStateToWidget
  <2>2. ClientEffect
    BY <1>1, <2>1 DEF ClientEffect
  <2> QED
    BY <1>1, <2>1, <2>2, ClientClicks, AnswerKept, FeedbackKept
<1>4. CASE TakeTimer
  <2>1. /\ UNCHANGED <<sent, Done, widget, feedback, clicks, inbox>> /\ inbox = <<>>
        /\ panel' = [at |-> "read", for |-> [command |-> "poll", click |-> 0], target |-> FindTarget]
    BY <1>0, <1>4 DEF TakeTimer
  <2>2. panel'.at = "read" /\ panel'.for.command = "poll" /\ panel'.for.click = 0
    BY <2>1
  <2>3. PanelClick' = 0 /\ Newer(clicks + 1)' /\ DOMAIN inbox' = {}
    BY <2>1, <2>2 DEF PanelClick, ClickInv, Newer
  <2>4. ClickInv'
    BY <2>1, <2>2, <2>3, ClickTypes DEF ClickInv
  <2>5. AnswerInv'
    BY <2>2 DEF AnswerInv
  <2> QED
    BY <1>1, <2>1, <2>4, <2>5, FeedbackKept
<1>5. CASE TakeClick
  <2>1. /\ UNCHANGED <<sent, Done, widget, feedback>> /\ panel'.at = "read"
    BY <1>0, <1>5 DEF TakeClick
  <2>2. AnswerInv'
    BY <2>1 DEF AnswerInv
  <2> QED
    BY <1>1, <1>5, <2>1, <2>2, TakeClickStep, FeedbackKept
<1>6. ASSUME panel'.at = "idle", UNCHANGED <<sent, Done, widget, inbox, clicks>>,
             feedback'.click = feedback.click \/ feedback'.click = PanelClick, FeedbackInv'
      PROVE  ClickParts'
  <2>1. AnswerInv'
    BY <1>6 DEF AnswerInv
  <2> QED
    BY <1>1, <1>6, <2>1, FeedbackChanged
<1>7. CASE PollStatus
  <2>1. /\ panel'.at = "idle" /\ UNCHANGED <<sent, Done, widget, inbox, clicks, lastSeen>>
    BY <1>0, <1>7 DEF PollStatus
  <2>2. CASE feedback' = feedback
    BY <1>1, <1>6, <2>1, <2>2, FeedbackKept
  <2>3. ASSUME NEW result \in {"NoReceiver", "Ambiguous", "TargetChanged", "Unknown"},
               feedback' = [feedback EXCEPT !.result = result]
        PROVE  ClickParts'
    <3>1. feedback'.result = result /\ feedback'.click = feedback.click
      BY <2>3 DEF Typed
    <3>2. FeedbackInv'
      BY <3>1 DEF FeedbackInv
    <3> QED
      BY <1>6, <2>1, <3>1, <3>2
  <2>4. CASE /\ feedback' = [feedback EXCEPT !.result = "Observed"]
             /\ Active(panel.target, file) /\ Shows(feedback, file)
             /\ feedback.command \notin {"reconnect", "disconnect"}
    <3>1. /\ feedback'.result = "Observed" /\ feedback'.click = feedback.click
          /\ feedback'.life = feedback.life /\ feedback'.tick = feedback.tick
          /\ feedback'.command = feedback.command
      BY <2>4 DEF Typed
    <3>2. file.life \in Life /\ file.life = feedback.life /\ file.tick >= feedback.tick
          /\ file.tick \in Nat /\ feedback.tick \in Nat
      BY <2>4 DEF Active, Shows, Typed, RecordOf
    <3>3. lastSeen[file.life].iconic \in Nat /\ lastSeen[file.life].normal \in Nat
      BY <3>2 DEF Typed, Sight
    <3>4. True(file)
      BY <3>2 DEF RecordInv
    <3>5. SeenSince(feedback)
      BY <2>4, <3>2, <3>3, <3>4 DEF SeenSince, Shows, WindowOutcome, True
    <3>6. FeedbackInv'
      BY <2>1, <3>1, <3>2, <3>5 DEF FeedbackInv, SeenSince
    <3> QED
      BY <1>6, <2>1, <3>1, <3>6
  <2>5. TargetResult(panel.target, file) # "Observed" =>
          TargetResult(panel.target, file) \in {"NoReceiver", "Ambiguous", "TargetChanged"}
    BY DEF TargetResult
  <2> QED
    BY <1>7, <2>2, <2>3, <2>4, <2>5 DEF PollStatus, ObserveFeedback
<1>8. ASSUME NEW of, NEW result, SetFeedback(of, result), of.click = PanelClick,
             UNCHANGED <<sent, Done, widget, inbox, clicks, lastSeen>>,
             result = "Rejected" => Final(PanelClick) /\ PanelClick \in Clicks,
             result = "Observed" => of.life \in Life /\ SeenSince(of)
      PROVE  ClickParts'
  <2>1. /\ panel'.at = "idle" /\ feedback'.click = of.click /\ feedback'.result = result
        /\ feedback'.life = of.life /\ feedback'.tick = of.tick /\ feedback'.command = of.command
    BY <1>8 DEF SetFeedback
  <2>2. FeedbackInv'
    BY <1>8, <2>1 DEF FeedbackInv, Final, SeenSince
  <2> QED
    BY <1>6, <1>8, <2>1, <2>2
<1>9. CASE OnSendCommand
  <2>1. UNCHANGED <<sent, Done, widget, inbox, clicks, lastSeen, clock>>
    BY <1>0, <1>9 DEF OnSendCommand
  <2>2. PanelClick = panel.for.click /\ Bound.click = panel.for.click /\ Bound.tick = clock
        /\ Newer(panel.for.click)
    BY <1>9 DEF OnSendCommand, PanelClick, Bound, ClickInv
  <2>3. CASE panel' = [at |-> "find", of |-> Bound] /\ UNCHANGED feedback
    <3>1. panel'.at = "find" /\ panel'.of = Bound
      BY <2>3
    <3>2. PanelClick' = PanelClick
      BY <2>2, <3>1 DEF PanelClick
    <3>3. Newer(panel'.of.click) /\ \A k : Newer(k) => Newer(k)'
      BY <2>1, <2>2, <2>3, <3>1 DEF Newer
    <3>4. ClickInv'
      BY <2>1, <2>3, <3>1, <3>2, <3>3 DEF ClickInv, Newer
    <3>5. AnswerInv'
      BY <2>1, <2>2, <3>1 DEF AnswerInv, Typed
    <3> QED
      BY <1>1, <2>1, <2>3, <3>4, <3>5, FeedbackKept
  <2>4. CASE \E result \in Results \ {"Rejected", "Observed"} : SetFeedback(Bound, result)
    BY <1>8, <2>1, <2>2, <2>4
  <2>5. TargetResult(panel.target, file) # "Observed" =>
          TargetResult(panel.target, file) \in Results \ {"Rejected", "Observed"}
    BY DEF TargetResult, Results
  <2>6. "Unavailable" \in Results \ {"Rejected", "Observed"}
    BY DEF Results
  <2> QED
    BY <1>9, <2>3, <2>4, <2>5, <2>6 DEF OnSendCommand
<1>10. CASE SendLocalWidgetCommand
  <2>1. UNCHANGED <<Done, widget, inbox, clicks, lastSeen, clock>> /\ panel.at = "find"
    BY <1>0, <1>10 DEF SendLocalWidgetCommand
  <2>2. /\ panel.of \in Bind /\ panel.of.life \in Life /\ panel.of.click \in Clicks
        /\ panel.of.click \in Nat
        /\ PanelClick = panel.of.click /\ Newer(panel.of.click)
    BY <2>1, PanelKeeps, ClicksAreNat DEF PanelClick, ClickInv
  <2>3. CASE /\ FindTarget = panel.of.life
             /\ panel' = [at |-> "wait", of |-> panel.of, result |-> "Unknown"]
             /\ sent' = sent \cup {[life |-> FindTarget, command |-> panel.of.command,
                                    click |-> panel.of.click]}
             /\ UNCHANGED feedback
    <3> DEFINE m == [life |-> FindTarget, command |-> panel.of.command, click |-> panel.of.click]
    <3>1. /\ m.life = panel.of.life /\ m.command = panel.of.command /\ m.click = panel.of.click
          /\ sent' = sent \cup {m}
      BY <2>3
    <3>2. panel'.at = "wait" /\ panel'.of = panel.of
      BY <2>3
    <3> HIDE DEF m
    <3>3. /\ m.click \notin Done /\ \A n \in sent : n.click # m.click /\ n.click < m.click
          /\ feedback.click < m.click
      BY <2>2, <3>1, ClickTypes DEF Newer
    <3>4. SentInv'
      BY <2>1, <3>1, <3>3 DEF SentInv, Busy
    <3>5. PanelClick' = PanelClick
      BY <2>2, <3>2 DEF PanelClick
    <3>6. \A i \in DOMAIN inbox : Newer(inbox[i].click)'
      BY <2>1, <2>2, <2>3, <3>1, ClickTypes DEF ClickInv, Newer
    <3>7. Newer(clicks + 1)'
      BY <2>1, <2>2, <2>3, <3>1, ClickTypes DEF ClickInv, Newer
    <3>8. ClickInv'
      BY <2>1, <2>3, <3>1, <3>2, <3>3, <3>5, <3>6, <3>7 DEF ClickInv
    <3>9. AnswerInv'
      BY <2>1, <3>1, <3>2, <3>3 DEF AnswerInv
    <3>10. FeedbackInv'
      BY <2>1, <2>3, <3>1, <3>3, ClickTypes DEF FeedbackInv, Final, SeenSince
    <3> QED
      BY <3>4, <3>8, <3>9, <3>10
  <2>4. CASE SetFeedback(panel.of, "Rejected") /\ UNCHANGED sent
    <3>1. Final(PanelClick)
      BY <2>2, ClickTypes DEF Newer, Final
    <3> QED
      BY <1>8, <2>1, <2>2, <2>4, <3>1
  <2>5. CASE /\ FindTarget # panel.of.life /\ UNCHANGED sent
             /\ SetFeedback(panel.of, TargetResult(FindTarget, panel.of))
    <3>1. TargetResult(FindTarget, panel.of) \notin {"Rejected", "Observed"}
      BY <2>2, <2>5, LifeAssumption DEF TargetResult
    <3> QED
      BY <1>8, <2>1, <2>2, <2>5, <3>1
  <2> QED
    BY <1>10, <2>3, <2>4, <2>5 DEF SendLocalWidgetCommand
<1>11. CASE SendTimesOut
  <2>1. SetFeedback(panel.of, "TimedOut") /\ panel.of.click = PanelClick
        /\ UNCHANGED <<sent, Done, widget, inbox, clicks, lastSeen>>
    BY <1>0, <1>11 DEF SendTimesOut, PanelClick
  <2> QED
    BY <1>8, <2>1
<1>12. CASE TakeAnswer
  <2>1. SetFeedback(panel.of, panel.result) /\ panel.of.click = PanelClick /\ panel.of.life \in Life
        /\ PanelClick \in Clicks
        /\ UNCHANGED <<sent, Done, widget, inbox, clicks, lastSeen>>
    BY <1>0, <1>12, PanelKeeps DEF TakeAnswer, PanelClick
  <2>2. /\ panel.result = "Rejected" => Final(PanelClick)
        /\ panel.result = "Observed" => SeenSince(panel.of)
    BY <1>12, <2>1 DEF TakeAnswer, AnswerInv, Refusals
  <2> QED
    BY <1>8, <2>1, <2>2
<1> QED
  BY <1>2, <1>3, <1>4, <1>5, <1>7, <1>9, <1>10, <1>11, <1>12 DEF StatusThread

-----------------------------------------------------------------------------
(* The invariant holds                                                     *)

LEMMA InvInit == Init => Inv
<1> SUFFICES ASSUME Init PROVE Inv
  OBVIOUS
<1>1. Typed /\ SightInv /\ RecordInv
  BY TypedInit, SightInit, RecordInit
<1>2. panel.at = "idle" /\ feedback.click = 0 /\ feedback.result = "Unknown"
  BY DEF Init, NoFeedback
<1>3. /\ sent = {} /\ Done = {} /\ clicks = 0 /\ inbox = <<>> /\ \A l \in Life : widget[l].at = "idle"
  BY DEF Init, Done
<1>4. "idle" \notin Command \cup {"answer"}
  BY CommandAssumption DEF Commands
<1>5. SentInv
  BY <1>3, <1>4 DEF SentInv, Busy
<1>6. PanelClick = 0 /\ DOMAIN inbox = {} /\ Newer(clicks + 1)
  BY <1>2, <1>3 DEF PanelClick, Newer
<1>7. ClickInv
  BY <1>2, <1>3, <1>6 DEF ClickInv
<1>8. AnswerInv /\ FeedbackInv
  BY <1>2 DEF AnswerInv, FeedbackInv
<1> QED
  BY <1>1, <1>5, <1>7, <1>8 DEF Inv

LEMMA InvNext == Inv /\ [Next]_vars => Inv'
<1> SUFFICES ASSUME Inv, [Next]_vars PROVE Inv'
  OBVIOUS
<1> USE DEF Inv
<1>1. Typed' /\ SightInv' /\ Later
  BY TypedNext, SightNext
<1>2. RecordInv'
  BY <1>1, RecordNext
<1>3. ASSUME NEW l \in Life, Client(l) PROVE ClickParts'
  <2>1. SentInv' /\ ClientEffect /\ AnswerInv'
    BY <1>1, <1>3, ClientStep
  <2> QED
    BY <1>1, <2>1, ClientClicks, FeedbackKept DEF ClickParts, ClientEffect
<1>4. ASSUME \/ \E command \in Command : Click(command)
             \/ ApplyStateToWidget \/ StatusThread \/ TakeTimer
      PROVE  ClickParts'
  <2>1. ClickParts
    BY DEF ClickParts
  <2> QED
    BY <1>1, <1>4, <2>1, PanelStep
<1>5. ASSUME TimePasses \/ RecordAges \/ FeedbackAges \/ UserTapsKeys \/ UNCHANGED vars
      PROVE  ClickParts'
  <2>1. UNCHANGED <<sent, Done, widget, feedback, panel, clicks, inbox>>
    BY <1>5, DoneKept DEF TimePasses, RecordAges, FeedbackAges, UserTapsKeys, vars
  <2>2. ClientEffect /\ Settles /\ SentInv'
    BY <2>1 DEF ClientEffect, Settles, SentInv, Busy
  <2> QED
    BY <1>1, <2>1, <2>2, ClientClicks, AnswerKept, FeedbackKept DEF ClickParts
<1> QED
  BY <1>1, <1>2, <1>3, <1>4, <1>5 DEF Next, ClickParts

\* What a rejection excludes at the client, which the contract only says of the
\* outcome: no command of the click is on its way or with a thread of mstsc.
RejectionIsFinal ==
  feedback.result = "Rejected" =>
    /\ carriedOut[feedback.click] = <<>>
    /\ \A m \in sent : m.click # feedback.click
    /\ \A l \in Life : "of" \in DOMAIN widget[l] => widget[l].of.click # feedback.click

\* "Command rejected" is final, whatever the clients still have on their way and
\* whenever the answer came: the click was not carried out and never will be.
THEOREM RejectionCorrect == Spec => []RejectionIsFinal
<1>1. Inv => RejectionIsFinal
  <2>2. ASSUME Inv, feedback.result = "Rejected" PROVE carriedOut[feedback.click] = <<>>
    BY <2>2 DEF Inv, FeedbackInv, Final, Done
  <2>1. ASSUME Inv, feedback.result = "Rejected", NEW l \in Life, "of" \in DOMAIN widget[l]
        PROVE  widget[l].of.click # feedback.click
    BY <2>1, WidgetKeeps DEF Inv, SentInv, FeedbackInv, Final
  <2> QED
    BY <2>1, <2>2 DEF Inv, FeedbackInv, Final, RejectionIsFinal
<1> QED
  BY <1>1, InvInit, InvNext, PTL DEF Spec

\* "Requested window state observed" is true of the frame of the process that the
\* button was bound to, since the click, whatever records are about.
THEOREM ObservationCorrect == Spec => []ObservedIsTrue
<1>1. Inv => ObservedIsTrue
  BY DEF Inv, FeedbackInv, SeenSince, ObservedIsTrue
<1> QED
  BY <1>1, InvInit, InvNext, PTL DEF Spec

-----------------------------------------------------------------------------
(* The contract with the user                                              *)

LEMMA ContractInvInit == Init => ContractInv /\ Contract!Init
<1> SUFFICES ASSUME Init PROVE ContractInv /\ Contract!Init
  OBVIOUS
<1>1. /\ sent = {} /\ panel.at = "idle" /\ asked = [k \in Clicks |-> "none"]
      /\ carriedOut = [k \in Clicks |-> <<>>] /\ told = [k \in Clicks |-> "nothing"]
  BY DEF Init
<1>2. ContractInv
  BY <1>1 DEF ContractInv, Refusals
<1> QED
  BY <1>1, <1>2 DEF Contract!Init, ShownOf

\* A step that keeps the mapped state is a stutter of the contract.
LEMMA ContractStutter ==
  ASSUME UNCHANGED <<asked, carriedOut>>, \A k \in Clicks : ShownOf(k)' = ShownOf(k)
  PROVE  UNCHANGED Contract!vars
BY DEF Contract!vars, ShownOf

\* The steps of the clients carry clicks out, and tell nothing.
LEMMA ContractKept ==
  ASSUME Typed, ContractInv, ClientEffect, UNCHANGED <<asked, told>>
  PROVE  ContractInv'
<1>1. feedback' = feedback /\ sent' \subseteq sent /\ \A k : Final(k) => Final(k)'
  BY DEF ClientEffect, Settles, Final
<1>2. BoundClick' = BoundClick
  BY DEF ClientEffect, BoundClick
<1>3. panel'.at \in {"find", "wait", "answered"} =>
        panel.at \in {"find", "wait", "answered"} /\ panel'.of = panel.of
  BY DEF ClientEffect
<1> QED
  BY <1>1, <1>2, <1>3 DEF ContractInv

\* The process that a click was bound to carries it out, for the first time.
LEMMA CarriedOutByBound ==
  ASSUME Typed, SentInv, ContractInv, NEW l \in Life, NEW m \in sent, m.life = l,
         widget[l].at # "answer" \/ widget[l].of # m, CarryOut(l, m), UNCHANGED <<asked, told>>
  PROVE  Contract!CarryOut(m.click)
<1>1. m.click \in Clicks /\ asked[m.click] = l /\ l # "none"
  BY LifeAssumption DEF Typed, Message, ContractInv
<1>2. m.click \notin Done
  <2>1. m.click \in Done => widget[l] = [at |-> "answer", of |-> m]
    BY DEF SentInv
  <2> QED
    BY <2>1
<1>3. carriedOut[m.click] = <<>>
  BY <1>1, <1>2 DEF Done
<1>4. Append(<<>>, l) = <<l>>
  OBVIOUS
<1>5. carriedOut' = [carriedOut EXCEPT ![m.click] = <<asked[m.click]>>]
  BY <1>1, <1>3, <1>4 DEF CarryOut
<1>6. ShownOf(m.click) # "refused"
  BY <1>1 DEF ContractInv, Final, ShownOf, Shown
<1> QED
  BY <1>1, <1>3, <1>5, <1>6 DEF Contract!CarryOut, ShownOf

\* The first feedback of a click tells the truth.
LEMMA FeedbackShown ==
  ASSUME Typed, ContractInv, NEW of, NEW result \in Results, SetFeedback(of, result),
         of.click \in Clicks, feedback.click < of.click, BoundClick \in {0, of.click},
         UNCHANGED <<asked, carriedOut, sent>>,
         result \in Refusals => Final(of.click),
         asked[of.click] # "none" /\ result \in Successes => of.click \in Done
  PROVE  ContractInv' /\ [Contract!Next]_(Contract!vars)
<1> DEFINE c == of.click
<1>1. /\ told' = [told EXCEPT ![c] = result] /\ panel'.at = "idle" /\ feedback'.click = c
      /\ Done' = Done
  BY DoneKept DEF SetFeedback
<1>2. c \in Clicks /\ c \in Nat /\ feedback.click \in Nat /\ \A k \in Clicks : k \in Nat /\ k # 0
  BY ClicksAreNat, ClickTypes
<1>3. told'[c] = result /\ \A k \in Clicks \ {c} : told'[k] = told[k]
  BY <1>1, <1>2 DEF Typed
<1>4. told[c] = "nothing"
  BY <1>2 DEF ContractInv
<1> HIDE DEF c
<1>5. ContractInv'
  <2>1. ASSUME NEW k \in Clicks, asked[k] # "none" PROVE k <= c
    <3>1. k <= feedback.click \/ k = BoundClick
      BY <2>1 DEF ContractInv
    <3> QED
      BY <1>2, <3>1 DEF c
  <2>2. ASSUME NEW k \in Clicks, told'[k] # "nothing" PROVE k <= c
    <3>1. k = c \/ k <= feedback.click
      BY <1>3, <2>2 DEF ContractInv
    <3> QED
      BY <1>2, <3>1 DEF c
  <2>3. ASSUME NEW k \in Clicks, told'[k] \in Refusals PROVE Final(k)'
    <3>1. Final(k)
      BY <1>3, <2>3 DEF ContractInv, c
    <3> QED
      BY <1>1, <3>1 DEF Final
  <2> QED
    BY <1>1, <2>1, <2>2, <2>3 DEF ContractInv
<1>6. CASE asked[c] = "none"
  <2>1. \A k \in Clicks : ShownOf(k)' = ShownOf(k)
    BY <1>3, <1>6 DEF ShownOf
  <2> QED
    BY <1>5, <2>1, ContractStutter
<1>7. CASE asked[c] # "none"
  <2>1. /\ Shown(result) \in {"refused", "succeeded", "unknown"}
        /\ Shown(result) = "refused" => carriedOut[c] = <<>>
        /\ Shown(result) = "succeeded" => carriedOut[c] # <<>>
    BY <1>2, <1>7 DEF Shown, Results, Final, Done, c
  <2>2. [k \in Clicks |-> ShownOf(k)]' = [[k \in Clicks |-> ShownOf(k)] EXCEPT ![c] = Shown(result)]
    BY <1>2, <1>3, <1>7 DEF ShownOf
  <2>3. ShownOf(c) = "nothing"
    BY <1>4 DEF ShownOf, Shown, Refusals, Successes
  <2>4. Contract!Show(c, Shown(result))
    BY <1>2, <1>7, <2>1, <2>2, <2>3 DEF Contract!Show
  <2> QED
    BY <1>2, <1>5, <2>1, <2>4 DEF Contract!Next, Contract!Answers
<1> QED
  BY <1>6, <1>7

\* A step of a client carries one click out, or none.
LEMMA ContractClient ==
  ASSUME Inv, ContractInv, ClientEffect, NEW l \in Life, Client(l)
  PROVE  ContractInv' /\ [Contract!Next]_(Contract!vars)
<1> USE DEF Inv
<1>1. UNCHANGED <<asked, told>>
  BY ToggleEffect DEF Client, StartClient, UserMoves, TakeChord, CloseFrame, ExitProcess, Tick,
    Sample, Publish, Begin, FindAsAsked, Minimize, Restore, ShowWindow, AnswerWindow, Disconnect
<1>2. ContractInv'
  BY <1>1, ContractKept
<1>3. ASSUME UNCHANGED carriedOut PROVE [Contract!Next]_(Contract!vars)
  BY <1>1, <1>3, ContractStutter DEF ShownOf
<1>4. ASSUME NEW m \in sent, m.life = l, widget[l].at # "answer" \/ widget[l].of # m, CarryOut(l, m)
      PROVE  Contract!Next
  <2>1. m.click \in Clicks /\ Contract!CarryOut(m.click)
    BY <1>1, <1>4, CarriedOutByBound, ClickTypes
  <2> QED
    BY <2>1 DEF Contract!Next
<1>5. ASSUME NEW m \in sent, FindAsAsked(l, m) PROVE Contract!Next
  <2>1. m.life = l /\ widget[l].at = "idle" /\ CarryOut(l, m)
    BY <1>5 DEF FindAsAsked, Works
  <2> QED
    BY <1>4, <2>1
<1>6. CASE Minimize(l) \/ Restore(l) \/ ToggleFullscreen(l) \/ Disconnect(l)
  <2>1. widget[l].at \in {"minimize", "restore", "fullscreen", "reconnect", "disconnect"}
    BY <1>6, ToggleEffect DEF Minimize, Restore, ShowWindow, Disconnect, Works
  <2>2. widget[l].of \in sent /\ widget[l].of.life = l
    BY <2>1, WidgetKeeps DEF SentInv
  <2>3. CarryOut(l, widget[l].of) \/ UNCHANGED carriedOut
    BY <1>6, ToggleEffect DEF Minimize, Restore, ShowWindow, Disconnect
  <2>4. CarryOut(l, widget[l].of) => Contract!Next
    BY <1>4, <2>1, <2>2
  <2> QED
    BY <1>2, <1>3, <2>3, <2>4
<1>7. CASE \/ StartClient(l) \/ UserMoves(l) \/ TakeChord(l) \/ CloseFrame(l) \/ ExitProcess(l)
           \/ Tick(l) \/ Sample(l) \/ Publish(l) \/ AnswerWindow(l) \/ \E m \in sent : Begin(l, m)
  <2>1. UNCHANGED carriedOut
    BY <1>7 DEF StartClient, UserMoves, TakeChord, CloseFrame, ExitProcess, Tick, Sample, Publish,
      Begin, AnswerWindow
  <2> QED
    BY <1>2, <1>3, <2>1
<1> QED
  BY <1>2, <1>5, <1>6, <1>7 DEF Client

\* A step that binds no click, sends nothing and gives no first feedback.
LEMMA ContractIdle ==
  ASSUME ContractInv, UNCHANGED <<sent, asked, told, carriedOut>>, feedback'.click = feedback.click,
         BoundClick' = BoundClick,
         panel'.at \in {"find", "wait", "answered"} => panel' = panel
  PROVE  ContractInv' /\ [Contract!Next]_(Contract!vars)
<1>1. Done' = Done
  BY DoneKept
<1>2. ContractInv'
  BY <1>1 DEF ContractInv, Final
<1> QED
  BY <1>2, ContractStutter DEF ShownOf

\* The status thread binds a click, sends it, and tells of it.
LEMMA ContractStatusThread ==
  ASSUME Inv, ContractInv, StatusThread
  PROVE  ContractInv' /\ [Contract!Next]_(Contract!vars)
<1> USE DEF Inv
<1>0. /\ UNCHANGED carriedOut /\ Done' = Done
      /\ feedback.click \in Nat /\ \A k \in Clicks : k \in Nat /\ k # 0
      /\ "Rejected" \in Refusals /\ Refusals \cap Successes = {}
  <2>1. carriedOut' = carriedOut
    BY DEF StatusThread, TakeClick, PollStatus, OnSendCommand, SendLocalWidgetCommand, SendTimesOut,
      TakeAnswer
  <2> QED
    BY <2>1, DoneKept, ClicksAreNat, ClickTypes DEF Refusals, Successes
<1>1. CASE TakeClick
  <2>1. UNCHANGED <<sent, asked, told, feedback>> /\ panel.at = "idle" /\ panel'.at = "read"
    BY <1>1 DEF TakeClick
  <2> QED
    BY <1>0, <2>1, ContractIdle DEF BoundClick
<1>2. CASE PollStatus
  <2>1. UNCHANGED <<sent, asked, told>> /\ panel.at = "read" /\ panel'.at = "idle"
    BY <1>2 DEF PollStatus
  <2>2. feedback'.click = feedback.click
    <3>1. feedback' = feedback \/ \E result : feedback' = [feedback EXCEPT !.result = result]
      BY <1>2 DEF PollStatus, ObserveFeedback
    <3> QED
      BY <3>1 DEF Typed
  <2> QED
    BY <1>0, <2>1, <2>2, ContractIdle DEF BoundClick
<1>3. CASE OnSendCommand
  <2> DEFINE c == panel.for.click
  <2>1. /\ panel.at = "read" /\ c \in Clicks /\ Newer(c) /\ Bound.click = c /\ Bound.life = file.life
        /\ sent' = sent
    BY <1>3, PanelKeeps DEF OnSendCommand, ClickInv, Bound
  <2>2. BoundClick = 0 /\ feedback.click < c /\ Final(c) /\ \A m \in sent : m.click # c
    BY <1>0, <2>1, ClickTypes DEF BoundClick, Newer, Final
  <2>3. asked[c] = "none" /\ told[c] = "nothing"
    BY <1>0, <2>1, <2>2 DEF ContractInv
  <2>4. CASE /\ CommandEnabledForState(WidgetState, panel.for.command)
             /\ panel' = [at |-> "find", of |-> Bound]
             /\ asked' = [asked EXCEPT ![Bound.click] = Bound.life]
             /\ UNCHANGED <<feedback, told>>
    <3>1. file.life \in Life
      BY <2>4 DEF CommandEnabledForState, WidgetState, Active, Typed
    <3>2. asked' = [asked EXCEPT ![c] = file.life] /\ panel'.at = "find" /\ panel'.of = Bound
      BY <2>1, <2>4
    <3>3. /\ asked'[c] = file.life /\ \A k \in Clicks \ {c} : asked'[k] = asked[k]
          /\ BoundClick' = c
      BY <2>1, <3>2 DEF Typed, BoundClick
    <3> HIDE DEF c
    <3>4. ContractInv'
      <4>1. \A m \in sent' : asked'[m.click] = m.life
        BY <2>1, <2>2, <3>3, ClickTypes DEF ContractInv
      <4>2. ASSUME NEW k \in Clicks
            PROVE  /\ asked'[k] # "none" => k <= feedback'.click \/ k = BoundClick'
                   /\ told'[k] # "nothing" => k <= feedback'.click
                   /\ told'[k] \in Refusals => Final(k)'
        BY <1>0, <2>1, <2>2, <2>4, <3>3 DEF ContractInv, Final
      <4> QED
        BY <2>1, <3>2, <3>3, <4>1, <4>2 DEF ContractInv
    <3>5. \A k \in Clicks : ShownOf(k)' = ShownOf(k)
      BY <2>1, <2>3, <2>4, <3>3 DEF ShownOf, Shown, Refusals, Successes
    <3>6. Contract!Ask(c)
      BY <1>0, <2>3, <3>1, <3>2, <3>5 DEF Contract!Ask, ShownOf
    <3> QED
      BY <2>1, <3>4, <3>6 DEF Contract!Next
  <2>5. ASSUME NEW result \in Results, SetFeedback(Bound, result), UNCHANGED asked
        PROVE  ContractInv' /\ [Contract!Next]_(Contract!vars)
    BY <1>0, <2>1, <2>2, <2>3, <2>5, FeedbackShown
  <2>6. TargetResult(panel.target, file) \in Results /\ "Unavailable" \in Results
    BY ResultTyped DEF Results
  <2> QED
    BY <1>3, <2>4, <2>5, <2>6 DEF OnSendCommand
<1>4. ASSUME NEW result \in Results, SetFeedback(panel.of, result),
             panel.at \in {"find", "wait", "answered"}, UNCHANGED <<asked, sent>>,
             result \in Refusals => Final(panel.of.click),
             result \in Successes => panel.of.click \in Done
      PROVE  ContractInv' /\ [Contract!Next]_(Contract!vars)
  <2>1. panel.of.click \in Clicks /\ feedback.click < panel.of.click /\ BoundClick = panel.of.click
    BY <1>4, PanelKeeps DEF ClickInv, Newer, BoundClick
  <2> QED
    BY <1>0, <1>4, <2>1, FeedbackShown
<1>5. CASE SendLocalWidgetCommand
  <2>1. panel.at = "find" /\ UNCHANGED asked
    BY <1>5 DEF SendLocalWidgetCommand
  <2>2. /\ panel.of.click \in Clicks /\ panel.of.life \in Life /\ Newer(panel.of.click)
        /\ asked[panel.of.click] = panel.of.life /\ BoundClick = panel.of.click
    BY <2>1, PanelKeeps DEF ClickInv, ContractInv, BoundClick
  <2>3. CASE /\ FindTarget = panel.of.life
             /\ panel' = [at |-> "wait", of |-> panel.of, result |-> "Unknown"]
             /\ sent' = sent \cup {[life |-> FindTarget, command |-> panel.of.command,
                                    click |-> panel.of.click]}
             /\ UNCHANGED <<feedback, told>>
    <3> DEFINE m == [life |-> FindTarget, command |-> panel.of.command, click |-> panel.of.click]
    <3>1. /\ m.life = panel.of.life /\ m.click = panel.of.click /\ sent' = sent \cup {m}
          /\ panel'.at = "wait" /\ panel'.of = panel.of
      BY <2>3
    <3> HIDE DEF m
    <3>2. BoundClick' = BoundClick
      BY <2>2, <3>1 DEF BoundClick
    <3>3. feedback.click < m.click
      BY <2>2, <3>1 DEF Newer
    <3>4. ASSUME NEW k \in Clicks, told'[k] \in Refusals PROVE Final(k)'
      <4>1. Final(k) /\ k <= feedback.click
        BY <2>3, <3>4 DEF ContractInv, Refusals
      <4>2. k # m.click
        BY <1>0, <2>2, <3>1, <3>3, <4>1
      <4> QED
        BY <1>0, <3>1, <4>1, <4>2 DEF Final
    <3>5. ContractInv'
      BY <2>1, <2>2, <2>3, <3>1, <3>2, <3>4 DEF ContractInv
    <3> QED
      BY <1>0, <2>1, <2>3, <3>5, ContractStutter DEF ShownOf
  <2>4. Final(panel.of.click)
    BY <2>2, ClickTypes DEF Newer, Final
  <2>5. ASSUME UNCHANGED sent, NEW result \in Results \ Successes, SetFeedback(panel.of, result)
        PROVE  ContractInv' /\ [Contract!Next]_(Contract!vars)
    BY <1>4, <2>1, <2>4, <2>5
  <2>6. /\ FindTarget # panel.of.life =>
             TargetResult(FindTarget, panel.of) \in Results \ Successes
        /\ "Rejected" \in Results \ Successes
    BY <2>2, LifeAssumption DEF TargetResult, Results, Successes
  <2> QED
    BY <1>5, <2>3, <2>5, <2>6 DEF SendLocalWidgetCommand
<1>6. CASE SendTimesOut
  <2>1. "TimedOut" \in Results /\ "TimedOut" \notin Refusals \cup Successes
    BY DEF Results, Refusals, Successes
  <2>2. SetFeedback(panel.of, "TimedOut") /\ panel.at = "wait" /\ UNCHANGED <<asked, sent>>
    BY <1>6 DEF SendTimesOut
  <2> QED
    BY <1>4, <2>1, <2>2
<1>7. CASE TakeAnswer
  <2>1. SetFeedback(panel.of, panel.result) /\ panel.at = "answered" /\ UNCHANGED <<asked, sent>>
    BY <1>7 DEF TakeAnswer
  <2>2. panel.result \in Results
    BY <2>1, PanelKeeps
  <2> QED
    BY <1>4, <2>1, <2>2 DEF AnswerInv
<1> QED
  BY <1>1, <1>2, <1>3, <1>5, <1>6, <1>7 DEF StatusThread

\* Every step keeps the contract.
LEMMA ContractNext ==
  ASSUME Inv, ContractInv, [Next]_vars
  PROVE  ContractInv' /\ [Contract!Next]_(Contract!vars)
<1>1. ASSUME NEW l \in Life, Client(l) PROVE ClientEffect
  <2>1. Typed' /\ Later
    BY TypedNext, SightNext DEF Inv
  <2> QED
    BY <1>1, <2>1, ClientStep DEF Inv
<1>2. CASE \/ \E command \in Command : Click(command)
           \/ ApplyStateToWidget \/ TakeTimer \/ TimePasses \/ RecordAges \/ FeedbackAges
           \/ UserTapsKeys \/ UNCHANGED vars
  <2>1. UNCHANGED <<sent, asked, told, carriedOut, feedback>>
    BY <1>2 DEF Click, ApplyStateToWidget, TakeTimer, TimePasses, RecordAges, FeedbackAges,
      UserTapsKeys, vars
  <2>2. CASE TakeTimer
    <3>1. panel.at = "idle" /\ panel'.at = "read"
      BY <2>2 DEF TakeTimer
    <3> QED
      BY <2>1, <3>1, ContractIdle DEF BoundClick
  <2>3. CASE ~TakeTimer
    <3>1. panel' = panel
      BY <1>2, <2>3 DEF Click, ApplyStateToWidget, TimePasses, RecordAges, FeedbackAges, UserTapsKeys,
        vars
    <3> QED
      BY <2>1, <3>1, ContractIdle DEF BoundClick
  <2> QED
    BY <2>2, <2>3
<1> QED
  BY <1>1, <1>2, ContractClient, ContractStatusThread DEF Next

\* The panel keeps the contract with its user: whatever times out, ends or comes
\* late, a click is carried out only by the process it was bound to and at most
\* once, and what the user is told of it first is true.
THEOREM PanelContractCorrect == Spec => ImplementsContract
<1>1. Init => Inv /\ ContractInv /\ Contract!Init
  BY InvInit, ContractInvInit
<1> QED
  BY <1>1, InvNext, ContractNext, PTL DEF Spec, ImplementsContract, Contract!Spec

-----------------------------------------------------------------------------
(* Keys that a chord has left down                                         *)

\* The user is not told, and will not be told before an answer, that click k was
\* refused or that it succeeded.
Undecided(k) ==
  /\ told[k] \notin Refusals \cup Successes
  /\ \/ k <= feedback.click
     \/ panel.at = "wait" /\ panel.of.click = k
     \/ panel.at = "answered" /\ panel.of.click = k /\ panel.result = "Unknown"

\* A click that left a key down has been answered, if the panel still waited, with
\* "Unknown"; one that is on its way may yet leave a key down.
KeysInv ==
  /\ \A m \in sent : Undecided(m.click)
  /\ \A k \in held : k \in Clicks /\ Undecided(k) /\ \A m \in sent : m.click # k

LEMMA KeysInit == Init => KeysInv
BY DEF Init, KeysInv

\* A step that answers nothing and tells nothing, when it leaves the panel as it
\* is or the panel has sent nothing yet.
LEMMA KeysKept ==
  ASSUME KeysInv, held' \subseteq held, sent' \subseteq sent, told' = told,
         feedback'.click = feedback.click,
         panel' = panel \/ panel.at \in {"idle", "read", "find"}
  PROVE  KeysInv'
<1>1. \A k : Undecided(k) => Undecided(k)'
  BY DEF Undecided
<1> QED
  BY <1>1 DEF KeysInv

\* A command is answered: its click alone may have left keys down, and then its
\* outcome is not known.
LEMMA KeysAnswer ==
  ASSUME Typed, SentInv, KeysInv, NEW l \in Life, NEW m \in sent, NEW result \in Results,
         Answer(l, m, result), UNCHANGED <<told, feedback>>,
         held' \subseteq held \/ (held' \subseteq held \cup {m.click} /\ result = "Unknown")
  PROVE  KeysInv'
<1>1. /\ sent' = sent \ {m}
      /\ IF panel.at = "wait" /\ panel.of.click = m.click
           THEN panel' = [panel EXCEPT !.at = "answered", !.result = result] ELSE panel' = panel
  BY DEF Answer
<1>2. CASE panel.at = "wait" /\ panel.of.click = m.click
  <2>1. panel \in [at : {"wait", "answered"}, of : Bind, result : Results]
    BY <1>2, PanelKeeps
  <2>2. panel'.at = "answered" /\ panel'.of = panel.of /\ panel'.result = result
    BY <1>1, <1>2, <2>1
  <2>3. ASSUME NEW k, Undecided(k), k # m.click \/ result = "Unknown" PROVE Undecided(k)'
    BY <1>2, <2>2, <2>3 DEF Undecided
  <2>4. \A n \in sent' : n \in sent /\ n.click # m.click
    BY <1>1 DEF SentInv
  <2>5. \A k \in held' : /\ k \in Clicks /\ Undecided(k)
                         /\ k # m.click \/ result = "Unknown"
                         /\ \A n \in sent' : n.click # k
    BY <2>4, ClickTypes DEF KeysInv
  <2> QED
    BY <2>3, <2>4, <2>5 DEF KeysInv
<1>3. CASE panel' = panel
  <2>1. \A k : Undecided(k) => Undecided(k)'
    BY <1>3 DEF Undecided
  <2>2. \A n \in sent' : n \in sent /\ n.click # m.click
    BY <1>1 DEF SentInv
  <2> QED
    BY <2>1, <2>2, ClickTypes DEF KeysInv
<1> QED
  BY <1>1, <1>2, <1>3

\* A click is given its first feedback.
LEMMA KeysTold ==
  ASSUME Typed, KeysInv, NEW of, NEW result, SetFeedback(of, result), UNCHANGED <<held, sent>>,
         of.click \in Clicks, feedback.click < of.click,
         panel.at \in {"wait", "answered"} => panel.of.click = of.click,
         Undecided(of.click) => result \notin Refusals \cup Successes
  PROVE  KeysInv'
<1>1. /\ told' = [told EXCEPT ![of.click] = result] /\ feedback'.click = of.click
      /\ of.click \in Nat /\ feedback.click \in Nat
  BY ClicksAreNat, ClickTypes DEF SetFeedback
<1>2. ASSUME NEW k \in Clicks, Undecided(k) PROVE Undecided(k)'
  <2>1. k \in Nat /\ k <= of.click
    BY <1>1, <1>2, ClicksAreNat DEF Undecided
  <2>2. told'[k] \notin Refusals \cup Successes
    BY <1>1, <1>2 DEF Undecided, Typed
  <2> QED
    BY <1>1, <2>1, <2>2 DEF Undecided
<1> QED
  BY <1>2, ClickTypes DEF KeysInv

\* The clients leave keys down.
LEMMA KeysClient ==
  ASSUME Inv, KeysInv, ClientEffect, NEW l \in Life, Client(l)
  PROVE  KeysInv'
<1> USE DEF Inv
<1>1. {"Rejected", "TargetChanged", "Unavailable", "Observed", "Accepted", "Unknown"} \subseteq Results
  BY DEF Results
<1>2. UNCHANGED <<told, feedback>>
  BY ToggleEffect DEF Client, StartClient, UserMoves, TakeChord, CloseFrame, ExitProcess, Tick,
    Sample, Publish, Begin, FindAsAsked, Minimize, Restore, ShowWindow, AnswerWindow, Disconnect
<1>3. sent' \subseteq sent
  BY DEF ClientEffect, Settles
<1>4. CASE ToggleFullscreen(l)
  <2>1. widget[l].of \in sent
    BY <1>4, ToggleEffect, WidgetKeeps DEF SentInv
  <2>2. PICK result \in {"Accepted", "Rejected", "Unknown"} :
          Answer(l, widget[l].of, result) /\ (result # "Unknown" => held' = held)
    BY <1>4, ToggleEffect
  <2>3. \/ held' \subseteq held
        \/ held' \subseteq held \cup {widget[l].of.click} /\ result = "Unknown"
    BY <1>4, <2>2, ToggleEffect
  <2>4. result \in Results
    BY <1>1
  <2> QED
    BY <1>2, <2>1, <2>2, <2>3, <2>4, KeysAnswer
<1>5. CASE held' = held /\ panel' = panel
  BY <1>2, <1>3, <1>5, KeysKept
<1>6. ASSUME NEW m \in sent, NEW result \in Results, Answer(l, m, result), held' = held
      PROVE  KeysInv'
  <2> QED
    BY <1>2, <1>6, KeysAnswer
<1>7. ASSUME NEW m \in sent, Begin(l, m) \/ FindAsAsked(l, m) PROVE KeysInv'
  BY <1>1, <1>5, <1>6, <1>7 DEF Begin, FindAsAsked
<1>8. CASE Minimize(l) \/ Restore(l) \/ AnswerWindow(l) \/ Disconnect(l)
  <2>1. widget[l].at \in {"minimize", "restore", "answer", "reconnect", "disconnect"}
    BY <1>8 DEF Minimize, Restore, ShowWindow, AnswerWindow, Disconnect, Works
  <2>2. widget[l].of \in sent
    BY <2>1, WidgetKeeps DEF SentInv, Busy
  <2>3. held' = held /\ (panel' = panel \/ \E result \in Results : Answer(l, widget[l].of, result))
    BY <1>1, <1>8 DEF Minimize, Restore, ShowWindow, AnswerWindow, Disconnect
  <2> QED
    BY <1>5, <1>6, <2>2, <2>3
<1>9. CASE StartClient(l) \/ UserMoves(l) \/ TakeChord(l) \/ CloseFrame(l) \/ ExitProcess(l)
           \/ Tick(l) \/ Sample(l) \/ Publish(l)
  <2>1. held' = held /\ panel' = panel
    BY <1>9 DEF StartClient, UserMoves, TakeChord, CloseFrame, ExitProcess, Tick, Sample, Publish
  <2> QED
    BY <1>5, <2>1
<1> QED
  BY <1>4, <1>7, <1>8, <1>9 DEF Client

\* The status thread tells of one click at a time, which is newer than those it
\* has told of, and sends a click that has left no key down.
LEMMA KeysStatusThread ==
  ASSUME Inv, ContractInv, KeysInv, StatusThread
  PROVE  KeysInv'
<1> USE DEF Inv
<1>1. CASE TakeClick \/ PollStatus
  <2>1. UNCHANGED <<held, sent, told>> /\ panel.at \in {"idle", "read"}
    BY <1>1 DEF TakeClick, PollStatus
  <2>2. feedback'.click = feedback.click
    <3>1. feedback' = feedback \/ \E result : feedback' = [feedback EXCEPT !.result = result]
      BY <1>1 DEF TakeClick, PollStatus, ObserveFeedback
    <3> QED
      BY <3>1 DEF Typed
  <2> QED
    BY <2>1, <2>2, KeysKept
<1>2. CASE OnSendCommand
  <2>1. /\ panel.at = "read" /\ UNCHANGED <<held, sent>> /\ Bound.click = panel.for.click
        /\ panel.for.click \in Clicks /\ Newer(panel.for.click)
    BY <1>2, PanelKeeps DEF OnSendCommand, ClickInv, Bound
  <2>2. ~Undecided(Bound.click) /\ feedback.click < Bound.click
    <3>1. feedback.click < Bound.click /\ Bound.click \in Nat /\ feedback.click \in Nat
      BY <2>1, ClicksAreNat, ClickTypes DEF Newer
    <3> QED
      BY <2>1, <3>1 DEF Undecided
  <2>3. ASSUME NEW result, SetFeedback(Bound, result) PROVE KeysInv'
    BY <2>1, <2>2, <2>3, KeysTold
  <2>4. CASE UNCHANGED <<feedback, told>>
    BY <2>1, <2>4, KeysKept
  <2> QED
    BY <1>2, <2>3, <2>4 DEF OnSendCommand
<1>3. CASE SendLocalWidgetCommand
  <2>1. /\ panel.at = "find" /\ held' = held
        /\ panel.of.click \in Clicks /\ Newer(panel.of.click)
    BY <1>3, PanelKeeps DEF SendLocalWidgetCommand, ClickInv
  <2>2. feedback.click < panel.of.click /\ panel.of.click \in Nat /\ feedback.click \in Nat
    BY <2>1, ClicksAreNat, ClickTypes DEF Newer
  <2>3. CASE /\ panel' = [at |-> "wait", of |-> panel.of, result |-> "Unknown"]
             /\ sent' = sent \cup {[life |-> FindTarget, command |-> panel.of.command,
                                    click |-> panel.of.click]}
             /\ UNCHANGED <<feedback, told>>
    <3>1. PICK c \in Clicks : c = panel.of.click
      BY <2>1
    <3>2. \A k : Undecided(k) => k <= feedback.click /\ Undecided(k)'
      BY <2>1, <2>3 DEF Undecided
    <3>3. Undecided(c)'
      <4>1. told[c] = "nothing"
        BY <2>1, <2>2, <3>1 DEF ContractInv
      <4> QED
        BY <2>3, <3>1, <4>1 DEF Undecided, Refusals, Successes
    <3>4. \A m \in sent' : m \in sent \/ m.click = c
      BY <2>3, <3>1
    <3>5. c \notin held
      BY <2>2, <3>1, <3>2 DEF KeysInv
    <3>6. \A m \in sent' : Undecided(m.click)'
      BY <3>2, <3>3, <3>4 DEF KeysInv
    <3>7. \A k \in held' : k \in Clicks /\ Undecided(k)' /\ \A m \in sent' : m.click # k
      BY <2>1, <3>2, <3>4, <3>5 DEF KeysInv
    <3> QED
      BY <3>6, <3>7 DEF KeysInv
  <2>4. ~Undecided(panel.of.click)
    BY <2>1, <2>2 DEF Undecided
  <2>5. ASSUME NEW result, SetFeedback(panel.of, result), UNCHANGED sent PROVE KeysInv'
    BY <2>1, <2>2, <2>4, <2>5, KeysTold
  <2> QED
    BY <1>3, <2>3, <2>5 DEF SendLocalWidgetCommand
<1>4. CASE SendTimesOut \/ TakeAnswer
  <2>1. /\ panel.at \in {"wait", "answered"} /\ UNCHANGED <<held, sent>>
        /\ panel.of.click \in Clicks /\ feedback.click < panel.of.click
    BY <1>4, PanelKeeps DEF SendTimesOut, TakeAnswer, ClickInv
  <2>2. PICK result : /\ SetFeedback(panel.of, result)
                      /\ \/ result = "TimedOut"
                         \/ panel.at = "answered" /\ result = panel.result
    BY <1>4 DEF SendTimesOut, TakeAnswer
  <2>3. Undecided(panel.of.click) => result \in {"TimedOut", "Unknown"}
    <3>1. panel.of.click \in Nat /\ feedback.click \in Nat
      BY <2>1, ClicksAreNat, ClickTypes
    <3> QED
      BY <2>1, <2>2, <3>1 DEF Undecided
  <2>4. {"TimedOut", "Unknown"} \cap (Refusals \cup Successes) = {}
    BY DEF Refusals, Successes
  <2> QED
    BY <2>1, <2>2, <2>3, <2>4, KeysTold
<1> QED
  BY <1>1, <1>2, <1>3, <1>4 DEF StatusThread

LEMMA KeysNext ==
  ASSUME Inv, ContractInv, KeysInv, [Next]_vars
  PROVE  KeysInv'
<1>1. ASSUME NEW l \in Life, Client(l) PROVE ClientEffect
  <2>1. Typed' /\ Later
    BY TypedNext, SightNext DEF Inv
  <2> QED
    BY <1>1, <2>1, ClientStep DEF Inv
<1>2. CASE \/ \E command \in Command : Click(command)
           \/ ApplyStateToWidget \/ TakeTimer \/ TimePasses \/ RecordAges \/ FeedbackAges
           \/ UserTapsKeys \/ UNCHANGED vars
  <2>1. /\ UNCHANGED <<sent, told, feedback>> /\ held' \subseteq held
        /\ panel' = panel \/ panel.at = "idle"
    BY <1>2 DEF Click, ApplyStateToWidget, TakeTimer, TimePasses, RecordAges, FeedbackAges,
      UserTapsKeys, vars
  <2> QED
    BY <2>1, KeysKept
<1> QED
  BY <1>1, <1>2, KeysClient, KeysStatusThread DEF Next

\* A click that has left a key of the chord down is never told as refused or as
\* succeeded, whether its answer comes before the timeout of the panel, after it
\* or never, and however many clicks follow.
THEOREM StuckKeysCorrect == Spec => []StuckKeysAreNotDenied
<1>1. KeysInv => StuckKeysAreNotDenied
  BY DEF KeysInv, Undecided, StuckKeysAreNotDenied, Shown
<1> QED
  BY <1>1, InvInit, InvNext, ContractInvInit, ContractNext, KeysInit, KeysNext, PTL DEF Spec
=============================================================================
