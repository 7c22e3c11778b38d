----------------------------- MODULE LocalPanel -----------------------------
(***************************************************************************)
(* The panel of the client's own taskbar.  Its status thread in           *)
(* explorer.exe polls the record which the local widget thread of          *)
(* mstsc.exe publishes, shows it on the XAML thread, and sends the user's  *)
(* clicks to that thread, which may be stuck behind a hung frame or end    *)
(* with its process at any moment.                                         *)
(***************************************************************************)
EXTENDS Naturals, Sequences, FiniteSets

CONSTANTS
  Life,     \* lifetimes of mstsc.exe, each a pid with a birth time
  Past,     \* lifetimes that are over, one of which may have left its record
  Command,  \* the buttons: a subset of Commands
  MaxClick, \* clicks
  MaxTick   \* ticks of the clock that order records and clicks

Commands == {"minimize", "restore", "fullscreen", "reconnect", "disconnect"}
ASSUME CommandAssumption == Command \subseteq Commands
ASSUME PastAssumption == Past \subseteq Life
ASSUME LifeAssumption == {"none", "many"} \cap Life = {}
ASSUME BoundAssumption == MaxClick \in Nat

VARIABLES
  process,  \* process[l]: "new", "running" or "exited"
  frame,    \* frame[l]: the session frame
  chord,    \* chord[l]: Ctrl+Alt+Break is in the input queue of l
  held,     \* the clicks whose chord has left keys down
  closing,  \* closing[l]: WM_CLOSE is in the queue of the frame
  widget,   \* widget[l]: what the local widget thread of l is doing
  file,     \* the published record
  inbox,    \* clicks in the message queue of the status thread
  clicks,   \* number of clicks made
  panel,    \* what the status thread is doing
  sent,     \* commands on their way to a local widget thread
  feedback, \* g_Feedback
  overdue,  \* five seconds have passed since g_Feedback.tick
  state,    \* g_State
  shown,    \* what the XAML elements show
  clock,
  lastSeen, \* history: when the frame of l was last iconic, and last not
  asked,    \* history: asked[k]: the lifetime click k was bound to
  carriedOut, \* history: carriedOut[k]: the lifetimes that carried out k, in order
  told      \* history: told[k]: the first feedback of k

processVars == <<process, chord, held, closing>>
clientVars == <<processVars, frame, lastSeen, widget, file, carriedOut>>
contractVars == <<asked, told>>
explorerVars == <<feedback, contractVars, overdue, state, shown, inbox, clicks>>
panelVars == <<panel, explorerVars>>
vars == <<clientVars, panelVars, sent, clock>>

NoRecord == [life |-> "none", active |-> FALSE, iconic |-> FALSE, full |-> FALSE,
             tick |-> 0, fresh |-> FALSE]
Clicks == 1..MaxClick
Closed == [open |-> FALSE, iconic |-> FALSE, full |-> FALSE]
Running == {l \in Life : process[l] = "running"}

\* rdpstk::FindTarget, whose steps BoundRelay has.
FindTarget == IF Cardinality(Running) = 1 THEN CHOOSE l \in Running : TRUE
              ELSE IF Running = {} THEN "none" ELSE "many"

-----------------------------------------------------------------------------
(* mstsc.exe and its user                                                  *)

SetFrame(l, f) ==
  /\ frame' = [frame EXCEPT ![l] = f]
  /\ lastSeen' = [lastSeen EXCEPT ![l] =
                    IF f.iconic THEN [@ EXCEPT !.iconic = clock] ELSE [@ EXCEPT !.normal = clock]]

StartClient(l) ==
  /\ process[l] = "new"
  /\ process' = [process EXCEPT ![l] = "running"]
  /\ SetFrame(l, [Closed EXCEPT !.open = TRUE])
  /\ UNCHANGED <<chord, held, closing, widget, file, carriedOut, panelVars, sent, clock>>

\* The user minimizes or restores the window himself.
UserMoves(l) ==
  /\ frame[l].open
  /\ SetFrame(l, [frame[l] EXCEPT !.iconic = ~@])
  /\ UNCHANGED <<processVars, widget, file, carriedOut, panelVars, sent, clock>>

TakeChord(l) ==
  /\ chord[l]
  /\ chord' = [chord EXCEPT ![l] = FALSE]
  /\ SetFrame(l, IF frame[l].open THEN [frame[l] EXCEPT !.full = ~@] ELSE frame[l])
  /\ UNCHANGED <<process, held, closing, widget, file, carriedOut, panelVars, sent, clock>>

\* The user taps the keys that were left down, which releases them.
UserTapsKeys ==
  /\ held # {} /\ held' = {}
  /\ UNCHANGED <<process, chord, closing, frame, lastSeen, widget, file, carriedOut, panelVars,
                 sent, clock>>

CloseFrame(l) ==
  /\ frame[l].open /\ closing[l]
  /\ SetFrame(l, Closed)
  /\ closing' = [closing EXCEPT ![l] = FALSE]
  /\ UNCHANGED <<process, chord, held, widget, file, carriedOut, panelVars, sent, clock>>

\* Also a process that is killed: the record stays.
ExitProcess(l) ==
  /\ process[l] = "running"
  /\ process' = [process EXCEPT ![l] = "exited"]
  /\ SetFrame(l, Closed)
  /\ chord' = [chord EXCEPT ![l] = FALSE]
  /\ closing' = [closing EXCEPT ![l] = FALSE]
  /\ widget' = [widget EXCEPT ![l] = [at |-> "idle"]]
  /\ sent' = {m \in sent : m.life # l}
  /\ UNCHANGED <<held, file, carriedOut, panelVars, clock>>

-----------------------------------------------------------------------------
(* The local widget thread of l: WriteLocalWidgetStatus and                *)
(* LocalWidgetWndProc                                                      *)

Works(l, at) == process[l] = "running" /\ widget[l].at = at

\* The tick of the record is read first, then the window.
Tick(l) ==
  /\ Works(l, "idle")
  /\ widget' = [widget EXCEPT ![l] = [at |-> "stamped", tick |-> clock]]
  /\ UNCHANGED <<processVars, frame, lastSeen, file, carriedOut, panelVars, sent, clock>>

Record(l, tick) == [life |-> l, active |-> frame[l].open, iconic |-> frame[l].iconic,
                    full |-> frame[l].full, tick |-> tick, fresh |-> TRUE]

Sample(l) ==
  /\ Works(l, "stamped")
  /\ IF FindTarget = l
       THEN widget' = [widget EXCEPT ![l] = [at |-> "sampled", record |-> Record(l, widget[l].tick)]]
       ELSE widget' = [widget EXCEPT ![l] = [at |-> "idle"]]
  /\ UNCHANGED <<processVars, frame, lastSeen, file, carriedOut, panelVars, sent, clock>>

\* Mutant: the record is stamped when it is written.
PublishStamped(l) ==
  /\ Works(l, "sampled")
  /\ file' = [widget[l].record EXCEPT !.tick = clock]
  /\ widget' = [widget EXCEPT ![l] = [at |-> "idle"]]
  /\ UNCHANGED <<processVars, frame, lastSeen, carriedOut, panelVars, sent, clock>>

\* The file may not be writable.
Publish(l) ==
  /\ Works(l, "sampled")
  /\ file' \in {file, widget[l].record}
  /\ widget' = [widget EXCEPT ![l] = [at |-> "idle"]]
  /\ UNCHANGED <<processVars, frame, lastSeen, carriedOut, panelVars, sent, clock>>

\* IsIconic, which is also false of a window that is gone.
AsAsked(l, command) ==
  \/ command = "minimize" /\ frame[l].iconic
  \/ command = "restore" /\ ~frame[l].iconic

Answer(l, m, result) ==
  /\ widget' = [widget EXCEPT ![l] = [at |-> "idle"]]
  /\ sent' = sent \ {m}
  /\ panel' = IF panel.at = "wait" /\ panel.of.click = m.click
                THEN [panel EXCEPT !.at = "answered", !.result = result] ELSE panel

\* l did what m asks for, or found it done.
CarryOut(l, m) == carriedOut' = [carriedOut EXCEPT ![m.click] = Append(@, l)]

\* The payload is checked, then the target; a window that is already as asked
\* for is an outcome at once.
Begin(l, m) ==
  /\ Works(l, "idle") /\ m \in sent /\ m.life = l
  /\ \/ Answer(l, m, "Rejected")
     \/ FindTarget # l /\ Answer(l, m, "TargetChanged")
     \/ FindTarget = l /\ ~frame[l].open /\ Answer(l, m, "Unavailable")
     \/ /\ FindTarget = l /\ frame[l].open /\ ~AsAsked(l, m.command)
        /\ widget' = [widget EXCEPT ![l] = [at |-> m.command, of |-> m]]
        /\ UNCHANGED <<sent, panel>>
  /\ UNCHANGED <<processVars, frame, lastSeen, file, carriedOut, explorerVars, clock>>

FindAsAsked(l, m) ==
  /\ Works(l, "idle") /\ m \in sent /\ m.life = l
  /\ FindTarget = l /\ frame[l].open /\ AsAsked(l, m.command)
  /\ CarryOut(l, m)
  /\ Answer(l, m, "Observed")
  /\ UNCHANGED <<processVars, frame, lastSeen, file, explorerVars, clock>>

\* MinimizeRdpFrame and RestoreRdpFrame look again, and ShowWindow waits for the
\* frame's thread, which may be hung, and may be refused by it.
ShowWindow(l, command, iconic) ==
  /\ Works(l, command)
  /\ IF frame[l].iconic = iconic \/ ~frame[l].open
       THEN /\ Answer(l, widget[l].of, "Rejected")
            /\ UNCHANGED <<frame, lastSeen, carriedOut>>
       ELSE /\ SetFrame(l, [frame[l] EXCEPT !.iconic = iconic]) \/ UNCHANGED <<frame, lastSeen>>
            /\ CarryOut(l, widget[l].of)
            /\ widget' = [widget EXCEPT ![l] = [@ EXCEPT !.at = "answer"]]
            /\ UNCHANGED <<sent, panel>>
  /\ UNCHANGED <<processVars, file, explorerVars, clock>>

Minimize(l) == ShowWindow(l, "minimize", TRUE)
Restore(l) == ShowWindow(l, "restore", FALSE)

AnswerWindow(l) ==
  /\ Works(l, "answer")
  /\ Answer(l, widget[l].of, IF AsAsked(l, widget[l].of.command) THEN "Observed" ELSE "Accepted")
  /\ UNCHANGED <<processVars, frame, lastSeen, file, carriedOut, explorerVars, clock>>

\* SendCtrlAltBreakChord: SendInput may take only a prefix of the chord.  Then the
\* keys of the prefix are released, and SendInput may take a prefix of that again.
Chord == <<"+ctrl", "+alt", "+break", "-break", "-alt", "-ctrl">>
Place(event) == CHOOSE i \in DOMAIN Chord : Chord[i] = event
Keys == {"ctrl", "alt", "break"}
Down(key) == Place(CASE key = "ctrl" -> "+ctrl" [] key = "alt" -> "+alt" [] OTHER -> "+break")
UpAgain(key) == Place(CASE key = "ctrl" -> "-ctrl" [] key = "alt" -> "-alt" [] OTHER -> "-break")

\* What is released after n events of the chord, in this order.
Cleanup(n) == SelectSeq(<<"break", "alt", "ctrl">>, LAMBDA key : n >= Down(key))

LeftDown(n, released) ==
  {key \in Keys : Down(key) <= n /\ n < UpAgain(key)} \ {Cleanup(n)[i] : i \in 1..released}

\* Break is down while Ctrl and Alt are.
TypeBreak(l) ==
  /\ chord' = [chord EXCEPT ![l] = TRUE]
  /\ CarryOut(l, widget[l].of)

\* Mutant: a chord that was cut short is taken for a refusal.
SendChordRejected(l) ==
  \/ /\ TypeBreak(l)
     /\ Answer(l, widget[l].of, "Accepted")
     /\ UNCHANGED held
  \/ \E n \in 1..(Len(Chord) - 1) : \E released \in 0..Len(Cleanup(n)) :
       /\ held' = IF LeftDown(n, released) = {} THEN held ELSE held \cup {widget[l].of.click}
       /\ IF n < Down("break") THEN UNCHANGED <<chord, carriedOut>> ELSE TypeBreak(l)
       /\ Answer(l, widget[l].of, "Rejected")

SendChord(l) ==
  \/ /\ TypeBreak(l)
     /\ Answer(l, widget[l].of, "Accepted")
     /\ UNCHANGED held
  \/ \E n \in 1..(Len(Chord) - 1) : \E released \in 0..Len(Cleanup(n)) :
       /\ held' = IF LeftDown(n, released) = {} THEN held ELSE held \cup {widget[l].of.click}
       /\ IF n < Down("break") THEN UNCHANGED <<chord, carriedOut>> ELSE TypeBreak(l)
       /\ Answer(l, widget[l].of, "Unknown")

\* ToggleFullscreen: an iconic frame is restored first, also when the foreground
\* or the keyboard then refuses the chord.  Keys left down refuse it: Ctrl, the last
\* to be released, is one of them.
ToggleFullscreen(l) ==
  /\ Works(l, "fullscreen")
  /\ IF frame[l].open /\ frame[l].iconic
       THEN SetFrame(l, [frame[l] EXCEPT !.iconic = FALSE]) \/ UNCHANGED <<frame, lastSeen>>
       ELSE UNCHANGED <<frame, lastSeen>>
  /\ \/ /\ frame[l].open /\ held = {}
        /\ SendChord(l)
     \/ /\ Answer(l, widget[l].of, "Rejected")
        /\ UNCHANGED <<chord, held, carriedOut>>
  /\ UNCHANGED <<process, closing, file, explorerVars, clock>>

\* ReconnectSessionClean and DisconnectSession post WM_CLOSE.
Disconnect(l) ==
  /\ Works(l, "reconnect") \/ Works(l, "disconnect")
  /\ \/ /\ frame[l].open
        /\ closing' = [closing EXCEPT ![l] = TRUE]
        /\ CarryOut(l, widget[l].of)
        /\ Answer(l, widget[l].of, "Accepted")
     \/ /\ Answer(l, widget[l].of, "Rejected")
        /\ UNCHANGED <<closing, carriedOut>>
  /\ UNCHANGED <<process, chord, held, frame, lastSeen, file, explorerVars, clock>>

-----------------------------------------------------------------------------
(* The status thread: ReadWidgetState, PollStatus and OnSendCommand        *)

NoState == [active |-> FALSE, iconic |-> FALSE]
NoFeedback == [command |-> "none", click |-> 0, result |-> "Unknown", life |-> "none",
               tick |-> 0, full |-> FALSE]

\* Mutant: the age of the record is not looked at.
ActiveOld(target, record) == record.active /\ target = record.life

Active(target, record) == record.fresh /\ record.active /\ target = record.life

\* The result FindTarget has for a record.
TargetResult(target, record) ==
  CASE target = "none" -> "NoReceiver"
    [] target = "many" -> "Ambiguous"
    [] OTHER -> IF record.life \in {"none", target} THEN "Observed" ELSE "TargetChanged"

CommandEnabledForState(st, command) ==
  /\ st.active
  /\ command = "minimize" => ~st.iconic
  /\ command = "restore" => st.iconic

Click(command) ==
  /\ clicks < MaxClick /\ CommandEnabledForState(shown, command)
  /\ clicks' = clicks + 1
  /\ inbox' = Append(inbox, [command |-> command, click |-> clicks'])
  /\ UNCHANGED <<clientVars, panel, feedback, contractVars, overdue, state, shown, sent, clock>>

\* The XAML thread runs the delegate of RefreshWidgetUI.
ApplyStateToWidget ==
  /\ shown' = state
  /\ UNCHANGED <<clientVars, panel, feedback, contractVars, overdue, state, inbox, clicks, sent, clock>>

\* GetMessage returns a timer only when no click is posted.
TakeTimer ==
  /\ panel.at = "idle" /\ inbox = <<>>
  /\ panel' = [at |-> "read", for |-> [command |-> "poll", click |-> 0], target |-> FindTarget]
  /\ UNCHANGED <<clientVars, feedback, contractVars, overdue, state, shown, inbox, clicks, sent, clock>>

TakeClick ==
  /\ panel.at = "idle" /\ inbox # <<>>
  /\ panel' = [at |-> "read", for |-> Head(inbox), target |-> FindTarget]
  /\ inbox' = Tail(inbox)
  /\ UNCHANGED <<clientVars, feedback, contractVars, overdue, state, shown, clicks, sent, clock>>

\* What the panel shows and its buttons need.
WidgetState == LET active == Active(panel.target, file)
               IN [active |-> active, iconic |-> active /\ file.iconic]

\* WindowOutcome: is the window as the command was to leave it?
WindowOutcome(f, record) ==
  CASE f.command = "minimize" -> record.iconic
    [] f.command = "restore" -> ~record.iconic
    [] OTHER -> record.full # f.full

Shows(f, record) == record.life = f.life /\ record.tick >= f.tick /\ WindowOutcome(f, record)

ObserveFeedback ==
  feedback' = IF feedback.result # "Accepted" \/ feedback.command \in {"reconnect", "disconnect"}
                THEN feedback
              ELSE IF TargetResult(panel.target, file) # "Observed"
                THEN [feedback EXCEPT !.result = TargetResult(panel.target, file)]
              ELSE IF Active(panel.target, file) /\ Shows(feedback, file) THEN [feedback EXCEPT !.result = "Observed"]
              ELSE IF overdue THEN [feedback EXCEPT !.result = "Unknown"] ELSE feedback

PollStatus ==
  /\ panel.at = "read" /\ panel.for.command = "poll"
  /\ ObserveFeedback
  /\ state' = WidgetState
  /\ panel' = [at |-> "idle"]
  /\ UNCHANGED <<clientVars, contractVars, overdue, shown, inbox, clicks, sent, clock>>

SetFeedback(of, result) ==
  /\ feedback' = [command |-> of.command, click |-> of.click, result |-> result,
                  life |-> of.life, tick |-> of.tick, full |-> of.full]
  /\ overdue' = FALSE
  /\ told' = [told EXCEPT ![of.click] = result]
  /\ panel' = [at |-> "idle"]

\* The click, bound to the state it is sent with.
Bound == [command |-> panel.for.command, click |-> panel.for.click,
          life |-> file.life, tick |-> clock, full |-> file.full]

OnSendCommand ==
  /\ panel.at = "read" /\ panel.for.command # "poll"
  /\ IF CommandEnabledForState(WidgetState, panel.for.command)
       THEN /\ panel' = [at |-> "find", of |-> Bound]
            /\ asked' = [asked EXCEPT ![Bound.click] = Bound.life]
            /\ UNCHANGED <<feedback, told, overdue>>
       ELSE /\ SetFeedback(Bound, IF TargetResult(panel.target, file) = "Observed"
                                    THEN "Unavailable" ELSE TargetResult(panel.target, file))
            /\ UNCHANGED asked
  /\ UNCHANGED <<clientVars, state, shown, inbox, clicks, sent, clock>>

\* FindTarget for the process of the record; the secret may be missing.
SendLocalWidgetCommand ==
  /\ panel.at = "find"
  /\ \/ /\ FindTarget = panel.of.life
        /\ panel' = [at |-> "wait", of |-> panel.of, result |-> "Unknown"]
        /\ sent' = sent \cup {[life |-> FindTarget, command |-> panel.of.command,
                               click |-> panel.of.click]}
        /\ UNCHANGED <<feedback, told, overdue>>
     \/ /\ FindTarget # panel.of.life
        /\ SetFeedback(panel.of, TargetResult(FindTarget, panel.of))
        /\ UNCHANGED sent
     \/ /\ SetFeedback(panel.of, "Rejected")
        /\ UNCHANGED sent
  /\ UNCHANGED <<clientVars, asked, state, shown, inbox, clicks, clock>>

\* Mutant: the panel waits for its answer.
SendTimesOutIfGone ==
  /\ panel.at = "wait" /\ process[panel.of.life] = "exited"
  /\ SetFeedback(panel.of, "TimedOut")
  /\ UNCHANGED <<clientVars, asked, state, shown, inbox, clicks, sent, clock>>

\* Mutant: a command that timed out is sent again.
SendTimesOutRetried ==
  /\ panel.at = "wait"
  /\ panel' = [at |-> "find", of |-> panel.of]
  /\ UNCHANGED <<clientVars, explorerVars, sent, clock>>

\* SendMessageTimeout gives up after two seconds, or at once when the window is
\* gone; the command stays on its way.
SendTimesOut ==
  /\ panel.at = "wait"
  /\ SetFeedback(panel.of, "TimedOut")
  /\ UNCHANGED <<clientVars, asked, state, shown, inbox, clicks, sent, clock>>

TakeAnswer ==
  /\ panel.at = "answered"
  /\ SetFeedback(panel.of, panel.result)
  /\ UNCHANGED <<clientVars, asked, state, shown, inbox, clicks, sent, clock>>

-----------------------------------------------------------------------------
(* Time                                                                    *)

TimePasses ==
  /\ clock < MaxTick
  /\ clock' = clock + 1
  /\ lastSeen' = [l \in Life |-> IF frame[l].iconic THEN [lastSeen[l] EXCEPT !.iconic = clock']
                                                   ELSE [lastSeen[l] EXCEPT !.normal = clock']]
  /\ UNCHANGED <<processVars, frame, widget, file, carriedOut, panelVars, sent>>

\* Four seconds pass without another record.
RecordAges ==
  /\ file.fresh
  /\ file' = [file EXCEPT !.fresh = FALSE]
  /\ UNCHANGED <<processVars, frame, lastSeen, widget, carriedOut, panelVars, sent, clock>>

FeedbackAges ==
  /\ feedback.result = "Accepted" /\ ~overdue
  /\ overdue' = TRUE
  /\ UNCHANGED <<clientVars, panel, feedback, contractVars, state, shown, inbox, clicks, sent, clock>>

-----------------------------------------------------------------------------

Init ==
  /\ process = [l \in Life |-> IF l \in Past THEN "exited" ELSE "new"]
  /\ frame = [l \in Life |-> Closed]
  /\ chord = [l \in Life |-> FALSE] /\ held = {}
  /\ closing = [l \in Life |-> FALSE]
  /\ widget = [l \in Life |-> [at |-> "idle"]]
  /\ file \in {NoRecord} \cup {[NoRecord EXCEPT !.life = l, !.active = TRUE, !.fresh = TRUE] :
                               l \in Past}
  /\ inbox = <<>> /\ clicks = 0
  /\ panel = [at |-> "idle"]
  /\ sent = {}
  /\ feedback = NoFeedback /\ overdue = FALSE
  /\ state = NoState /\ shown = NoState
  /\ clock = 0
  /\ asked = [k \in Clicks |-> "none"]
  /\ carriedOut = [k \in Clicks |-> <<>>]
  /\ told = [k \in Clicks |-> "nothing"]
  /\ lastSeen = [l \in Life |-> [iconic |-> 0, normal |-> 0]]

Client(l) ==
  \/ StartClient(l) \/ UserMoves(l) \/ TakeChord(l) \/ CloseFrame(l) \/ ExitProcess(l)
  \/ Tick(l) \/ Sample(l) \/ Publish(l)
  \/ \E m \in sent : Begin(l, m) \/ FindAsAsked(l, m)
  \/ Minimize(l) \/ Restore(l) \/ AnswerWindow(l) \/ ToggleFullscreen(l) \/ Disconnect(l)

StatusThread ==
  \/ TakeClick \/ PollStatus \/ OnSendCommand \/ SendLocalWidgetCommand
  \/ SendTimesOut \/ TakeAnswer

Next ==
  \/ \E l \in Life : Client(l)
  \/ \E command \in Command : Click(command)
  \/ ApplyStateToWidget \/ StatusThread \/ TakeTimer
  \/ TimePasses \/ RecordAges \/ FeedbackAges \/ UserTapsKeys

Spec == Init /\ [][Next]_vars

\* The status thread runs, woken by its timer when no click is posted; explorer's
\* XAML thread refreshes the panel; time passes.  Nothing is assumed of mstsc.  (The
\* subscript is the variable that every step of the action changes.)
FairSpec ==
  /\ Spec
  /\ WF_panel(StatusThread \/ TakeTimer)
  /\ WF_shown(ApplyStateToWidget) /\ WF_file(RecordAges)

-----------------------------------------------------------------------------
(* Properties                                                              *)

\* "Requested window state observed" is said of a minimize or a restore only
\* when the frame of the very process the button was bound to has been minimized,
\* or has not been, at some moment since the click was sent: an older record, a
\* record of another process and a record that was sampled before its stamp do
\* not count.
ObservedIsTrue ==
  feedback.result = "Observed" =>
    /\ feedback.command = "minimize" => lastSeen[feedback.life].iconic >= feedback.tick
    /\ feedback.command = "restore" => lastSeen[feedback.life].normal >= feedback.tick

\* The contract with the user (ActionContract), which the host's path keeps over
\* the network (BoundRelay): a click belongs to the process whose record the panel
\* had read, only that process carries it out, at most once, and the first
\* feedback of it is true, whatever times out, ends or is still on its way.
Refusals == {"Rejected", "TargetChanged", "Unavailable", "NoReceiver", "Ambiguous"}
Successes == {"Accepted", "Observed"}

Shown(result) ==
  IF result \in Refusals THEN "refused"
  ELSE IF result \in Successes THEN "succeeded"
  ELSE IF result = "nothing" THEN "nothing" ELSE "unknown"

ShownOf(k) == IF asked[k] = "none" THEN "nothing" ELSE Shown(told[k])

Contract == INSTANCE ActionContract WITH
  Request <- Clicks, NoLife <- "none", shown <- [k \in Clicks |-> ShownOf(k)]

ImplementsContract == Contract!Spec

\* A click that has left a key of the chord down, because Windows cut the chord
\* short and then its cleanup too, is never shown as refused or as succeeded,
\* whichever of the answer and the two seconds of the panel comes first: the user
\* of a keyboard with a stuck Ctrl is told that the outcome is not known.
StuckKeysAreNotDenied ==
  \A k \in held : Shown(told[k]) \in {"nothing", "unknown"}

\* However a session ends, the panel does not go on showing it.
NoPhantomSession == <>[](\A l \in Life : ~frame[l].open) => <>[](~shown.active)

\* A click gets its feedback although mstsc may be stuck behind its frame or gone.
EveryClickIsAnswered ==
  \A k \in 1..MaxClick : clicks = k ~> feedback.click >= k /\ inbox = <<>>
=============================================================================
