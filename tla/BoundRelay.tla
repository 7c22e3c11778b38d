----------------------------- MODULE BoundRelay -----------------------------
(***************************************************************************)
(* One host, one relay and the client (mstsc) processes of a session: the  *)
(* path of a status query or an action from the host worker through the    *)
(* dynamic virtual channel and the relay's OnDataReceived to the window    *)
(* procedure of the client mod, and of the answer back.                    *)
(*                                                                         *)
(* A process lifetime is what (pid, creation time) identifies: lifetimes   *)
(* that share a pid model pid reuse.  Every FindTarget call takes three    *)
(* separate steps (process snapshot, creation time, windows), because the  *)
(* processes may change between them.  Frames, keys and wording are left   *)
(* out; an API failure is a refusal that may always be taken.              *)
(***************************************************************************)
EXTENDS Naturals, Sequences

CONSTANTS Request,   \* request identifiers, each used once
          Life,      \* client process lifetimes
          NoLife,    \* no lifetime (targetPid = 0)
          Pid,       \* process identifiers
          PidOf      \* the pid of each lifetime

ASSUME LifeAssumption == NoLife \notin Life /\ PidOf \in [Life -> Pid]

VARIABLES
  process,     \* process[l]: "unborn", "up" or "dead"
  receiver,    \* receiver[l]: the client mod of l has its relay window
  session,     \* session[l]: l shows an RDP session frame
  sample,      \* sample[l]: the snapshot l is about to publish
  file,        \* the status record last published (one shared path)
  reported,    \* history: lifetimes that published an active session
  view,        \* g_ClientView of the host
  command,     \* command[r]: "none", "query" or "action"
  target,      \* target[r]: the lifetime the request is bound to
  hostPc,      \* hostPc[r]: progress of r on the host worker
  told,        \* told[r]: the result the host reports for r
  relayPc,     \* relayPc[r]: progress of r in the relay
  status,      \* status[r]: the FindTarget call of BuildStatusReply
  forward,     \* forward[r]: the FindTarget call of ForwardBoundCommand
  reply,       \* reply[r]: the reply being built for r
  message,     \* message[r]: the WM_COPYDATA of r at the client window
  bound,       \* bound[r]: the FindTarget call of CheckBoundTarget
  answer,      \* answer[r]: what the client window procedure returned
  carriedOut   \* carriedOut[r]: history of the lifetimes that executed r

clientVars == <<process, receiver, session, sample, file, reported>>
hostVars   == <<view, command, target, hostPc, told>>
relayVars  == <<relayPc, status, forward, reply>>
windowVars == <<message, bound, answer, carriedOut>>
vars == <<clientVars, hostVars, relayVars, windowVars>>

-----------------------------------------------------------------------------
(* Results and the records that carry them                                 *)

\* "Refused" stands for every definite refusal (NoReceiver, Ambiguous,
\* TargetChanged, Unavailable, Rejected, Unsupported), "Unknown" also for
\* TimedOut: the properties do not tell the reasons apart.
Successes == {"Accepted", "Observed"}
Results   == Successes \cup {"Refused", "Unknown"}

Lives == Life \cup {NoLife}

Find    == [step : {"idle", "snapshot", "birth", "windows", "found", "refused"},
            life : Lives, window : Lives]
Sample  == [stage : {"none", "taken", "sole"}, active : BOOLEAN]
Status  == [writer : Lives, active : BOOLEAN]
Reply   == [result : Results, known : BOOLEAN, active : BOOLEAN, life : Lives]
View    == [known : BOOLEAN, active : BOOLEAN, life : Lives]
Message == [stage : {"none", "pending", "checking", "answered"},
            life : Lives, window : Lives]

NoSample  == [stage |-> "none", active |-> FALSE]
Stale     == [writer |-> NoLife, active |-> FALSE]
NoView    == [known |-> FALSE, active |-> FALSE, life |-> NoLife]
NoMessage == [stage |-> "none", life |-> NoLife, window |-> NoLife]
Answered  == [stage |-> "answered", life |-> NoLife, window |-> NoLife]
Sampled(stage, active) == [stage |-> stage, active |-> active]
At(step, life, window) == [step |-> step, life |-> life, window |-> window]
IdleFind  == At("idle", NoLife, NoLife)
StartFind == At("snapshot", NoLife, NoLife)
Refused   == At("refused", NoLife, NoLife)

(* A reply that is neither accepted nor observed carries no client state.  *)
Failure(result) ==
  [result |-> result, known |-> FALSE, active |-> FALSE, life |-> NoLife]

NoReply == Failure("Unknown")

-----------------------------------------------------------------------------
(* FindTarget: the sole client process, its creation time, its receiver    *)

Up == {l \in Life : process[l] = "up"}

\* Two processes are ambiguous, none is no receiver.
AfterSnapshot ==
  {Refused} \cup {At("birth", l, NoLife) : l \in {m \in Up : Up = {m}}}

\* Only the pid survives from the snapshot: the creation time is that of the
\* process that has the pid now.  TargetChanged if another one is expected.
AfterBirth(f, expected) ==
  {Refused} \cup {At("windows", l, NoLife) :
                   l \in {m \in Up : /\ PidOf[m] = PidOf[f.life]
                                     /\ expected \in {NoLife, m}}}

\* Several frames, a second or a foreign receiver are ambiguous.
AfterWindows(f) ==
  LET receivers == {l \in Up : receiver[l]} IN
  {Refused} \cup {At("found", f.life, l) :
                   l \in {m \in receivers : /\ receivers = {m}
                                            /\ PidOf[m] = PidOf[f.life]}}

FindTarget(f, expected) ==
  IF f.step = "snapshot" THEN AfterSnapshot
  ELSE IF f.step = "birth" THEN AfterBirth(f, expected)
  ELSE IF f.step = "windows" THEN AfterWindows(f)
  ELSE {}

-----------------------------------------------------------------------------
(* The client processes and the mod inside them                            *)

StartProcess(l) ==
  /\ process[l] = "unborn"
  /\ \A m \in Up : PidOf[m] # PidOf[l]
  /\ process' = [process EXCEPT ![l] = "up"]
  /\ UNCHANGED <<receiver, session, sample, file, reported, hostVars, relayVars,
                 windowVars>>

\* The messages of a window that is destroyed are never processed.
Dropped(l, stages) ==
  {r \in Request : message[r].window = l /\ message[r].stage \in stages}

DropMessages(l, stages) ==
  /\ message' = [r \in Request |->
                   IF r \in Dropped(l, stages) THEN NoMessage ELSE message[r]]
  /\ bound' = [r \in Request |->
                 IF r \in Dropped(l, stages) THEN IdleFind ELSE bound[r]]

ExitProcess(l) ==
  /\ process[l] = "up"
  /\ process' = [process EXCEPT ![l] = "dead"]
  /\ receiver' = [receiver EXCEPT ![l] = FALSE]
  /\ session' = [session EXCEPT ![l] = FALSE]
  /\ sample' = [sample EXCEPT ![l] = NoSample]
  /\ DropMessages(l, {"pending", "checking"})
  /\ UNCHANGED <<file, reported, hostVars, relayVars, answer, carriedOut>>

StartReceiver(l) ==
  /\ process[l] = "up" /\ ~receiver[l]
  /\ receiver' = [receiver EXCEPT ![l] = TRUE]
  /\ UNCHANGED <<process, session, sample, file, reported, hostVars, relayVars,
                 windowVars>>

\* StopRelayThread quits the message loop between two messages.
StopReceiver(l) ==
  /\ receiver[l]
  /\ \A r \in Request : message[r].window = l => message[r].stage # "checking"
  /\ receiver' = [receiver EXCEPT ![l] = FALSE]
  /\ DropMessages(l, {"pending"})
  /\ UNCHANGED <<process, session, sample, file, reported, hostVars, relayVars,
                 answer, carriedOut>>

ToggleSession(l) ==
  /\ process[l] = "up"
  /\ session' = [session EXCEPT ![l] = ~@]
  /\ UNCHANGED <<process, receiver, sample, file, reported, hostVars, relayVars,
                 windowVars>>

\* WriteLocalWidgetStatus looks at the frame first and counts after it.
TakeSnapshot(l) ==
  /\ process[l] = "up"
  /\ sample[l] = NoSample
  /\ sample' = [sample EXCEPT ![l] = Sampled("taken", session[l])]
  /\ UNCHANGED <<process, receiver, session, file, reported, hostVars,
                 relayVars, windowVars>>

\* Only the sole client process goes on to publish.
CountClients(l) ==
  /\ sample[l].stage = "taken"
  /\ \/ sample' = [sample EXCEPT ![l] = NoSample]
     \/ /\ Up = {l}
        /\ sample' = [sample EXCEPT ![l] = Sampled("sole", sample[l].active)]
  /\ UNCHANGED <<process, receiver, session, file, reported, hostVars,
                 relayVars, windowVars>>

\* The record replaces the previous one, whichever process wrote that; when
\* the replacement fails, the previous record stays.
PublishRecord(l) ==
  /\ sample[l].stage = "sole"
  /\ \/ UNCHANGED <<file, reported>>
     \/ /\ file' = [writer |-> l, active |-> sample[l].active]
        /\ reported' = IF sample[l].active THEN reported \cup {l} ELSE reported
  /\ sample' = [sample EXCEPT ![l] = NoSample]
  /\ UNCHANGED <<process, receiver, session, hostVars, relayVars, windowVars>>

\* A record older than four seconds is worth as much as none at all.
FileAges ==
  /\ file # Stale
  /\ file' = Stale
  /\ UNCHANGED <<process, receiver, session, sample, reported, hostVars,
                 relayVars, windowVars>>

-----------------------------------------------------------------------------
(* The host: clicks, the status poll and the one worker                    *)

SendRelayCommandAsync(r) ==
  /\ hostPc[r] = "idle"
  /\ view.known /\ view.active
  /\ command' = [command EXCEPT ![r] = "action"]
  /\ target' = [target EXCEPT ![r] = view.life]
  /\ hostPc' = [hostPc EXCEPT ![r] = "queued"]
  /\ UNCHANGED <<clientVars, view, told, relayVars, windowVars>>

PollClientStateAsync(r) ==
  /\ hostPc[r] = "idle"
  /\ command' = [command EXCEPT ![r] = "query"]
  /\ hostPc' = [hostPc EXCEPT ![r] = "queued"]
  /\ UNCHANGED <<clientVars, view, target, told, relayVars, windowVars>>

\* GetClientView reports a view older than kClientViewStaleMs as unknown.
ViewExpires ==
  /\ view.known
  /\ view' = NoView
  /\ UNCHANGED <<clientVars, command, target, hostPc, told, relayVars,
                 windowVars>>

ApplyRelayReply(r, rep) ==
  /\ view' = [known |-> rep.known, active |-> rep.active, life |-> rep.life]
  /\ told' = [told EXCEPT ![r] = rep.result]
  /\ hostPc' = [hostPc EXCEPT ![r] = "done"]

WorkerFree == \A r \in Request : hostPc[r] # "waiting"

RunRelayRequest(r) ==
  /\ hostPc[r] = "queued" /\ WorkerFree
  /\ \/ \* IsRdpNow is false or the channel does not open
        /\ ApplyRelayReply(r, Failure("Refused"))
        /\ UNCHANGED relayPc
     \/ \* the write fails; the bytes may have left all the same
        /\ ApplyRelayReply(r, Failure("Unknown"))
        /\ relayPc' = [relayPc EXCEPT ![r] = "onTheWire"]
     \/ /\ hostPc' = [hostPc EXCEPT ![r] = "waiting"]
        /\ relayPc' = [relayPc EXCEPT ![r] = "onTheWire"]
        /\ UNCHANGED <<view, told>>
  /\ UNCHANGED <<clientVars, command, target, status, forward, reply,
                 windowVars>>

Return(r) ==
  /\ relayPc' = [relayPc EXCEPT ![r] = "returned"]
  /\ reply' = [reply EXCEPT ![r] = NoReply]

\* The reply is read before the channel closes.
ReadReply(r) ==
  /\ hostPc[r] = "waiting"
  /\ relayPc[r] = "write"
  /\ ApplyRelayReply(r, reply[r])
  /\ Return(r)
  /\ UNCHANGED <<clientVars, command, target, status, forward, windowVars>>

\* Mutants: a timeout is reported as a refusal; the read waits for a reply.
ReadTimesOutRefused(r) ==
  /\ hostPc[r] = "waiting"
  /\ ApplyRelayReply(r, Failure("Refused"))
  /\ UNCHANGED <<clientVars, command, target, relayVars, windowVars>>

ReadTimesOutIfReplied(r) ==
  /\ hostPc[r] = "waiting"
  /\ relayPc[r] = "write"
  /\ ApplyRelayReply(r, Failure("Unknown"))
  /\ UNCHANGED <<clientVars, command, target, relayVars, windowVars>>

\* WTSVirtualChannelRead gives up after four seconds, the channel closes.
ReadTimesOut(r) ==
  /\ hostPc[r] = "waiting"
  /\ ApplyRelayReply(r, Failure("Unknown"))
  /\ UNCHANGED <<clientVars, command, target, relayVars, windowVars>>

-----------------------------------------------------------------------------
(* The relay: one OnDataReceived per request, each on a channel of its own *)

LoseRequest(r) ==
  /\ relayPc[r] = "onTheWire"
  /\ relayPc' = [relayPc EXCEPT ![r] = "returned"]
  /\ UNCHANGED <<clientVars, hostVars, status, forward, reply, windowVars>>

OnDataReceived(r) ==
  /\ relayPc[r] = "onTheWire"
  /\ relayPc' = [relayPc EXCEPT ![r] = "status"]
  /\ status' = [status EXCEPT ![r] = StartFind]
  /\ UNCHANGED <<clientVars, hostVars, forward, reply, windowVars>>

StatusFindTarget(r) ==
  /\ relayPc[r] = "status"
  /\ \E f \in FindTarget(status[r], NoLife) :
        status' = [status EXCEPT ![r] = f]
  /\ UNCHANGED <<clientVars, hostVars, relayPc, forward, reply, windowVars>>

Respond(r, rep) ==
  /\ reply' = [reply EXCEPT ![r] = rep]
  /\ relayPc' = [relayPc EXCEPT ![r] = "write"]

\* Mutant: the writer of the snapshot is compared by its pid only.
ReadStatusByPid(f) ==
  IF file.writer = NoLife THEN Failure("Refused")
  ELSE IF PidOf[file.writer] # PidOf[f.life] THEN Failure("Refused")
  ELSE [result |-> "Observed", known |-> TRUE, active |-> file.active,
        life |-> f.life]

\* What the snapshot file says of the process just found.
ReadStatus(f) ==
  IF file.writer # f.life THEN Failure("Refused")
  ELSE [result |-> "Observed", known |-> TRUE, active |-> file.active,
        life |-> f.life]

\* Mutant: a command that is not forwarded is answered with the client state.
NotForwardedAsRead(state) == state

\* TargetChanged, or Unavailable when the session is not active
NotForwarded(state) == Failure("Refused")

\* The end of BuildStatusReply and the decision what to do with the command.
BuildStatusReply(r) ==
  /\ relayPc[r] = "status"
  /\ \/ /\ status[r].step = "refused"
        /\ Respond(r, Failure("Refused"))
        /\ UNCHANGED forward
     \/ /\ status[r].step = "found"
        /\ \E state \in {ReadStatus(status[r]), Failure("Refused")} :
             \/ /\ command[r] = "query" \/ state.result = "Refused"
                /\ Respond(r, state)
                /\ UNCHANGED forward
             \/ /\ command[r] = "action" /\ state.result = "Observed"
                /\ target[r] # state.life \/ ~state.active
                /\ Respond(r, NotForwarded(state))
                /\ UNCHANGED forward
             \/ /\ command[r] = "action" /\ state.result = "Observed"
                /\ target[r] = state.life /\ state.active
                /\ reply' = [reply EXCEPT ![r] = state]
                /\ relayPc' = [relayPc EXCEPT ![r] = "forward"]
                /\ forward' = [forward EXCEPT ![r] = StartFind]
  /\ status' = [status EXCEPT ![r] = IdleFind]
  /\ UNCHANGED <<clientVars, hostVars, windowVars>>

ForwardFindTarget(r) ==
  /\ relayPc[r] = "forward"
  /\ \E f \in FindTarget(forward[r], target[r]) :
        forward' = [forward EXCEPT ![r] = f]
  /\ UNCHANGED <<clientVars, hostVars, relayPc, status, reply, windowVars>>

\* An action that is not accepted or observed drops the client state.
Outcome(rep, result) ==
  IF result \in Successes
  THEN [result |-> result, known |-> rep.known, active |-> rep.active,
        life |-> rep.life]
  ELSE Failure(result)

Conclude(r, result) == Respond(r, Outcome(reply[r], result))

ForwardRefused(r) ==
  /\ relayPc[r] = "forward"
  /\ forward[r].step = "refused"
  /\ Conclude(r, "Refused")
  /\ forward' = [forward EXCEPT ![r] = IdleFind]
  /\ UNCHANGED <<clientVars, hostVars, status, windowVars>>

SendMessageTimeout(r) ==
  LET f == forward[r] IN
  /\ relayPc[r] = "forward"
  /\ f.step = "found"
  /\ \/ \* no identity window
        /\ Conclude(r, "Refused")
        /\ UNCHANGED message
     \/ \* the window is gone
        /\ ~receiver[f.window]
        /\ Conclude(r, "Unknown")
        /\ UNCHANGED message
     \/ /\ receiver[f.window]
        /\ relayPc' = [relayPc EXCEPT ![r] = "await"]
        /\ message' = [message EXCEPT ![r] =
             [stage |-> "pending", life |-> f.life, window |-> f.window]]
        /\ UNCHANGED reply
  /\ forward' = [forward EXCEPT ![r] = IdleFind]
  /\ UNCHANGED <<clientVars, hostVars, status, bound, answer, carriedOut>>

MessageAnswered(r) ==
  /\ relayPc[r] = "await"
  /\ answer[r] # "nothing"
  /\ Conclude(r, answer[r])
  /\ answer' = [answer EXCEPT ![r] = "nothing"]
  /\ UNCHANGED <<clientVars, hostVars, status, forward, message, bound,
                 carriedOut>>

\* Mutants: no answer is taken for a refusal; only a dead window ends the wait.
MessageTimesOutRefused(r) ==
  /\ relayPc[r] = "await"
  /\ Conclude(r, "Refused")
  /\ answer' = [answer EXCEPT ![r] = "nothing"]
  /\ UNCHANGED <<clientVars, hostVars, status, forward, message, bound,
                 carriedOut>>

MessageTimesOutIfDropped(r) ==
  /\ relayPc[r] = "await"
  /\ message[r].stage = "none"
  /\ Conclude(r, "Unknown")
  /\ answer' = [answer EXCEPT ![r] = "nothing"]
  /\ UNCHANGED <<clientVars, hostVars, status, forward, message, bound,
                 carriedOut>>

\* After 1.5 s, or because the window died: the message may still be run.
MessageTimesOut(r) ==
  /\ relayPc[r] = "await"
  /\ Conclude(r, "Unknown")
  /\ answer' = [answer EXCEPT ![r] = "nothing"]
  /\ UNCHANGED <<clientVars, hostVars, status, forward, message, bound,
                 carriedOut>>

\* Write on a channel the host no longer reads.
WriteToClosedChannel(r) ==
  /\ relayPc[r] = "write"
  /\ hostPc[r] = "done"
  /\ Return(r)
  /\ UNCHANGED <<clientVars, hostVars, status, forward, windowVars>>

-----------------------------------------------------------------------------
(* The client window procedure, in the process that owns the window        *)

\* A relay that has given up never sees what the procedure returns.
Answer(r, result) ==
  /\ message' = [message EXCEPT ![r] = Answered]
  /\ answer' = [answer EXCEPT ![r] =
                  IF relayPc[r] = "await" THEN result ELSE "nothing"]
  /\ bound' = [bound EXCEPT ![r] = IdleFind]

\* RelayWndProc up to the FindTarget call of CheckBoundTarget.
RelayWndProc(r) ==
  LET m == message[r] IN
  /\ m.stage = "pending"
  /\ \/ \* the sender is not the registered relay: FALSE
        Answer(r, "Unknown")
     \/ /\ PidOf[m.life] # PidOf[m.window]
        /\ Answer(r, "Refused")
     \/ /\ PidOf[m.life] = PidOf[m.window]
        /\ message' = [message EXCEPT ![r] =
             [stage |-> "checking", life |-> m.life, window |-> m.window]]
        /\ bound' = [bound EXCEPT ![r] = StartFind]
        /\ UNCHANGED answer
  /\ UNCHANGED <<clientVars, hostVars, relayVars, carriedOut>>

\* Mutant: the client looks for any target instead of the bound one.
CheckAnyTarget(r) ==
  /\ message[r].stage = "checking"
  /\ \E f \in FindTarget(bound[r], NoLife) :
        bound' = [bound EXCEPT ![r] = f]
  /\ UNCHANGED <<clientVars, hostVars, relayVars, message, answer, carriedOut>>

CheckBoundTarget(r) ==
  /\ message[r].stage = "checking"
  /\ \E f \in FindTarget(bound[r], message[r].life) :
        bound' = [bound EXCEPT ![r] = f]
  /\ UNCHANGED <<clientVars, hostVars, relayVars, message, answer, carriedOut>>

BoundTargetRefused(r) ==
  /\ message[r].stage = "checking"
  /\ bound[r].step = "refused"
  /\ Answer(r, "Refused")
  /\ UNCHANGED <<clientVars, hostVars, relayVars, carriedOut>>

ExecuteClientCommand(r) ==
  LET self == message[r].window IN
  /\ message[r].stage = "checking"
  /\ bound[r].step = "found"
  /\ \/ \* stopping, no frame of this process, or the operation is refused
        /\ Answer(r, "Refused")
        /\ UNCHANGED carriedOut
     \/ \* done, found done already, or a part of the shortcut injected
        /\ session[self]
        /\ \E result \in Successes \cup {"Unknown"} : Answer(r, result)
        /\ carriedOut' = [carriedOut EXCEPT ![r] = Append(@, self)]
  /\ UNCHANGED <<clientVars, hostVars, relayVars>>

-----------------------------------------------------------------------------

Init ==
  /\ process = [l \in Life |-> "unborn"]
  /\ receiver = [l \in Life |-> FALSE]
  /\ session = [l \in Life |-> FALSE]
  /\ sample = [l \in Life |-> NoSample]
  /\ file = Stale
  /\ reported = {}
  /\ view = NoView
  /\ command = [r \in Request |-> "none"]
  /\ target = [r \in Request |-> NoLife]
  /\ hostPc = [r \in Request |-> "idle"]
  /\ told = [r \in Request |-> "nothing"]
  /\ relayPc = [r \in Request |-> "none"]
  /\ status = [r \in Request |-> IdleFind]
  /\ forward = [r \in Request |-> IdleFind]
  /\ reply = [r \in Request |-> NoReply]
  /\ message = [r \in Request |-> NoMessage]
  /\ bound = [r \in Request |-> IdleFind]
  /\ answer = [r \in Request |-> "nothing"]
  /\ carriedOut = [r \in Request |-> <<>>]

Client(l) ==
  \/ StartProcess(l) \/ ExitProcess(l)
  \/ StartReceiver(l) \/ StopReceiver(l)
  \/ ToggleSession(l)
  \/ TakeSnapshot(l) \/ CountClients(l) \/ PublishRecord(l)

Host(r) ==
  \/ SendRelayCommandAsync(r) \/ PollClientStateAsync(r)
  \/ RunRelayRequest(r) \/ ReadReply(r) \/ ReadTimesOut(r)

Relay(r) ==
  \/ LoseRequest(r) \/ OnDataReceived(r)
  \/ StatusFindTarget(r) \/ BuildStatusReply(r)
  \/ ForwardFindTarget(r) \/ ForwardRefused(r)
  \/ SendMessageTimeout(r) \/ MessageAnswered(r) \/ MessageTimesOut(r)
  \/ WriteToClosedChannel(r)

Window(r) ==
  \/ RelayWndProc(r) \/ CheckBoundTarget(r)
  \/ BoundTargetRefused(r) \/ ExecuteClientCommand(r)

Next ==
  \/ \E l \in Life : Client(l)
  \/ FileAges
  \/ ViewExpires
  \/ \E r \in Request : Host(r) \/ Relay(r) \/ Window(r)

Spec == Init /\ [][Next]_vars

-----------------------------------------------------------------------------
(* Properties                                                              *)

TypeOK ==
  /\ process \in [Life -> {"unborn", "up", "dead"}]
  /\ receiver \in [Life -> BOOLEAN]
  /\ session \in [Life -> BOOLEAN]
  /\ sample \in [Life -> Sample]
  /\ file \in Status
  /\ reported \in SUBSET Life
  /\ view \in View
  /\ command \in [Request -> {"none", "query", "action"}]
  /\ target \in [Request -> Lives]
  /\ hostPc \in [Request -> {"idle", "queued", "waiting", "done"}]
  /\ told \in [Request -> Results \cup {"nothing"}]
  /\ relayPc \in [Request -> {"none", "onTheWire", "status", "forward",
                             "await", "write", "returned"}]
  /\ status \in [Request -> Find]
  /\ forward \in [Request -> Find]
  /\ reply \in [Request -> Reply]
  /\ message \in [Request -> Message]
  /\ bound \in [Request -> Find]
  /\ answer \in [Request -> Results \cup {"nothing"}]
  /\ carriedOut \in [Request -> Seq(Lives)]

(* A command is carried out only by the process lifetime the host showed   *)
(* when the user clicked, and at most once, whatever processes come and go *)
(* (pids included) between the three target checks, and however late the   *)
(* window message is run after the relay or the host has given up.         *)
OnlyTheBoundTargetOnce ==
  \A r \in Request : carriedOut[r] \in {<<>>, <<target[r]>>}

(* A definite refusal reported by the host is final: the command was not   *)
(* carried out and no window message that could still run it is left.      *)
RefusalIsFinal ==
  \A r \in Request :
    told[r] = "Refused" =>
      /\ carriedOut[r] = <<>>
      /\ message[r].stage \notin {"pending", "checking"}

(* The host reports an action as accepted or observed only if the bound    *)
(* process did it (or found it done already).                              *)
SuccessIsReal ==
  \A r \in Request :
    (command[r] = "action" /\ told[r] \in Successes) => carriedOut[r] # <<>>

(* The controls are live only for a process that itself published an       *)
(* active session: no snapshot of another lifetime, of a dead process with *)
(* the same pid included, is attributed to the one that is shown.          *)
ViewIsItsOwnReport ==
  (view.known /\ view.active) => view.life \in reported

(* The inductive invariant behind the four invariants above, in parts.     *)
(* A running process owns its pid, and only a running process has windows. *)
ProcessInv ==
  /\ \A l, m \in Up : PidOf[l] = PidOf[m] => l = m
  /\ \A l \in Life : receiver[l] => process[l] = "up"

\* What a snapshot says of a process was said by that process.
ReportInv ==
  /\ file.active => file.writer \in reported
  /\ view.known => view.life \in Life
  /\ (view.known /\ view.active) => view.life \in reported
  /\ \A r \in Request :
       /\ reply[r].known => reply[r].life \in Life
       /\ (reply[r].known /\ reply[r].active) => reply[r].life \in reported

\* How far the host, the relay and the window of a request can be apart.
ProgressInv(r) ==
  /\ hostPc[r] \in {"idle", "queued"} => relayPc[r] = "none"
  /\ (hostPc[r] = "idle") = (command[r] = "none")
  /\ (command[r] = "action") = (target[r] # NoLife)
  /\ (told[r] = "nothing") = (hostPc[r] # "done")
  /\ relayPc[r] \in {"forward", "await"} => command[r] = "action"
  /\ relayPc[r] # "forward" => forward[r].step = "idle"
  /\ relayPc[r] # "status" => status[r].step = "idle"
  /\ relayPc[r] \in {"none", "onTheWire", "status", "forward"} =>
       message[r].stage = "none"
  /\ (message[r].stage = "checking") = (bound[r].step # "idle")
  /\ answer[r] # "nothing" =>
       relayPc[r] = "await" /\ message[r].stage = "answered"
  /\ relayPc[r] = "await" /\ message[r].stage = "answered" =>
       answer[r] # "nothing"

\* A target that was looked for is the target of the request, and once the
\* client has checked it, its window is a window of that very lifetime.
TargetInv(r) ==
  /\ status[r].step \in {"birth", "windows", "found"} => status[r].life \in Life
  /\ forward[r].step \in {"birth", "windows", "found"} => forward[r].life \in Life
  /\ forward[r].step \in {"windows", "found"} => forward[r].life = target[r]
  /\ forward[r].step = "found" => forward[r].window \in Life
  /\ bound[r].step \in {"birth", "windows", "found"} => bound[r].life \in Life
  /\ message[r].stage \in {"pending", "checking"} =>
       /\ message[r].life = target[r]
       /\ message[r].window \in Life
       /\ process[message[r].window] = "up"
  /\ message[r].stage = "checking" =>
       PidOf[message[r].life] = PidOf[message[r].window]
  /\ bound[r].step \in {"windows", "found"} => message[r].window = target[r]

\* What has been answered, at each stage, agrees with what has been done.
Agrees(r, result) ==
  /\ result = "Refused" => /\ carriedOut[r] = <<>>
                           /\ message[r].stage \notin {"pending", "checking"}
  /\ result \in Successes => carriedOut[r] # <<>>

OutcomeInv(r) ==
  /\ carriedOut[r] \in {<<>>, <<target[r]>>}
  /\ carriedOut[r] # <<>> =>
       message[r].stage = "answered" /\ command[r] = "action"
  /\ answer[r] # "nothing" => Agrees(r, answer[r])
  /\ (relayPc[r] = "write" /\ command[r] = "action") => Agrees(r, reply[r].result)
  /\ told[r] = "Refused" => relayPc[r] \in {"none", "returned"}
  /\ command[r] = "action" => Agrees(r, told[r])
  /\ command[r] = "query" => message[r].stage = "none"

RequestInv(r) == ProgressInv(r) /\ TargetInv(r) /\ OutcomeInv(r)

Inductive ==
  /\ TypeOK
  /\ ProcessInv
  /\ ReportInv
  /\ \A r \in Request : RequestInv(r)

(* The contract with the user (ActionContract), seen through this mapping: *)
(* what was asked, who carried it out, and which class of answer was shown.*)
Shown(result) ==
  IF result = "nothing" THEN "nothing"
  ELSE IF result = "Refused" THEN "refused"
  ELSE IF result \in Successes THEN "succeeded" ELSE "unknown"

Contract == INSTANCE ActionContract WITH
  asked <- target,
  carriedOut <- carriedOut,
  shown <- [r \in Request |->
             IF command[r] = "action" THEN Shown(told[r]) ELSE "nothing"]

ImplementsContract == Contract!Spec

(* Every wait of the path has a bound: the channel read, the window        *)
(* message, the worker's queue.  The client may die or hang at any time.   *)
Fairness ==
  \A r \in Request :
    /\ WF_vars(RunRelayRequest(r))
    /\ WF_vars(ReadReply(r) \/ ReadTimesOut(r))
    /\ WF_vars(LoseRequest(r) \/ OnDataReceived(r))
    /\ WF_vars(StatusFindTarget(r) \/ BuildStatusReply(r))
    /\ WF_vars(ForwardFindTarget(r) \/ ForwardRefused(r) \/ SendMessageTimeout(r))
    /\ WF_vars(MessageAnswered(r) \/ MessageTimesOut(r))
    /\ WF_vars(WriteToClosedChannel(r))

FairSpec == Spec /\ Fairness

(* Every queued request gets its answer: the single worker is never held   *)
(* for good by a relay or a client that does not answer.                   *)
EveryRequestIsAnswered ==
  \A r \in Request : hostPc[r] = "queued" ~> hostPc[r] = "done"

(* Every call of OnDataReceived returns, even when the client window hangs *)
(* or its process dies with the message: the channel's request lock, and   *)
(* with it the relay process, is not held for ever.                        *)
EveryCallReturns ==
  \A r \in Request : relayPc[r] = "status" ~> relayPc[r] = "returned"
=============================================================================
