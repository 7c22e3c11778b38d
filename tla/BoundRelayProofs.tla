-------------------------- MODULE BoundRelayProofs --------------------------
(* Proofs about BoundRelay, for any set of requests, any processes and any *)
(* assignment of pids to them.                                             *)
EXTENDS BoundRelay, TLAPS

-----------------------------------------------------------------------------
(* The three steps of FindTarget                                           *)

(* What a step of FindTarget can conclude.  The creation time is compared  *)
(* in the step that leads to "windows", for a process that is up then.     *)
LEMMA FindTargetStep ==
  ASSUME NEW f \in Find, NEW expected \in Lives,
         NEW g \in FindTarget(f, expected)
  PROVE  /\ g \in Find
         /\ g.step \in {"refused", "birth", "windows", "found"}
         /\ g.step = "refused" => g = Refused
         /\ g.step = "birth" => g.life \in Life
         /\ g.step = "windows" => /\ f.step = "birth"
                                  /\ g.life \in Up
                                  /\ PidOf[g.life] = PidOf[f.life]
                                  /\ expected \in {NoLife, g.life}
         /\ g.step = "found" => /\ f.step = "windows"
                                /\ g.life = f.life
                                /\ g.window \in Up
<1>0. Refused \in Find /\ Refused.step = "refused"
  BY DEF Refused, At, Find, Lives
<1>1. CASE f.step = "snapshot"
  <2>1. g \in AfterSnapshot
    BY <1>1 DEF FindTarget
  <2>2. CASE g = Refused
    BY <2>2, <1>0
  <2>3. CASE \E l \in Up : g = At("birth", l, NoLife)
    BY <2>3 DEF At, Find, Lives, Up
  <2> QED
    BY <2>1, <2>2, <2>3 DEF AfterSnapshot
<1>2. CASE f.step = "birth"
  <2>1. g \in AfterBirth(f, expected)
    BY <1>2 DEF FindTarget
  <2>2. CASE g = Refused
    BY <2>2, <1>0
  <2>3. CASE \E l \in Up : /\ g = At("windows", l, NoLife)
                           /\ PidOf[l] = PidOf[f.life]
                           /\ expected \in {NoLife, l}
    BY <1>2, <2>3 DEF At, Find, Lives, Up
  <2> QED
    BY <2>1, <2>2, <2>3 DEF AfterBirth
<1>3. CASE f.step = "windows"
  <2>1. g \in AfterWindows(f)
    BY <1>3 DEF FindTarget
  <2>2. CASE g = Refused
    BY <2>2, <1>0
  <2>3. CASE \E l \in Up : g = At("found", f.life, l)
    BY <1>3, <2>3 DEF At, Find, Lives, Up
  <2> QED
    BY <2>1, <2>2, <2>3 DEF AfterWindows
<1>4. CASE f.step \in {"idle", "found", "refused"}
  BY <1>4 DEF FindTarget
<1> QED
  BY <1>1, <1>2, <1>3, <1>4 DEF Find

-----------------------------------------------------------------------------
(* Type correctness                                                        *)

LEMMA RecordTypes ==
  /\ Refused \in Find /\ IdleFind \in Find /\ StartFind \in Find
  /\ NoMessage \in Message /\ Answered \in Message
  /\ NoReply \in Reply /\ NoView \in View /\ Stale \in Status
  /\ \A result \in Results : Failure(result) \in Reply
BY DEF Refused, IdleFind, StartFind, At, Find, Lives, NoMessage, Answered, Message,
       NoReply, Failure, Reply, Results, Successes, NoView, View, Stale, Status

LEMMA TypeInit == Init => TypeOK
BY RecordTypes DEF Init, TypeOK, Lives, NoSample, Sample

LEMMA TypeClient ==
  ASSUME TypeOK, NEW l \in Life, Client(l) PROVE TypeOK'
<1> USE RecordTypes DEF TypeOK, hostVars, relayVars, windowVars
<1>1. CASE StartProcess(l) BY <1>1 DEF StartProcess
<1>2. CASE ExitProcess(l)
  <2>1. NoSample \in Sample
    BY DEF NoSample, Sample
  <2> QED
    BY <1>2, <2>1 DEF ExitProcess, DropMessages
<1>3. CASE StartReceiver(l) BY <1>3 DEF StartReceiver
<1>4. CASE StopReceiver(l) BY <1>4 DEF StopReceiver, DropMessages
<1>5. CASE ToggleSession(l) BY <1>5 DEF ToggleSession
<1>6. NoSample \in Sample
      /\ \A stage \in {"taken", "sole"}, b \in BOOLEAN :
           Sampled(stage, b) \in Sample
  BY DEF NoSample, Sampled, Sample
<1>7. CASE TakeSnapshot(l)
  BY <1>6, <1>7 DEF TakeSnapshot
<1>8. CASE CountClients(l)
  <2>1. sample[l].active \in BOOLEAN
    BY DEF Sample
  <2> QED
    BY <1>6, <1>8, <2>1 DEF CountClients
<1>9. CASE PublishRecord(l)
  <2>1. sample[l].active \in BOOLEAN
    BY DEF Sample
  <2>2. [writer |-> l, active |-> sample[l].active] \in Status
    BY <2>1 DEF Status, Lives
  <2>3. file' \in Status /\ reported' \in SUBSET Life
    BY <1>9, <2>2 DEF PublishRecord
  <2> QED
    BY <1>6, <1>9, <2>3 DEF PublishRecord
<1> QED
  BY <1>1, <1>2, <1>3, <1>4, <1>5, <1>7, <1>8, <1>9 DEF Client

LEMMA TypeHost ==
  ASSUME TypeOK, NEW r \in Request, Host(r) PROVE TypeOK'
<1> USE RecordTypes DEF TypeOK, clientVars, relayVars, windowVars
<1>1. CASE SendRelayCommandAsync(r)
  BY <1>1 DEF SendRelayCommandAsync, View
<1>2. CASE PollClientStateAsync(r)
  BY <1>2 DEF PollClientStateAsync
<1>3. ASSUME NEW rep \in Reply, ApplyRelayReply(r, rep)
      PROVE  /\ view' \in View
             /\ told' \in [Request -> Results \cup {"nothing"}]
             /\ hostPc' \in [Request -> {"idle", "queued", "waiting", "done"}]
  <2>1. view' = [known |-> rep.known, active |-> rep.active, life |-> rep.life]
    BY <1>3 DEF ApplyRelayReply
  <2>2. rep.known \in BOOLEAN /\ rep.active \in BOOLEAN /\ rep.life \in Lives
    BY <1>3 DEF Reply
  <2>3. view' \in View
    BY <2>1, <2>2 DEF View
  <2>4. rep.result \in Results
    BY <1>3 DEF Reply
  <2> QED
    BY <1>3, <2>3, <2>4 DEF ApplyRelayReply
<1>4. Failure("Refused") \in Reply /\ Failure("Unknown") \in Reply
  BY DEF Results
<1>5. CASE RunRelayRequest(r)
  <2>1. CASE ApplyRelayReply(r, Failure("Refused")) /\ UNCHANGED relayPc
    BY <1>3, <1>4, <1>5, <2>1 DEF RunRelayRequest
  <2>2. CASE /\ ApplyRelayReply(r, Failure("Unknown"))
             /\ relayPc' = [relayPc EXCEPT ![r] = "onTheWire"]
    BY <1>3, <1>4, <1>5, <2>2 DEF RunRelayRequest
  <2>3. CASE /\ hostPc' = [hostPc EXCEPT ![r] = "waiting"]
             /\ relayPc' = [relayPc EXCEPT ![r] = "onTheWire"]
             /\ UNCHANGED <<view, told>>
    BY <1>5, <2>3 DEF RunRelayRequest
  <2> QED
    BY <1>5, <2>1, <2>2, <2>3 DEF RunRelayRequest
<1>6. CASE ReadReply(r)
  <2>1. reply[r] \in Reply
    OBVIOUS
  <2> QED
    BY <1>3, <1>6, <2>1 DEF ReadReply, Return
<1>7. CASE ReadTimesOut(r)
  BY <1>3, <1>4, <1>7 DEF ReadTimesOut
<1> QED BY <1>1, <1>2, <1>5, <1>6, <1>7 DEF Host

LEMMA TypeRelay ==
  ASSUME TypeOK, NEW r \in Request, Relay(r) PROVE TypeOK'
<1> USE RecordTypes DEF TypeOK, clientVars, hostVars, windowVars
<1>1. CASE LoseRequest(r) BY <1>1 DEF LoseRequest
<1>2. CASE OnDataReceived(r) BY <1>2 DEF OnDataReceived
<1>3. CASE StatusFindTarget(r)
  BY <1>3, FindTargetStep DEF StatusFindTarget, Lives
<1>4. ASSUME NEW rep \in Reply, Respond(r, rep)
      PROVE  /\ reply' \in [Request -> Reply]
             /\ relayPc' \in [Request -> {"none", "onTheWire", "status",
                                        "forward", "await", "write", "returned"}]
  BY <1>4 DEF Respond
<1>5. ASSUME NEW result \in Results, Conclude(r, result)
      PROVE  /\ reply' \in [Request -> Reply]
             /\ relayPc' \in [Request -> {"none", "onTheWire", "status",
                                        "forward", "await", "write", "returned"}]
  <2>1. Outcome(reply[r], result) \in Reply
    BY DEF Outcome, Reply, Failure, Lives
  <2> QED
    BY <1>4, <1>5, <2>1 DEF Conclude
<1>6. "Refused" \in Results /\ "Unknown" \in Results
  BY DEF Results
<1>7. CASE BuildStatusReply(r)
  <2>1. Failure("Refused") \in Reply
    BY <1>6
  <2>2. ReadStatus(status[r]) \in Reply
    BY <2>1 DEF ReadStatus, Reply, Find, Status, Results, Successes
  <2>3. CASE status[r].step = "refused"
    BY <1>4, <1>7, <2>1, <2>3 DEF BuildStatusReply
  <2>4. CASE status[r].step = "found"
    <3>1. PICK state \in {ReadStatus(status[r]), Failure("Refused")} :
             \/ Respond(r, state) /\ UNCHANGED forward
             \/ Respond(r, Failure("Refused")) /\ UNCHANGED forward
             \/ /\ reply' = [reply EXCEPT ![r] = state]
                /\ relayPc' = [relayPc EXCEPT ![r] = "forward"]
                /\ forward' = [forward EXCEPT ![r] = StartFind]
      BY <1>7, <2>4 DEF BuildStatusReply, NotForwarded
    <3>2. state \in Reply
      BY <2>1, <2>2
    <3>3. /\ reply' \in [Request -> Reply]
          /\ forward' \in [Request -> Find]
          /\ relayPc' \in [Request -> {"none", "onTheWire", "status",
                                     "forward", "await", "write", "returned"}]
      <4>1. CASE Respond(r, state) /\ UNCHANGED forward
        BY <1>4, <3>2, <4>1
      <4>2. CASE Respond(r, Failure("Refused")) /\ UNCHANGED forward
        BY <1>4, <2>1, <4>2
      <4>3. CASE /\ reply' = [reply EXCEPT ![r] = state]
                 /\ relayPc' = [relayPc EXCEPT ![r] = "forward"]
                 /\ forward' = [forward EXCEPT ![r] = StartFind]
        BY <3>2, <4>3
      <4> QED
        BY <3>1, <4>1, <4>2, <4>3
    <3> QED
      BY <1>7, <3>3 DEF BuildStatusReply
  <2> QED
    BY <1>7, <2>3, <2>4 DEF BuildStatusReply
<1>8. CASE ForwardFindTarget(r)
  BY <1>8, FindTargetStep DEF ForwardFindTarget
<1>9. CASE ForwardRefused(r)
  BY <1>5, <1>6, <1>9 DEF ForwardRefused
<1>10. CASE SendMessageTimeout(r)
  <2>1. forward[r].life \in Lives /\ forward[r].window \in Lives
    BY DEF Find
  <2>2. [stage |-> "pending", life |-> forward[r].life,
         window |-> forward[r].window] \in Message
    BY <2>1 DEF Message
  <2>3. CASE Conclude(r, "Refused") /\ UNCHANGED message
    BY <1>5, <1>6, <1>10, <2>3 DEF SendMessageTimeout
  <2>4. CASE Conclude(r, "Unknown") /\ UNCHANGED message
    BY <1>5, <1>6, <1>10, <2>4 DEF SendMessageTimeout
  <2>5. CASE /\ relayPc' = [relayPc EXCEPT ![r] = "await"]
             /\ message' = [message EXCEPT ![r] =
                  [stage |-> "pending", life |-> forward[r].life,
                   window |-> forward[r].window]]
             /\ UNCHANGED reply
    BY <1>10, <2>2, <2>5 DEF SendMessageTimeout
  <2> QED
    BY <1>10, <2>3, <2>4, <2>5 DEF SendMessageTimeout
<1>11. CASE MessageAnswered(r)
  <2>1. answer[r] \in Results
    BY <1>11 DEF MessageAnswered
  <2> QED
    BY <1>5, <1>11, <2>1 DEF MessageAnswered
<1>12. CASE MessageTimesOut(r)
  BY <1>5, <1>6, <1>12 DEF MessageTimesOut
<1>13. CASE WriteToClosedChannel(r)
  BY <1>13 DEF WriteToClosedChannel, Return
<1> QED
  BY <1>1, <1>2, <1>3, <1>7, <1>8, <1>9, <1>10, <1>11, <1>12, <1>13 DEF Relay

LEMMA TypeWindow ==
  ASSUME TypeOK, NEW r \in Request, Window(r) PROVE TypeOK'
<1> USE RecordTypes DEF TypeOK, clientVars, hostVars, relayVars
<1>1. ASSUME NEW result \in Results, Answer(r, result)
      PROVE  /\ message' \in [Request -> Message]
             /\ answer' \in [Request -> Results \cup {"nothing"}]
             /\ bound' \in [Request -> Find]
  BY <1>1 DEF Answer
<1>2. CASE RelayWndProc(r)
  <2>1. message[r].life \in Lives /\ message[r].window \in Lives
    BY DEF Message
  <2>2. [stage |-> "checking", life |-> message[r].life,
         window |-> message[r].window] \in Message
    BY <2>1 DEF Message
  <2>3. /\ message' \in [Request -> Message]
        /\ answer' \in [Request -> Results \cup {"nothing"}]
        /\ bound' \in [Request -> Find]
    <3>1. CASE Answer(r, "Unknown") \/ Answer(r, "Refused")
      BY <1>1, <3>1 DEF Results
    <3>2. CASE /\ message' = [message EXCEPT ![r] =
                    [stage |-> "checking", life |-> message[r].life,
                     window |-> message[r].window]]
               /\ bound' = [bound EXCEPT ![r] = StartFind]
               /\ UNCHANGED answer
      BY <2>2, <3>2
    <3> QED
      BY <1>2, <3>1, <3>2 DEF RelayWndProc
  <2> QED
    BY <1>2, <2>3 DEF RelayWndProc
<1>3. CASE CheckBoundTarget(r)
  <2>1. message[r].life \in Lives
    BY DEF Message
  <2> QED
    BY <1>3, <2>1, FindTargetStep DEF CheckBoundTarget
<1>4. CASE BoundTargetRefused(r)
  BY <1>1, <1>4 DEF BoundTargetRefused, Results
<1>5. CASE ExecuteClientCommand(r)
  <2>1. message[r].window \in Lives
    BY DEF Message
  <2>2. Append(carriedOut[r], message[r].window) \in Seq(Lives)
    BY <2>1
  <2>3. carriedOut' \in [Request -> Seq(Lives)]
    <3>1. CASE UNCHANGED carriedOut
      BY <3>1
    <3>2. CASE carriedOut' = [carriedOut EXCEPT
                                ![r] = Append(@, message[r].window)]
      BY <2>2, <3>2
    <3> QED
      BY <1>5, <3>1, <3>2 DEF ExecuteClientCommand
  <2>4. PICK result \in Results : Answer(r, result)
    BY <1>5 DEF ExecuteClientCommand, Results
  <2> QED
    BY <1>1, <1>5, <2>3, <2>4 DEF ExecuteClientCommand
<1> QED
  BY <1>2, <1>3, <1>4, <1>5 DEF Window

LEMMA TypeNext == TypeOK /\ [Next]_vars => TypeOK'
<1> SUFFICES ASSUME TypeOK, [Next]_vars PROVE TypeOK'
  OBVIOUS
<1>1. CASE FileAges
  BY <1>1, RecordTypes DEF FileAges, TypeOK, hostVars, relayVars, windowVars
<1>2. CASE ViewExpires
  BY <1>2, RecordTypes DEF ViewExpires, TypeOK, clientVars, relayVars, windowVars
<1>3. CASE UNCHANGED vars
  BY <1>3 DEF vars, clientVars, hostVars, relayVars, windowVars, TypeOK
<1> QED
  BY <1>1, <1>2, <1>3, TypeClient, TypeHost, TypeRelay, TypeWindow DEF Next

(* Every variable keeps its type, for any requests and processes.          *)
THEOREM TypeCorrect == Spec => []TypeOK
BY TypeInit, TypeNext, PTL DEF Spec

-----------------------------------------------------------------------------
(* The inductive invariant                                                 *)

LEMMA InductiveInit == Init => Inductive
<1> SUFFICES ASSUME Init PROVE Inductive
  OBVIOUS
<1>1. TypeOK
  BY TypeInit
<1>2. ProcessInv
  BY DEF Init, ProcessInv, Up
<1>3. ReportInv
  BY DEF Init, ReportInv, Stale, NoView, NoReply, Failure
<1>4. ASSUME NEW r \in Request PROVE RequestInv(r)
  BY DEF Init, RequestInv, ProgressInv, TargetInv, OutcomeInv, Agrees, IdleFind,
         At, NoMessage, Results, Successes
<1> QED
  BY <1>1, <1>2, <1>3, <1>4 DEF Inductive

(* What the invariant says of one request depends only on the state of     *)
(* that request and on which processes are up.                             *)
StateOf(r) ==
  <<command[r], target[r], hostPc[r], told[r], relayPc[r], status[r], forward[r],
    reply[r], message[r], bound[r], answer[r], carriedOut[r]>>

LEMMA Untouched ==
  ASSUME NEW s \in Request, RequestInv(s), StateOf(s)' = StateOf(s),
         process' = process
  PROVE  RequestInv(s)'
BY DEF StateOf, RequestInv, ProgressInv, TargetInv, OutcomeInv, Agrees

(* A step of a request leaves the other requests and the clients alone.    *)
LEMMA OwnStateOnly ==
  ASSUME TypeOK, NEW r \in Request, NEW s \in Request \ {r},
         Host(r) \/ Relay(r) \/ Window(r)
  PROVE  StateOf(s)' = StateOf(s)
<1> USE DEF StateOf, TypeOK, clientVars, hostVars, relayVars, windowVars
<1>1. CASE Host(r)
  BY <1>1 DEF Host, SendRelayCommandAsync, PollClientStateAsync, RunRelayRequest,
     ReadReply, ReadTimesOut, ApplyRelayReply, Return
<1>2. CASE Relay(r)
  BY <1>2 DEF Relay, LoseRequest, OnDataReceived, StatusFindTarget,
     BuildStatusReply, ForwardFindTarget, ForwardRefused, SendMessageTimeout,
     MessageAnswered, MessageTimesOut, WriteToClosedChannel, Conclude, Respond,
     Return
<1>3. CASE Window(r)
  BY <1>3 DEF Window, RelayWndProc, CheckBoundTarget, BoundTargetRefused,
     ExecuteClientCommand, Answer
<1> QED
  BY <1>1, <1>2, <1>3

LEMMA ClientsUntouched ==
  ASSUME NEW r \in Request, Host(r) \/ Relay(r) \/ Window(r)
  PROVE  UNCHANGED <<process, receiver, session, sample, file, reported>>
BY DEF Host, SendRelayCommandAsync, PollClientStateAsync, RunRelayRequest,
   ReadReply, ReadTimesOut, Relay, LoseRequest, OnDataReceived, StatusFindTarget,
   BuildStatusReply, ForwardFindTarget, ForwardRefused, SendMessageTimeout,
   MessageAnswered, MessageTimesOut, WriteToClosedChannel, Window, RelayWndProc,
   CheckBoundTarget, BoundTargetRefused, ExecuteClientCommand, clientVars

LEMMA ClientStep ==
  ASSUME Inductive, NEW l \in Life, Client(l)
  PROVE  ProcessInv' /\ ReportInv' /\ \A s \in Request : RequestInv(s)'
<1> USE LifeAssumption DEF Inductive, hostVars, relayVars, windowVars
<1>1. ProcessInv'
  <2>1. /\ process' \in [Life -> {"unborn", "up", "dead"}]
        /\ receiver' \in [Life -> BOOLEAN]
    BY TypeClient DEF TypeOK
  <2>2. CASE StartProcess(l)
    BY <2>1, <2>2 DEF StartProcess, ProcessInv, Up, TypeOK
  <2>3. CASE ExitProcess(l)
    BY <2>1, <2>3 DEF ExitProcess, ProcessInv, Up, TypeOK
  <2>4. CASE StartReceiver(l) \/ StopReceiver(l)
    BY <2>1, <2>4 DEF StartReceiver, StopReceiver, ProcessInv, Up, TypeOK
  <2>5. CASE UNCHANGED <<process, receiver>>
    BY <2>5 DEF ProcessInv, Up
  <2> QED
    BY <2>2, <2>3, <2>4, <2>5
    DEF Client, ToggleSession, TakeSnapshot, CountClients, PublishRecord
<1>2. ReportInv'
  <2>1. UNCHANGED <<view, reply>>
    BY DEF Client, StartProcess, ExitProcess, StartReceiver, StopReceiver,
       ToggleSession, TakeSnapshot, CountClients, PublishRecord
  <2>2. CASE PublishRecord(l)
    BY <2>1, <2>2 DEF PublishRecord, ReportInv
  <2>3. CASE UNCHANGED <<file, reported>>
    BY <2>1, <2>3 DEF ReportInv
  <2> QED
    BY <2>2, <2>3 DEF Client, StartProcess, ExitProcess, StartReceiver,
       StopReceiver, ToggleSession, TakeSnapshot, CountClients
<1>3. ASSUME NEW s \in Request PROVE RequestInv(s)'
  <2>1. RequestInv(s)
    OBVIOUS
  <2>2. CASE StartProcess(l)
    BY <2>1, <2>2 DEF StartProcess, TypeOK, Message, RequestInv, ProgressInv,
       TargetInv, OutcomeInv, Agrees
  <2>3. ASSUME NEW stages \in SUBSET {"pending", "checking"}, DropMessages(l, stages)
        PROVE  IF s \in Dropped(l, stages)
               THEN /\ message'[s] = NoMessage /\ bound'[s] = IdleFind
                    /\ message[s].window = l /\ message[s].stage \in stages
               ELSE /\ message'[s] = message[s] /\ bound'[s] = bound[s]
                    /\ ~(message[s].window = l /\ message[s].stage \in stages)
    BY <2>3 DEF DropMessages, Dropped
  <2>4. ASSUME ExitProcess(l) \/ StopReceiver(l),
               message'[s] = NoMessage, bound'[s] = IdleFind,
               message[s].stage \in {"pending", "checking"}
        PROVE  RequestInv(s)'
    BY <2>1, <2>4 DEF ExitProcess, StopReceiver, RequestInv, ProgressInv, TargetInv,
       OutcomeInv, Agrees, NoMessage, IdleFind, At, Results, Successes
  <2>5. CASE ExitProcess(l)
    <3>1. DropMessages(l, {"pending", "checking"})
      BY <2>5 DEF ExitProcess
    <3>2. CASE s \in Dropped(l, {"pending", "checking"})
      BY <2>3, <2>4, <2>5, <3>1, <3>2
    <3>3. CASE s \notin Dropped(l, {"pending", "checking"})
      <4>1. /\ message'[s] = message[s] /\ bound'[s] = bound[s]
            /\ ~(message[s].window = l /\ message[s].stage \in {"pending", "checking"})
        BY <2>3, <3>1, <3>3
      <4> QED
        BY <2>1, <2>5, <4>1 DEF ExitProcess, TypeOK, RequestInv, ProgressInv,
           TargetInv, OutcomeInv, Agrees
    <3> QED
      BY <3>2, <3>3
  <2>6. CASE StopReceiver(l)
    <3>1. DropMessages(l, {"pending"})
      BY <2>6 DEF StopReceiver
    <3>2. CASE s \in Dropped(l, {"pending"})
      BY <2>3, <2>4, <2>6, <3>1, <3>2
    <3>3. CASE s \notin Dropped(l, {"pending"})
      <4>1. message'[s] = message[s] /\ bound'[s] = bound[s]
        BY <2>3, <3>1, <3>3
      <4>2. StateOf(s)' = StateOf(s) /\ process' = process
        BY <2>6, <4>1 DEF StopReceiver, StateOf
      <4> QED
        BY <2>1, <4>2, Untouched
    <3> QED
      BY <3>2, <3>3
  <2>7. CASE \/ StartReceiver(l) \/ ToggleSession(l) \/ TakeSnapshot(l)
             \/ CountClients(l) \/ PublishRecord(l)
    <3>1. StateOf(s)' = StateOf(s) /\ process' = process
      BY <2>7 DEF StateOf, StartReceiver, ToggleSession, TakeSnapshot, CountClients,
         PublishRecord
    <3> QED
      BY <2>1, <3>1, Untouched
  <2> QED
    BY <2>2, <2>5, <2>6, <2>7 DEF Client
<1> QED
  BY <1>1, <1>2, <1>3

LEMMA HostStep ==
  ASSUME Inductive, NEW r \in Request, Host(r)
  PROVE  ReportInv' /\ RequestInv(r)'
<1> USE LifeAssumption DEF Inductive, clientVars, relayVars, windowVars
<1>0. RequestInv(r)
  OBVIOUS
<1>1. CASE SendRelayCommandAsync(r)
  <2>1. view.life \in Life
    BY <1>1 DEF SendRelayCommandAsync, ReportInv
  <2> QED
    BY <1>0, <1>1, <2>1 DEF SendRelayCommandAsync, TypeOK, ReportInv, RequestInv,
       ProgressInv, TargetInv, OutcomeInv, Agrees, Successes
<1>2. CASE PollClientStateAsync(r)
  BY <1>0, <1>2 DEF PollClientStateAsync, TypeOK, ReportInv, RequestInv,
     ProgressInv, TargetInv, OutcomeInv, Agrees
<1>3. CASE RunRelayRequest(r)
  BY <1>0, <1>3 DEF RunRelayRequest, ApplyRelayReply, Failure, TypeOK, ReportInv,
     RequestInv, ProgressInv, TargetInv, OutcomeInv, Agrees, Results, Successes
<1>4. CASE ReadReply(r)
  <2>1. reply[r] \in Reply
    BY DEF TypeOK
  <2>2. ReportInv'
    BY <1>4 DEF ReadReply, ApplyRelayReply, Return, TypeOK, ReportInv, NoReply,
       Failure
  <2>3. RequestInv(r)'
    BY <1>0, <1>4, <2>1 DEF ReadReply, ApplyRelayReply, Return, TypeOK, Reply,
       RequestInv, ProgressInv, TargetInv, OutcomeInv, Agrees, Results, Successes,
       NoReply, Failure
  <2> QED
    BY <2>2, <2>3
<1>5. CASE ReadTimesOut(r)
  BY <1>0, <1>5 DEF ReadTimesOut, ApplyRelayReply, Failure, TypeOK, ReportInv,
     RequestInv, ProgressInv, TargetInv, OutcomeInv, Agrees, Results, Successes
<1> QED
  BY <1>1, <1>2, <1>3, <1>4, <1>5 DEF Host

LEMMA RelayStep ==
  ASSUME Inductive, NEW r \in Request, Relay(r)
  PROVE  ReportInv' /\ RequestInv(r)'
<1> USE LifeAssumption DEF Inductive, clientVars, hostVars, windowVars
<1>0. RequestInv(r)
  OBVIOUS
<1>1. CASE LoseRequest(r)
  BY <1>0, <1>1 DEF LoseRequest, TypeOK, ReportInv, RequestInv, ProgressInv,
     TargetInv, OutcomeInv, Agrees
<1>2. CASE OnDataReceived(r)
  BY <1>0, <1>2 DEF OnDataReceived, TypeOK, ReportInv, RequestInv, ProgressInv,
     TargetInv, OutcomeInv, Agrees, StartFind, At
<1>3. CASE StatusFindTarget(r)
  <2>1. status[r] \in Find /\ NoLife \in Lives
    BY DEF TypeOK, Lives
  <2>2. PICK f \in FindTarget(status[r], NoLife) :
           status' = [status EXCEPT ![r] = f]
    BY <1>3 DEF StatusFindTarget
  <2>3. /\ f.step \in {"refused", "birth", "windows", "found"}
        /\ f.step \in {"birth", "windows"} => f.life \in Life
        /\ f.step = "found" => f.life = status[r].life /\ status[r].step = "windows"
    BY <2>1, <2>2, FindTargetStep DEF Up
  <2>4. status'[r] = f
    BY <2>2 DEF TypeOK
  <2>5. /\ relayPc[r] = "status"
        /\ UNCHANGED <<clientVars, hostVars, relayPc, forward, reply, windowVars>>
    BY <1>3 DEF StatusFindTarget
  <2>6. ReportInv'
    BY <2>5 DEF ReportInv
  <2>7. ProgressInv(r)' /\ OutcomeInv(r)'
    BY <1>0, <2>5 DEF RequestInv, ProgressInv, OutcomeInv, Agrees
  <2>8. TargetInv(r)'
    BY <1>0, <2>3, <2>4, <2>5 DEF RequestInv, TargetInv
  <2> QED
    BY <2>6, <2>7, <2>8 DEF RequestInv
<1>4. CASE BuildStatusReply(r)
  <2>1. CASE status[r].step = "refused"
    <3>1. /\ relayPc[r] = "status" /\ command[r] \in {"none", "query", "action"}
          /\ reply'[r] = Failure("Refused") /\ relayPc'[r] = "write"
          /\ status'[r].step = "idle"
          /\ \A s \in Request \ {r} : reply'[s] = reply[s]
          /\ UNCHANGED <<clientVars, hostVars, windowVars, forward>>
      BY <1>4, <2>1 DEF BuildStatusReply, Respond, TypeOK, IdleFind, At
    <3>2. ReportInv'
      BY <3>1 DEF ReportInv, Failure
    <3>3. ProgressInv(r)' /\ TargetInv(r)'
      BY <1>0, <3>1 DEF RequestInv, ProgressInv, TargetInv
    <3>4. OutcomeInv(r)'
      BY <1>0, <3>1
      DEF RequestInv, ProgressInv, OutcomeInv, Agrees, Successes, Failure
    <3> QED
      BY <3>2, <3>3, <3>4 DEF RequestInv
  <2>2. CASE status[r].step = "found"
    <3>1. PICK state \in {ReadStatus(status[r]), Failure("Refused")} :
             \/ /\ command[r] = "query" \/ state.result = "Refused"
                /\ Respond(r, state)
                /\ UNCHANGED forward
             \/ /\ Respond(r, Failure("Refused"))
                /\ UNCHANGED forward
             \/ /\ command[r] = "action"
                /\ reply' = [reply EXCEPT ![r] = state]
                /\ relayPc' = [relayPc EXCEPT ![r] = "forward"]
                /\ forward' = [forward EXCEPT ![r] = StartFind]
      BY <1>4, <2>2 DEF BuildStatusReply, NotForwarded
    <3>2. /\ state.known => state.life \in Life
          /\ (state.known /\ state.active) => state.life \in reported
      BY <1>0, <2>2 DEF ReadStatus, Failure, ReportInv, RequestInv, TargetInv
    <3>3. /\ command[r] \in {"none", "query", "action"}
          /\ relayPc[r] = "status"
          /\ status' = [status EXCEPT ![r] = IdleFind]
          /\ UNCHANGED <<clientVars, hostVars, windowVars>>
      BY <1>4 DEF BuildStatusReply, TypeOK
    <3>4. CASE /\ command[r] = "query" \/ state.result = "Refused"
               /\ Respond(r, state)
               /\ UNCHANGED forward
      <4>1. /\ reply'[r] = state /\ relayPc'[r] = "write"
            /\ status'[r].step = "idle"
            /\ \A s \in Request \ {r} : reply'[s] = reply[s]
        BY <3>3, <3>4 DEF Respond, TypeOK, IdleFind, At
      <4>2. ReportInv'
        BY <3>2, <3>3, <4>1 DEF ReportInv
      <4>3. ProgressInv(r)' /\ TargetInv(r)'
        BY <1>0, <3>3, <3>4, <4>1 DEF RequestInv, ProgressInv, TargetInv
      <4>4. OutcomeInv(r)'
        BY <1>0, <3>3, <3>4, <4>1
        DEF RequestInv, ProgressInv, OutcomeInv, Agrees, Successes
      <4> QED
        BY <4>2, <4>3, <4>4 DEF RequestInv
    <3>5. CASE Respond(r, Failure("Refused")) /\ UNCHANGED forward
      BY <1>0, <3>3, <3>5 DEF Respond, Failure, TypeOK, ReportInv, RequestInv,
         ProgressInv, TargetInv, OutcomeInv, Agrees, IdleFind, At, Successes
    <3>6. CASE /\ command[r] = "action"
               /\ reply' = [reply EXCEPT ![r] = state]
               /\ relayPc' = [relayPc EXCEPT ![r] = "forward"]
               /\ forward' = [forward EXCEPT ![r] = StartFind]
      BY <1>0, <3>2, <3>3, <3>6 DEF TypeOK, ReportInv, RequestInv, ProgressInv,
         TargetInv, OutcomeInv, Agrees, IdleFind, StartFind, At
    <3> QED
      BY <3>1, <3>4, <3>5, <3>6
  <2> QED
    BY <1>4, <2>1, <2>2 DEF BuildStatusReply
<1>5. CASE ForwardFindTarget(r)
  <2>1. forward[r] \in Find /\ target[r] \in Lives /\ target[r] # NoLife
    BY <1>0, <1>5 DEF ForwardFindTarget, TypeOK, RequestInv, ProgressInv
  <2>2. PICK f \in FindTarget(forward[r], target[r]) :
           forward' = [forward EXCEPT ![r] = f]
    BY <1>5 DEF ForwardFindTarget
  <2>3. /\ f.step \in {"refused", "birth", "windows", "found"}
        /\ f.step = "birth" => f.life \in Life
        /\ f.step = "windows" => f.life \in Life /\ f.life = target[r]
        /\ f.step = "found" => /\ f.life = forward[r].life
                               /\ forward[r].step = "windows"
                               /\ f.window \in Life
    BY <2>1, <2>2, FindTargetStep DEF Up
  <2>4. forward'[r] = f
    BY <2>2 DEF TypeOK
  <2> QED
    BY <1>0, <1>5, <2>3, <2>4 DEF ForwardFindTarget, ReportInv, RequestInv,
       ProgressInv, TargetInv, OutcomeInv, Agrees
<1>6. ASSUME NEW result \in Results, Conclude(r, result)
      PROVE  /\ relayPc' = [relayPc EXCEPT ![r] = "write"]
             /\ reply'[r].result = result
             /\ reply'[r].known => reply[r].known /\ reply'[r].life = reply[r].life
                                   /\ reply'[r].active = reply[r].active
             /\ \A s \in Request \ {r} : reply'[s] = reply[s]
  BY <1>6 DEF Conclude, Respond, Outcome, Failure, TypeOK
<1>7. ASSUME NEW result \in Results, Conclude(r, result),
             UNCHANGED <<file, view, reported>>
      PROVE  ReportInv'
  BY <1>6, <1>7 DEF ReportInv, clientVars
<1>8. "Refused" \in Results /\ "Unknown" \in Results
  BY DEF Results
<1>9. CASE ForwardRefused(r)
  BY <1>0, <1>6, <1>7, <1>8, <1>9 DEF ForwardRefused, TypeOK, RequestInv,
     ProgressInv, TargetInv, OutcomeInv, Agrees, IdleFind, At, Successes
<1>10. CASE SendMessageTimeout(r)
  <2>1. ASSUME NEW result \in {"Refused", "Unknown"}, Conclude(r, result),
               UNCHANGED message
        PROVE  ReportInv' /\ RequestInv(r)'
    <3>1. result \in Results /\ result \notin Successes
      BY <1>8, <2>1 DEF Successes
    <3> QED
      BY <1>0, <1>6, <1>7, <1>10, <2>1, <3>1 DEF SendMessageTimeout, TypeOK,
         RequestInv, ProgressInv, TargetInv, OutcomeInv, Agrees, IdleFind, At
  <2>2. CASE /\ receiver[forward[r].window]
             /\ relayPc' = [relayPc EXCEPT ![r] = "await"]
             /\ message' = [message EXCEPT ![r] =
                  [stage |-> "pending", life |-> forward[r].life,
                   window |-> forward[r].window]]
             /\ UNCHANGED reply
    <3>1. forward[r].window \in Life /\ process[forward[r].window] = "up"
      BY <1>0, <1>10, <2>2 DEF SendMessageTimeout, RequestInv, TargetInv, ProcessInv
    <3> QED
      BY <1>0, <1>10, <2>2, <3>1 DEF SendMessageTimeout, TypeOK, ReportInv,
         RequestInv, ProgressInv, TargetInv, OutcomeInv, Agrees, IdleFind, At
  <2> QED
    BY <1>10, <2>1, <2>2 DEF SendMessageTimeout
<1>11. CASE MessageAnswered(r)
  <2>1. answer[r] \in Results /\ Conclude(r, answer[r])
    BY <1>11 DEF MessageAnswered, TypeOK
  <2>2. ReportInv'
    BY <1>7, <1>11, <2>1 DEF MessageAnswered
  <2>3. RequestInv(r)'
    BY <1>0, <1>6, <1>11, <2>1 DEF MessageAnswered, TypeOK, RequestInv,
       ProgressInv, TargetInv, OutcomeInv, Agrees
  <2> QED
    BY <2>2, <2>3
<1>12. CASE MessageTimesOut(r)
  <2>1. Conclude(r, "Unknown") /\ "Unknown" \notin Successes
    BY <1>12 DEF MessageTimesOut, Successes
  <2>2. ReportInv'
    BY <1>7, <1>8, <1>12, <2>1 DEF MessageTimesOut
  <2>3. RequestInv(r)'
    BY <1>0, <1>6, <1>8, <1>12, <2>1 DEF MessageTimesOut, TypeOK, RequestInv,
       ProgressInv, TargetInv, OutcomeInv, Agrees
  <2> QED
    BY <2>2, <2>3
<1>13. CASE WriteToClosedChannel(r)
  BY <1>0, <1>13 DEF WriteToClosedChannel, Return, TypeOK, ReportInv, RequestInv,
     ProgressInv, TargetInv, OutcomeInv, Agrees, NoReply, Failure
<1> QED
  BY <1>1, <1>2, <1>3, <1>4, <1>5, <1>9, <1>10, <1>11, <1>12, <1>13 DEF Relay

LEMMA WindowStep ==
  ASSUME Inductive, NEW r \in Request, Window(r)
  PROVE  ReportInv' /\ RequestInv(r)'
<1> USE LifeAssumption DEF Inductive, clientVars, hostVars, relayVars
<1>0. RequestInv(r)
  OBVIOUS
<1>1. ReportInv'
  BY DEF Window, RelayWndProc, CheckBoundTarget, BoundTargetRefused,
     ExecuteClientCommand, ReportInv
<1>2. ASSUME NEW result \in Results, Answer(r, result)
      PROVE  /\ message'[r].stage = "answered"
             /\ bound'[r].step = "idle"
             /\ answer'[r] = IF relayPc[r] = "await" THEN result ELSE "nothing"
  BY <1>2 DEF Answer, Answered, IdleFind, At, TypeOK
<1>3. "Refused" \in Results /\ "Unknown" \in Results /\ Successes \subseteq Results
  BY DEF Results
<1>4. CASE RelayWndProc(r)
  <2>1. ASSUME NEW result \in {"Refused", "Unknown"}, Answer(r, result)
        PROVE  RequestInv(r)'
    BY <1>0, <1>2, <1>3, <1>4, <2>1 DEF RelayWndProc, TypeOK, RequestInv,
       ProgressInv, TargetInv, OutcomeInv, Agrees, Successes
  <2>2. CASE /\ PidOf[message[r].life] = PidOf[message[r].window]
             /\ message' = [message EXCEPT ![r] =
                  [stage |-> "checking", life |-> message[r].life,
                   window |-> message[r].window]]
             /\ bound' = [bound EXCEPT ![r] = StartFind]
             /\ UNCHANGED answer
    <3>1. /\ message[r].stage = "pending"
          /\ message'[r].stage = "checking"
          /\ message'[r].life = message[r].life
          /\ message'[r].window = message[r].window
          /\ bound'[r].step = "snapshot"
          /\ UNCHANGED <<clientVars, hostVars, relayVars, carriedOut>>
      BY <1>4, <2>2 DEF RelayWndProc, TypeOK, StartFind, At
    <3>2. ProgressInv(r)'
      BY <1>0, <2>2, <3>1 DEF RequestInv, ProgressInv
    <3>3. TargetInv(r)'
      BY <1>0, <2>2, <3>1 DEF RequestInv, TargetInv
    <3>4. OutcomeInv(r)'
      BY <1>0, <2>2, <3>1 DEF RequestInv, OutcomeInv, Agrees
    <3> QED
      BY <1>1, <3>2, <3>3, <3>4 DEF RequestInv
  <2> QED
    BY <1>1, <1>4, <2>1, <2>2 DEF RelayWndProc
<1>5. CASE CheckBoundTarget(r)
  <2>1. /\ bound[r] \in Find /\ message[r].life \in Lives
        /\ message[r].life = target[r] /\ target[r] # NoLife
        /\ message[r].window \in Life /\ process[message[r].window] = "up"
        /\ PidOf[message[r].life] = PidOf[message[r].window]
    <3>1. message[r].stage = "checking" /\ command[r] = "action"
      BY <1>0, <1>5
      DEF CheckBoundTarget, TypeOK, RequestInv, ProgressInv, OutcomeInv
    <3>2. bound[r] \in Find /\ message[r].life \in Lives
      BY DEF TypeOK, Message
    <3> QED
      BY <1>0, <3>1, <3>2 DEF RequestInv, ProgressInv, TargetInv
  <2>2. PICK f \in FindTarget(bound[r], message[r].life) :
           bound' = [bound EXCEPT ![r] = f]
    BY <1>5 DEF CheckBoundTarget
  <2>3. /\ f.step \in {"refused", "birth", "windows", "found"}
        /\ f.step = "birth" => f.life \in Life
        /\ f.step = "windows" => f.life \in Up /\ f.life = target[r]
        /\ f.step = "found" => f.life = bound[r].life /\ bound[r].step = "windows"
    BY <2>1, <2>2, FindTargetStep
  <2>4. f.step = "windows" => message[r].window = target[r]
    BY <2>1, <2>3 DEF ProcessInv, Up
  <2>5. bound'[r] = f
    BY <2>2 DEF TypeOK
  <2> QED
    BY <1>0, <1>1, <1>5, <2>3, <2>4, <2>5 DEF CheckBoundTarget, RequestInv,
       ProgressInv, TargetInv, OutcomeInv, Agrees, Up
<1>6. CASE BoundTargetRefused(r)
  BY <1>0, <1>1, <1>2, <1>3, <1>6 DEF BoundTargetRefused, TypeOK, RequestInv,
     ProgressInv, TargetInv, OutcomeInv, Agrees, Successes
<1>7. CASE ExecuteClientCommand(r)
  <2>1. /\ message[r].stage = "checking" /\ bound[r].step = "found"
        /\ message[r].window = target[r] /\ carriedOut[r] = <<>>
        /\ command[r] = "action"
    BY <1>0, <1>7 DEF ExecuteClientCommand, RequestInv, ProgressInv, TargetInv,
       OutcomeInv, TypeOK
  <2>2. CASE Answer(r, "Refused") /\ UNCHANGED carriedOut
    <3>1. /\ message'[r].stage = "answered" /\ bound'[r].step = "idle"
          /\ answer'[r] = IF relayPc[r] = "await" THEN "Refused" ELSE "nothing"
          /\ UNCHANGED <<clientVars, hostVars, relayVars, carriedOut>>
      BY <1>2, <1>3, <1>7, <2>2 DEF ExecuteClientCommand
    <3>2. ProgressInv(r)' /\ TargetInv(r)'
      BY <1>0, <2>1, <3>1 DEF RequestInv, ProgressInv, TargetInv
    <3>3. OutcomeInv(r)'
      BY <1>0, <2>1, <3>1 DEF RequestInv, OutcomeInv, Agrees, Successes
    <3> QED
      BY <1>1, <3>2, <3>3 DEF RequestInv
  <2>3. CASE /\ \E result \in Successes \cup {"Unknown"} : Answer(r, result)
             /\ carriedOut' = [carriedOut EXCEPT
                                 ![r] = Append(@, message[r].window)]
    <3>1. PICK result \in Successes \cup {"Unknown"} : Answer(r, result)
      BY <2>3
    <3>2. Append(carriedOut[r], message[r].window) = <<target[r]>>
      BY <2>1
    <3>3. carriedOut'[r] = <<target[r]>> /\ carriedOut'[r] # <<>>
      BY <2>3, <3>2 DEF TypeOK
    <3>4. result \in Results /\ result # "Refused" /\ result # "nothing"
      BY <1>3 DEF Successes
    <3>5. /\ message'[r].stage = "answered" /\ bound'[r].step = "idle"
          /\ answer'[r] = IF relayPc[r] = "await" THEN result ELSE "nothing"
          /\ UNCHANGED <<clientVars, hostVars, relayVars>>
      BY <1>2, <1>7, <3>1, <3>4 DEF ExecuteClientCommand
    <3>6. ProgressInv(r)' /\ TargetInv(r)'
      BY <1>0, <2>1, <3>4, <3>5 DEF RequestInv, ProgressInv, TargetInv
    <3>7. OutcomeInv(r)'
      BY <1>0, <2>1, <3>3, <3>4, <3>5 DEF RequestInv, OutcomeInv, Agrees
    <3> QED
      BY <1>1, <3>6, <3>7 DEF RequestInv
  <2> QED
    BY <1>1, <1>7, <2>2, <2>3 DEF ExecuteClientCommand
<1> QED
  BY <1>4, <1>5, <1>6, <1>7 DEF Window

LEMMA InductiveNext == Inductive /\ [Next]_vars => Inductive'
<1> SUFFICES ASSUME Inductive, [Next]_vars PROVE Inductive'
  OBVIOUS
<1>1. TypeOK'
  BY TypeNext DEF Inductive
<1>2. ASSUME NEW l \in Life, Client(l)
      PROVE  ProcessInv' /\ ReportInv' /\ \A s \in Request : RequestInv(s)'
  BY <1>2, ClientStep
<1>3. ASSUME NEW r \in Request, Host(r) \/ Relay(r) \/ Window(r)
      PROVE  ProcessInv' /\ ReportInv' /\ \A s \in Request : RequestInv(s)'
  <2>1. ReportInv' /\ RequestInv(r)'
    BY <1>3, HostStep, RelayStep, WindowStep
  <2>2. UNCHANGED <<process, receiver>>
    BY <1>3, ClientsUntouched
  <2>3. ProcessInv'
    BY <2>2 DEF Inductive, ProcessInv, Up
  <2>4. ASSUME NEW s \in Request \ {r} PROVE RequestInv(s)'
    <3>1. StateOf(s)' = StateOf(s)
      BY <1>3, OwnStateOnly DEF Inductive
    <3> QED
      BY <2>2, <3>1, Untouched DEF Inductive
  <2> QED
    BY <2>1, <2>3, <2>4
<1>4. ASSUME FileAges \/ ViewExpires \/ UNCHANGED vars
      PROVE  ProcessInv' /\ ReportInv' /\ \A s \in Request : RequestInv(s)'
  <2>1. /\ UNCHANGED <<process, receiver>>
        /\ \A s \in Request : StateOf(s)' = StateOf(s)
    BY <1>4 DEF FileAges, ViewExpires, vars, clientVars, hostVars, relayVars,
       windowVars, StateOf
  <2>2. ProcessInv'
    BY <2>1 DEF Inductive, ProcessInv, Up
  <2>3. ReportInv'
    BY <1>4 DEF FileAges, ViewExpires, vars, clientVars, hostVars, relayVars,
       Inductive, ReportInv, Stale, NoView
  <2> QED
    BY <2>1, <2>2, <2>3, Untouched DEF Inductive
<1> QED
  BY <1>1, <1>2, <1>3, <1>4 DEF Next, Inductive

(* The inductive invariant holds, and with it its four readings.           *)
THEOREM InductiveCorrect == Spec => []Inductive
BY InductiveInit, InductiveNext, PTL DEF Spec

(* A command is carried out only by the process the user saw, once.        *)
THEOREM BoundCorrect == Spec => []OnlyTheBoundTargetOnce
<1>1. Inductive => OnlyTheBoundTargetOnce
  BY DEF Inductive, RequestInv, OutcomeInv, OnlyTheBoundTargetOnce
<1> QED
  BY <1>1, InductiveCorrect, PTL

(* A refusal shown to the user is final.                                   *)
THEOREM RefusalCorrect == Spec => []RefusalIsFinal
<1>1. Inductive => RefusalIsFinal
  BY DEF Inductive, TypeOK, RequestInv, ProgressInv, OutcomeInv, Agrees,
     RefusalIsFinal
<1> QED
  BY <1>1, InductiveCorrect, PTL

(* A success shown to the user really happened.                            *)
THEOREM SuccessCorrect == Spec => []SuccessIsReal
<1>1. Inductive => SuccessIsReal
  BY DEF Inductive, RequestInv, OutcomeInv, Agrees, SuccessIsReal
<1> QED
  BY <1>1, InductiveCorrect, PTL

(* The view the controls follow is what the shown process reported.        *)
THEOREM ViewCorrect == Spec => []ViewIsItsOwnReport
<1>1. Inductive => ViewIsItsOwnReport
  BY DEF Inductive, ReportInv, ViewIsItsOwnReport
<1> QED
  BY <1>1, InductiveCorrect, PTL

-----------------------------------------------------------------------------
(* The path implements the contract with the user                          *)

(* The answer shown for r, as the refinement mapping has it.               *)
ShownFor(r) == IF command[r] = "action" THEN Shown(told[r]) ELSE "nothing"

LEMMA ContractInit == Init => Contract!Init
BY DEF Init, Contract!Init, Shown

(* A step that keeps the mapped state is a stutter of the contract.        *)
LEMMA ContractStutter ==
  ASSUME UNCHANGED <<target, carriedOut>>,
         \A s \in Request : ShownFor(s)' = ShownFor(s)
  PROVE  UNCHANGED Contract!vars
BY DEF Contract!vars, ShownFor

LEMMA ContractStep ==
  ASSUME Inductive, [Next]_vars
  PROVE  Contract!Next \/ UNCHANGED Contract!vars
<1> DEFINE shown == [s \in Request |-> ShownFor(s)]
<1>1. TypeOK /\ RefusalIsFinal
  BY DEF Inductive, TypeOK, RequestInv, ProgressInv, OutcomeInv, Agrees,
     RefusalIsFinal
<1>2. ASSUME UNCHANGED <<command, target, told, carriedOut>>
      PROVE  UNCHANGED Contract!vars
  BY <1>2, ContractStutter DEF ShownFor, Shown
<1>3. ASSUME NEW r \in Request, SendRelayCommandAsync(r)
      PROVE  Contract!Ask(r)
  <2>1. target[r] = NoLife /\ told[r] = "nothing" /\ command[r] = "none"
    BY <1>1, <1>3 DEF SendRelayCommandAsync, Inductive, TypeOK, RequestInv,
       ProgressInv
  <2>2. view.life \in Life
    BY <1>3 DEF SendRelayCommandAsync, Inductive, ReportInv
  <2>3. /\ target' = [target EXCEPT ![r] = view.life]
        /\ command' = [command EXCEPT ![r] = "action"]
        /\ UNCHANGED <<told, carriedOut>>
    BY <1>3 DEF SendRelayCommandAsync, windowVars
  <2>4. shown' = shown
    BY <1>1, <2>1, <2>3 DEF ShownFor, Shown, TypeOK
  <2> QED
    BY <2>1, <2>2, <2>3, <2>4 DEF Contract!Ask, ShownFor
<1>4. ASSUME NEW r \in Request, PollClientStateAsync(r)
      PROVE  UNCHANGED Contract!vars
  <2>1. told[r] = "nothing" /\ command[r] = "none"
    BY <1>1, <1>4 DEF PollClientStateAsync, Inductive, TypeOK, RequestInv,
       ProgressInv
  <2>2. /\ command' = [command EXCEPT ![r] = "query"]
        /\ UNCHANGED <<target, told, carriedOut>>
    BY <1>4 DEF PollClientStateAsync, windowVars
  <2> QED
    BY <1>1, <2>1, <2>2, ContractStutter DEF ShownFor, Shown, TypeOK
<1>5. ASSUME NEW r \in Request, NEW result \in Results,
             hostPc[r] \in {"queued", "waiting"},
             told' = [told EXCEPT ![r] = result],
             UNCHANGED <<command, target, carriedOut>>,
             command[r] = "action" => Agrees(r, result)
      PROVE  Contract!Next \/ UNCHANGED Contract!vars
  <2>1. told[r] = "nothing" /\ (command[r] = "action" => target[r] # NoLife)
    BY <1>5 DEF Inductive, RequestInv, ProgressInv
  <2>2. CASE command[r] # "action"
    BY <1>1, <1>5, <2>2, ContractStutter DEF ShownFor, TypeOK
  <2>3. CASE command[r] = "action"
    <3>1. /\ Shown(result) \in {"refused", "succeeded", "unknown"}
          /\ Shown(result) = "refused" => carriedOut[r] = <<>>
          /\ Shown(result) = "succeeded" => carriedOut[r] # <<>>
      BY <1>5, <2>3 DEF Shown, Results, Successes, Agrees
    <3>2. shown' = [shown EXCEPT ![r] = Shown(result)]
      BY <1>1, <1>5, <2>3 DEF ShownFor, TypeOK
    <3>3. shown[r] = "nothing"
      BY <2>1 DEF ShownFor, Shown
    <3>4. Contract!Show(r, Shown(result))
      BY <1>5, <2>1, <2>3, <3>1, <3>2, <3>3 DEF Contract!Show, ShownFor
    <3> QED
      BY <3>1, <3>4 DEF Contract!Next, Contract!Answers
  <2> QED
    BY <2>2, <2>3
<1>6. ASSUME NEW r \in Request,
             RunRelayRequest(r) \/ ReadReply(r) \/ ReadTimesOut(r)
      PROVE  Contract!Next \/ UNCHANGED Contract!vars
  <2>1. /\ hostPc[r] \in {"queued", "waiting"}
        /\ UNCHANGED <<command, target, carriedOut>>
    BY <1>6 DEF RunRelayRequest, ReadReply, ReadTimesOut, windowVars
  <2>2. CASE UNCHANGED told
    BY <1>2, <2>1, <2>2
  <2>3. CASE told' # told
    <3>1. RequestInv(r)
      BY DEF Inductive
    <3>2. PICK result \in Results :
             /\ told' = [told EXCEPT ![r] = result]
             /\ \/ result = "Unknown"
                \/ result = "Refused" /\ hostPc[r] = "queued"
                \/ result = reply[r].result /\ relayPc[r] = "write"
      <4>1. reply[r].result \in Results
        BY <1>1 DEF TypeOK, Reply
      <4> QED
        BY <1>6, <2>3, <4>1 DEF RunRelayRequest, ReadReply, ReadTimesOut,
           ApplyRelayReply, Failure, Results
    <3>3. command[r] = "action" => Agrees(r, result)
      BY <3>1, <3>2 DEF RequestInv, ProgressInv, OutcomeInv, Agrees, Successes
    <3> QED
      BY <1>5, <2>1, <3>2, <3>3
  <2> QED
    BY <2>2, <2>3
<1>7. ASSUME NEW r \in Request, ExecuteClientCommand(r)
      PROVE  Contract!Next \/ UNCHANGED Contract!vars
  <2>1. /\ carriedOut[r] = <<>> /\ message[r].window = target[r]
        /\ target[r] # NoLife /\ told[r] # "Refused"
    <3>1. message[r].stage = "checking" /\ bound[r].step = "found"
      BY <1>7 DEF ExecuteClientCommand
    <3>2. carriedOut[r] = <<>> /\ told[r] # "Refused"
      BY <1>1, <3>1 DEF Inductive, RequestInv, OutcomeInv, RefusalIsFinal
    <3>3. command[r] = "action"
      BY <1>1, <3>1 DEF Inductive, TypeOK, RequestInv, ProgressInv, OutcomeInv
    <3> QED
      BY <3>1, <3>2, <3>3 DEF Inductive, RequestInv, ProgressInv, TargetInv
  <2>2. UNCHANGED <<command, target, told>>
    BY <1>7 DEF ExecuteClientCommand, hostVars
  <2>3. CASE UNCHANGED carriedOut
    BY <1>2, <2>2, <2>3
  <2>4. CASE carriedOut' = [carriedOut EXCEPT
                              ![r] = Append(@, message[r].window)]
    <3>1. carriedOut' = [carriedOut EXCEPT ![r] = <<target[r]>>]
      BY <2>1, <2>4
    <3>2. shown' = shown
      BY <2>2 DEF ShownFor, Shown
    <3>3. shown[r] # "refused"
      BY <2>1 DEF ShownFor, Shown
    <3>4. Contract!CarryOut(r)
      BY <2>1, <2>2, <3>1, <3>2, <3>3 DEF Contract!CarryOut, ShownFor
    <3> QED
      BY <3>4 DEF Contract!Next
  <2> QED
    BY <1>7, <2>3, <2>4 DEF ExecuteClientCommand
<1>8. ASSUME NEW r \in Request, Relay(r) \/ Window(r), ~ExecuteClientCommand(r)
      PROVE  UNCHANGED <<command, target, told, carriedOut>>
  BY <1>8 DEF Relay, LoseRequest, OnDataReceived, StatusFindTarget,
     BuildStatusReply, ForwardFindTarget, ForwardRefused, SendMessageTimeout,
     MessageAnswered, MessageTimesOut, WriteToClosedChannel, Window, RelayWndProc,
     CheckBoundTarget, BoundTargetRefused, hostVars, windowVars
<1>9. ASSUME NEW l \in Life, Client(l)
      PROVE  UNCHANGED <<command, target, told, carriedOut>>
  BY <1>9 DEF Client, StartProcess, ExitProcess, StartReceiver, StopReceiver,
     ToggleSession, TakeSnapshot, CountClients, PublishRecord, hostVars, windowVars
<1>10. ASSUME FileAges \/ ViewExpires \/ UNCHANGED vars
       PROVE  UNCHANGED <<command, target, told, carriedOut>>
  BY <1>10 DEF FileAges, ViewExpires, vars, hostVars, windowVars
<1>11. ASSUME NEW r \in Request, Host(r) \/ Relay(r) \/ Window(r)
       PROVE  Contract!Next \/ UNCHANGED Contract!vars
  <2>1. CASE Host(r)
    BY <1>3, <1>4, <1>6, <2>1 DEF Host, Contract!Next
  <2>2. CASE ExecuteClientCommand(r)
    BY <1>7, <2>2
  <2>3. CASE (Relay(r) \/ Window(r)) /\ ~ExecuteClientCommand(r)
    BY <1>2, <1>8, <2>3
  <2> QED
    BY <1>11, <2>1, <2>2, <2>3
<1> QED
  BY <1>2, <1>9, <1>10, <1>11 DEF Next

(* Every behaviour of the path, with crashes, reused pids, lost requests   *)
(* and late messages, is one the contract with the user allows.            *)
THEOREM ContractCorrect == Spec => ImplementsContract
<1>1. Inductive /\ [Next]_vars => [Contract!Next]_(Contract!vars)
  BY ContractStep
<1> QED
  BY <1>1, ContractInit, InductiveCorrect, PTL
  DEF Spec, ImplementsContract, Contract!Spec
=============================================================================
