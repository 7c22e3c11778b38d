-------------------------- MODULE ClipboardRestart --------------------------
(***************************************************************************)
(* The clipboard helper rdpclip.exe of the host's session: RestartRdpClip, *)
(* which the worker runs, kills every instance of the session and starts   *)
(* one, while processes come and go and process ids are used again; and    *)
(* QueryWtsState, which the worker and the notification thread run at      *)
(* once, and whose result the widget shows.                                *)
(***************************************************************************)
EXTENDS FiniteSets

CONSTANT Pid   \* process ids

VARIABLES
  rdp,     \* the session is remote
  kind,    \* kind[p]: the process that has the id p
  restart, \* what the worker does for a restart
  found,   \* locals of the restart: the ids of a scan it still has to look at
  handle,  \* the process the worker has opened: its id is not used again
  query,   \* query[t]: what thread t does in QueryWtsState
  seen,    \* seen[t]: the ids of its scan
  facts,   \* facts[t]: what it has found out
  wts,     \* g_WtsState
  posted,  \* a delegate that applies g_WtsState to the widget is queued
  shown    \* what the widget shows

\* The helper of this session or of another one, or a program of its name.
Kind == {"helper", "foreign", "fake"}
Thread == {"worker", "notifier"}

worldVars == <<rdp, kind>>
restartVars == <<restart, found, handle>>
queryVars == <<query, seen, facts, wts, posted, shown>>
vars == <<worldVars, restartVars, queryVars>>

-----------------------------------------------------------------------------
(* The session                                                             *)

SwitchProtocol ==
  /\ rdp' = ~rdp
  /\ UNCHANGED <<kind, restartVars, queryVars>>

StartProcess(p) ==
  /\ kind[p] = "none" /\ p # handle
  /\ \E k \in Kind : kind' = [kind EXCEPT ![p] = k]
  /\ UNCHANGED <<rdp, restartVars, queryVars>>

ExitProcess(p) ==
  /\ kind[p] # "none"
  /\ kind' = [kind EXCEPT ![p] = "none"]
  /\ UNCHANGED <<rdp, restartVars, queryVars>>

-----------------------------------------------------------------------------
(* RestartRdpClipNow                                                       *)

Go(from, to) == restart = from /\ restart' = to
Fail == restart' = "idle" /\ found' = {} /\ handle' = "none"

\* ScanForRdpClipInSession lists names and sessions first ...
Enumerated == {p \in Pid : kind[p] \in {"helper", "fake"}}

\* ... then asks for the paths of the programs, which have to be there still.
Resolved(ids) == \A p \in ids : kind[p] # "none"
Verified(ids) == {p \in ids : kind[p] \in {"helper", "foreign"}}

BeginRestart ==
  /\ Go("idle", "enumerate") /\ query["worker"] = "idle" /\ rdp
  /\ UNCHANGED <<found, handle, worldVars, queryVars>>

Enumerate ==
  /\ restart = "enumerate"
  /\ \/ restart' = "resolve" /\ found' = Enumerated /\ UNCHANGED handle
     \/ Fail
  /\ UNCHANGED <<worldVars, queryVars>>

Resolve ==
  /\ restart = "resolve"
  /\ IF Resolved(found) THEN restart' = "open" /\ found' = Verified(found) /\ UNCHANGED handle
                        ELSE Fail
  /\ UNCHANGED <<worldVars, queryVars>>

OpenProcess(p) ==
  /\ restart = "open" /\ p \in found
  /\ IF kind[p] = "none"
       THEN Fail
       ELSE restart' = "verify" /\ handle' = p /\ found' = found \ {p}
  /\ UNCHANGED <<worldVars, queryVars>>

\* Mutant: the scan is trusted.
VerifyNothing ==
  /\ Go("verify", "terminate")
  /\ UNCHANGED <<found, handle, worldVars, queryVars>>

\* The path is read from the handle, the session of the id is looked at again.
Verify ==
  /\ restart = "verify"
  /\ IF rdp /\ kind[handle] = "helper"
       THEN restart' = "terminate" /\ UNCHANGED <<found, handle>>
       ELSE Fail
  /\ UNCHANGED <<worldVars, queryVars>>

\* It may have ended by itself, and may take too long to end.
TerminateProcess ==
  /\ restart = "terminate"
  /\ \/ /\ kind[handle] # "none"
        /\ kind' = [kind EXCEPT ![handle] = "none"]
        /\ restart' = "open" /\ handle' = "none" /\ UNCHANGED found
     \/ Fail /\ UNCHANGED kind
  /\ UNCHANGED <<rdp, queryVars>>

\* The settling time, then a second scan.
EnumerateAgain ==
  /\ restart = "open" /\ found = {}
  /\ \/ restart' = "resolveAgain" /\ found' = Enumerated /\ UNCHANGED handle
     \/ Fail
  /\ UNCHANGED <<worldVars, queryVars>>

\* A helper that has come back is left alone.
ResolveAgain ==
  /\ restart = "resolveAgain"
  /\ IF ~Resolved(found) THEN Fail /\ UNCHANGED query
     ELSE IF Verified(found) # {}
       THEN Fail /\ query' = [query EXCEPT !["worker"] = "facts"]
     ELSE IF rdp THEN restart' = "launch" /\ found' = {} /\ UNCHANGED <<handle, query>>
                 ELSE Fail /\ UNCHANGED query
  /\ UNCHANGED <<worldVars, seen, facts, wts, posted, shown>>

Launch ==
  /\ restart = "launch"
  /\ \/ \E p \in Pid : kind[p] = "none" /\ kind' = [kind EXCEPT ![p] = "helper"]
     \/ UNCHANGED kind
  /\ Fail
  /\ query' = [query EXCEPT !["worker"] = "facts"]
  /\ UNCHANGED <<rdp, seen, facts, wts, posted, shown>>

-----------------------------------------------------------------------------
(* QueryWtsState                                                           *)

NoFacts == [rdp |-> FALSE, clipboard |-> "Unknown"]
Facts(clipboard) == [rdp |-> rdp, clipboard |-> clipboard]
Presence(helpers) == IF helpers = {} THEN "NotRunning" ELSE "Running"
Truth == Facts(IF rdp THEN Presence({p \in Pid : kind[p] = "helper"}) ELSE "Unknown")

\* A change of the session, or the timer.
Notified ==
  /\ query["notifier"] = "idle"
  /\ query' = [query EXCEPT !["notifier"] = "facts"]
  /\ UNCHANGED <<worldVars, restartVars, seen, facts, wts, posted, shown>>

\* The session and the list of the processes ...
QueryFacts(t) ==
  /\ query[t] = "facts"
  /\ facts' = [facts EXCEPT ![t] = Facts("Unknown")]
  /\ seen' = [seen EXCEPT ![t] = IF rdp THEN Enumerated ELSE {}]
  /\ query' = [query EXCEPT ![t] = IF rdp THEN "scan" ELSE "store"]
  /\ UNCHANGED <<worldVars, restartVars, wts, posted, shown>>

\* ... and their paths: one that has ended leaves the presence unknown.
QueryClipboard(t) ==
  /\ query[t] = "scan"
  /\ IF Resolved(seen[t])
       THEN facts' = [facts EXCEPT ![t].clipboard = Presence(Verified(seen[t]))]
       ELSE UNCHANGED facts
  /\ seen' = [seen EXCEPT ![t] = {}]
  /\ query' = [query EXCEPT ![t] = "store"]
  /\ UNCHANGED <<worldVars, restartVars, wts, posted, shown>>

\* Mutant: the widget is refreshed first.
RefreshAndStore(t) ==
  /\ query[t] = "store"
  /\ wts' = facts[t]
  /\ shown' = IF wts # facts[t] THEN wts ELSE shown
  /\ query' = [query EXCEPT ![t] = "idle"] /\ facts' = [facts EXCEPT ![t] = NoFacts]
  /\ UNCHANGED <<worldVars, restartVars, seen, posted>>

\* Under the lock: is it a change?
Store(t) ==
  /\ query[t] = "store"
  /\ wts' = facts[t]
  /\ query' = [query EXCEPT ![t] = IF wts # facts[t] THEN "refresh" ELSE "idle"]
  /\ facts' = [facts EXCEPT ![t] = NoFacts]
  /\ UNCHANGED <<worldVars, restartVars, seen, posted, shown>>

RefreshWidgetUI(t) ==
  /\ query[t] = "refresh"
  /\ posted' = TRUE
  /\ query' = [query EXCEPT ![t] = "idle"]
  /\ UNCHANGED <<worldVars, restartVars, seen, facts, wts, shown>>

ApplyStateToWidget ==
  /\ posted
  /\ posted' = FALSE /\ shown' = wts
  /\ UNCHANGED <<worldVars, restartVars, query, seen, facts, wts>>

-----------------------------------------------------------------------------

Init ==
  /\ rdp \in BOOLEAN /\ kind = [p \in Pid |-> "none"]
  /\ restart = "idle" /\ found = {} /\ handle = "none"
  /\ query = [t \in Thread |-> "idle"] /\ facts = [t \in Thread |-> NoFacts]
  /\ seen = [t \in Thread |-> {}]
  /\ wts = NoFacts /\ posted = FALSE /\ shown = NoFacts

Restart ==
  \/ Enumerate \/ Resolve \/ Verify \/ TerminateProcess \/ EnumerateAgain \/ ResolveAgain
  \/ Launch \/ \E p \in Pid : OpenProcess(p)

QueryWtsState(t) == QueryFacts(t) \/ QueryClipboard(t) \/ Store(t) \/ RefreshWidgetUI(t)

Next ==
  \/ SwitchProtocol \/ BeginRestart \/ Restart \/ Notified \/ ApplyStateToWidget
  \/ \E p \in Pid : StartProcess(p) \/ ExitProcess(p)
  \/ \E t \in Thread : QueryWtsState(t)

Spec == Init /\ [][Next]_vars

\* The threads run, the timer fires, the XAML thread is not stalled.
Fairness ==
  /\ WF_vars(Restart) /\ WF_vars(Notified) /\ WF_vars(ApplyStateToWidget)
  /\ \A t \in Thread : WF_vars(QueryWtsState(t))

FairSpec == Spec /\ Fairness

-----------------------------------------------------------------------------
(* Properties                                                              *)

\* Only the helper of this very session is terminated, although an id of the
\* scan may have gone to another program, or to the helper of another session,
\* before it is opened.
OnlyTheHelperIsKilled ==
  [][TerminateProcess => kind[handle] \in {"helper", "none"}]_vars

\* When the session no longer changes, the widget comes to show what it is,
\* although the older of two queries may be stored last.
WidgetSettles == <>[][FALSE]_worldVars => <>[](shown = Truth)
=============================================================================
