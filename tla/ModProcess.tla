----------------------------- MODULE ModProcess -----------------------------
(***************************************************************************)
(* The client mod is loaded into every mstsc.exe and explorer.exe, and     *)
(* Wh_ModInit chooses what it starts there; the host mod is loaded into    *)
(* explorer.exe of the remote session.  The client's processes have the    *)
(* secret of the local commands in common.  The watchdog of mstsc.exe, the *)
(* widget of explorer.exe and the clipboard part of the host share no      *)
(* variable with it nor with each other: a behaviour follows one of them.  *)
(***************************************************************************)
EXTENDS Watchdog, Secret

CONSTANTS Root, Limit,  \* of TaskbarWidget
          Pid           \* of ClipboardRestart

VARIABLES part,  \* what is followed: "secret", "mstsc", "explorer" or "host"
          loader, trigger, uninit, unloading, stopping, pinned, left, scanPending, poster,
          queue, xaml, delegate, widget, instance, bound,   \* of TaskbarWidget
          rdp, kind, restart, found, handle,
          query, seen, facts, wts, posted, shown   \* of ClipboardRestart

Explorer == INSTANCE TaskbarWidget
Clipboard == INSTANCE ClipboardRestart

explorerVars == <<loader, trigger, uninit, unloading, stopping, pinned, left, scanPending,
                  poster, queue, xaml, delegate, widget, instance, bound>>
clipboardVars == <<rdp, kind, restart, found, handle,
                   query, seen, facts, wts, posted, shown>>
processVars == <<part, secretVars, vars, explorerVars, clipboardVars>>

ProcessInit ==
  /\ part \in {"secret", "mstsc", "explorer", "host"}
  /\ SecretInit /\ Init /\ Explorer!Init /\ Clipboard!Init
  /\ part # "host" => ~rdp
  /\ part # "mstsc" => threshold = CHOOSE t \in Thresholds : TRUE

EnsureLocalWidgetSecret ==
  /\ part = "secret"
  /\ SecretNext
  /\ UNCHANGED <<part, vars, explorerVars, clipboardVars>>

Mstsc ==
  /\ part = "mstsc"
  /\ Next
  /\ UNCHANGED <<part, secretVars, explorerVars, clipboardVars>>

Explore ==
  /\ part = "explorer"
  /\ Explorer!Next
  /\ UNCHANGED <<part, secretVars, vars, clipboardVars>>

Host ==
  /\ part = "host"
  /\ Clipboard!Next
  /\ UNCHANGED <<part, secretVars, vars, explorerVars>>

ProcessNext == EnsureLocalWidgetSecret \/ Mstsc \/ Explore \/ Host

\* The fairness of TaskbarWidget and of ClipboardRestart, each in its process.
In(p, A) == part = p /\ A
ProcessFairness ==
  /\ WF_explorerVars(In("explorer", Explorer!Uninit))
  /\ WF_explorerVars(In("explorer", Explorer!Threads))
  /\ WF_explorerVars(In("explorer", Explorer!EndRefresh))
  /\ WF_explorerVars(In("explorer", Explorer!Hook))
  /\ WF_clipboardVars(In("host", Clipboard!Restart))
  /\ WF_clipboardVars(In("host", Clipboard!Notified))
  /\ WF_clipboardVars(In("host", Clipboard!ApplyStateToWidget))
  /\ \A t \in Clipboard!Thread : WF_clipboardVars(In("host", Clipboard!QueryWtsState(t)))

ProcessSpec == ProcessInit /\ [][ProcessNext]_processVars /\ ProcessFairness

-----------------------------------------------------------------------------
(* The properties of the taskbar widget, in explorer.exe                   *)

\* An unload that has not retained the code leaves nothing that would call it.
UnloadLeavesNothing == Explorer!UnloadLeavesNothing

\* The unload ends although the XAML thread may have stalled.
UnloadReturns == Explorer!UnloadReturns

-----------------------------------------------------------------------------
(* The properties of the clipboard part, in the host's explorer.exe        *)

\* The restart terminates the clipboard helper of its own session only.
OnlyTheHelperIsKilled == Clipboard!OnlyTheHelperIsKilled

\* The widget comes to show the session and the helper as they are.
WidgetSettles == Clipboard!WidgetSettles
=============================================================================
