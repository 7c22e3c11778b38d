------------------------------ MODULE Watchdog ------------------------------
(***************************************************************************)
(* The stuck-session watchdog of one mstsc process: the poll of the frame  *)
(* once a second, the alert it raises after a number of hung polls, the    *)
(* Dismiss zone, and the settings that start, stop and tune it.  All of it *)
(* runs on the watchdog's thread or while that thread is joined, so every  *)
(* handler is one step.                                                    *)
(***************************************************************************)
EXTENDS Naturals

CONSTANTS Thresholds,   \* values of the stuckThresholdSeconds setting
          MaxSeconds,   \* bound: g_hungSeconds
          MaxEpisode    \* bound: hang episodes

ASSUME ThresholdAssumption ==
  Thresholds # {} /\ Thresholds \subseteq 1..MaxSeconds

VARIABLES
  frame,        \* the session frame is open
  hung,         \* IsHungAppWindow says so
  episode,      \* hang episodes so far
  settled,      \* the watchdog has polled since the last hang ended
  running,      \* the watchdog's thread runs (stuckDetection is on)
  threshold,    \* g_stuckThresholdSec
  hungSeconds,  \* g_hungSeconds
  sessionHung,  \* g_sessionHung: what overlay and panel show
  dismissed,    \* g_alertDismissed
  visible,      \* the alert window is shown
  dismissedIn   \* history: episodes in which the user dismissed the alert

frameVars == <<frame, hung, episode, settled>>
vars == <<frameVars, running, threshold, hungSeconds, sessionHung, dismissed,
          visible, dismissedIn>>

-----------------------------------------------------------------------------

ToggleFrame ==
  /\ ~hung
  /\ frame' = ~frame
  /\ UNCHANGED <<hung, episode, settled, running, threshold, hungSeconds, sessionHung,
                 dismissed, visible, dismissedIn>>

\* A window is hung after five seconds without a message: a poll that runs
\* sees the pause between two hangs.
Hang ==
  /\ frame /\ ~hung /\ episode < MaxEpisode
  /\ settled \/ ~running
  /\ hung' = TRUE
  /\ episode' = episode + 1
  /\ UNCHANGED <<frame, settled, running, threshold, hungSeconds, sessionHung,
                 dismissed, visible, dismissedIn>>

Recover ==
  /\ hung
  /\ hung' = FALSE /\ settled' = FALSE
  /\ frame' \in BOOLEAN
  /\ UNCHANGED <<episode, running, threshold, hungSeconds, sessionHung, dismissed,
                 visible, dismissedIn>>

-----------------------------------------------------------------------------
(* WatchdogPoll                                                            *)

\* Mutant: the dismissal is not forgotten.
PollRespondingKeepsDismissal ==
  /\ running /\ ~hung
  /\ sessionHung' = FALSE /\ hungSeconds' = 0
  /\ visible' = FALSE
  /\ settled' = TRUE
  /\ UNCHANGED <<frame, hung, episode, running, threshold, dismissed, dismissedIn>>

PollResponding ==
  /\ running /\ ~hung
  /\ sessionHung' = FALSE /\ hungSeconds' = 0 /\ dismissed' = FALSE
  /\ visible' = FALSE
  /\ settled' = TRUE
  /\ UNCHANGED <<frame, hung, episode, running, threshold, dismissedIn>>

\* Mutant: a dismissed alert is shown again.
PollHungShowsAgain ==
  /\ running /\ hung
  /\ hungSeconds < MaxSeconds
  /\ hungSeconds' = hungSeconds + 1
  /\ LET stuck == hungSeconds' >= threshold IN
       /\ sessionHung' = (sessionHung \/ stuck)
       /\ visible' = (visible \/ stuck)
  /\ UNCHANGED <<frameVars, running, threshold, dismissed, dismissedIn>>

PollHung ==
  /\ running /\ hung
  /\ hungSeconds < MaxSeconds
  /\ hungSeconds' = hungSeconds + 1
  /\ LET stuck == hungSeconds' >= threshold IN
       /\ sessionHung' = (sessionHung \/ stuck)
       /\ visible' = (visible \/ (stuck /\ ~dismissed))
  /\ UNCHANGED <<frameVars, running, threshold, dismissed, dismissedIn>>

\* AlertWndProc: a click on the alert can only fall while it is shown.
ClickDismiss ==
  /\ visible
  /\ dismissed' = TRUE
  /\ visible' = FALSE
  /\ dismissedIn' = dismissedIn \cup {episode}
  /\ UNCHANGED <<frameVars, running, threshold, hungSeconds, sessionHung>>

-----------------------------------------------------------------------------
(* ModSettingsChanged                                                      *)

\* The thread's window goes with it; its last statements reset two of the
\* three variables.
StopWatchdogThread ==
  /\ running
  /\ running' = FALSE
  /\ sessionHung' = FALSE /\ hungSeconds' = 0
  /\ visible' = FALSE
  /\ UNCHANGED <<frameVars, threshold, dismissed, dismissedIn>>

StartWatchdogThread ==
  /\ ~running
  /\ running' = TRUE
  /\ UNCHANGED <<frameVars, threshold, hungSeconds, sessionHung, dismissed, visible,
                 dismissedIn>>

ChangeThreshold ==
  /\ threshold' \in Thresholds
  /\ UNCHANGED <<frameVars, running, hungSeconds, sessionHung, dismissed, visible,
                 dismissedIn>>

-----------------------------------------------------------------------------

Init ==
  /\ frame = FALSE /\ hung = FALSE /\ episode = 0 /\ settled = TRUE
  /\ running = TRUE /\ threshold \in Thresholds
  /\ hungSeconds = 0 /\ sessionHung = FALSE /\ dismissed = FALSE /\ visible = FALSE
  /\ dismissedIn = {}

Poll == PollResponding \/ PollHung

Next ==
  \/ ToggleFrame \/ Hang \/ Recover
  \/ Poll \/ ClickDismiss
  \/ StopWatchdogThread \/ StartWatchdogThread \/ ChangeThreshold

Spec == Init /\ [][Next]_vars

-----------------------------------------------------------------------------
(* Properties                                                              *)

(* "Alert dismissed for this hang episode": it does not come back in the   *)
(* same episode, even if the detection is switched off and on in between.  *)
DismissedForTheEpisode == (visible /\ hung) => episode \notin dismissedIn

(* The dismissal is for that episode only: the poll that finds the session *)
(* stuck in an episode that was not dismissed shows the alert.  It holds   *)
(* if the watchdog has polled between this hang and the one before: the    *)
(* end of its thread does not forget a dismissal.                          *)
EveryHangIsAlerted ==
  [][(PollHung /\ hungSeconds' >= threshold /\ settled /\ episode \notin dismissedIn)
       => visible']_vars
=============================================================================
