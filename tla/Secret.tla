------------------------------- MODULE Secret -------------------------------
(***************************************************************************)
(* EnsureLocalWidgetSecret: every process the client mod is loaded in gets *)
(* or creates the secret of the local commands, one at a time behind a     *)
(* named mutex.                                                            *)
(***************************************************************************)
CONSTANT Process

ASSUME ProcessAssumption == "none" \notin Process

VARIABLES
  secret, \* the registry value: "none" or the process that drew it
  owner,  \* of the mutex, or "none"
  at,     \* at[p]: where p is in EnsureLocalWidgetSecret
  late    \* history: some process went on without the mutex

secretVars == <<secret, owner, at, late>>

Step(p, from, to) == at[p] = from /\ at' = [at EXCEPT ![p] = to]

\* Without a mutex the process goes on.
OpenMutex(p) ==
  /\ \/ Step(p, "new", "wait") /\ late' = late
     \/ Step(p, "new", "read") /\ late' = TRUE
  /\ UNCHANGED <<secret, owner>>

\* Mutant: the mutex is not waited for.
AcquireAtOnce(p) ==
  /\ Step(p, "wait", "read")
  /\ owner' = IF owner = "none" THEN p ELSE owner
  /\ UNCHANGED <<secret, late>>

\* A mutex its owner has died with is acquired too.
Acquire(p) ==
  /\ Step(p, "wait", "read")
  /\ owner = "none" /\ owner' = p
  /\ UNCHANGED <<secret, late>>

\* Five seconds; the result of the wait is not looked at.
WaitTimesOut(p) ==
  /\ Step(p, "wait", "read")
  /\ owner # "none"
  /\ late' = TRUE
  /\ UNCHANGED <<secret, owner>>

ReadLocalWidgetSecret(p) ==
  /\ IF secret = "none" THEN Step(p, "read", "generate") ELSE Step(p, "read", "release")
  /\ UNCHANGED <<secret, owner, late>>

\* BCryptGenRandom or the registry may fail.
Generate(p) ==
  /\ Step(p, "generate", "release")
  /\ secret' \in {secret, p}
  /\ UNCHANGED <<owner, late>>

Release(p) ==
  /\ Step(p, "release", "done")
  /\ owner' = IF owner = p THEN "none" ELSE owner
  /\ UNCHANGED <<secret, late>>

Kill(p) ==
  /\ at[p] \notin {"done", "killed"}
  /\ at' = [at EXCEPT ![p] = "killed"]
  /\ owner' = IF owner = p THEN "none" ELSE owner
  /\ UNCHANGED <<secret, late>>

SecretInit ==
  /\ secret = "none" /\ owner = "none" /\ late = FALSE
  /\ at = [p \in Process |-> "new"]

SecretNext ==
  \E p \in Process :
    OpenMutex(p) \/ Acquire(p) \/ WaitTimesOut(p) \/ ReadLocalWidgetSecret(p) \/ Generate(p)
      \/ Release(p) \/ Kill(p)

SecretSpec == SecretInit /\ [][SecretNext]_secretVars

\* "Two simultaneous first starts cannot each generate a different secret":
\* whichever starts are killed, and wherever, no process replaces the secret
\* another one has drawn, unless one of them went on without the mutex.
SecretIsStable ==
  [][secret' # secret => secret = "none" \/ late]_secretVars
=============================================================================
