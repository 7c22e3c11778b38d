---------------------------- MODULE Registration ----------------------------
(***************************************************************************)
(* RegistryHelper::Change: `dvc-relay-plugin.exe /register` and            *)
(* `/unregister` change three registry values, one after the other, and    *)
(* put back what they changed when one of the changes fails.  The process  *)
(* may also be killed between two changes; the values survive it.          *)
(*                                                                         *)
(* Value 0 is the command line of the COM server, 1 its ServerExecutable,  *)
(* 2 the AddIn name by which mstsc discovers the relay.  A value is the    *)
(* one this executable writes ("own"), the unquoted path an old version    *)
(* wrote ("legacy"), that of somebody else ("foreign") or "absent".        *)
(***************************************************************************)
EXTENDS Integers, SequencesExt

CONSTANT MaxRuns   \* bound: runs of the executable

VARIABLES registry,  \* registry[i]: the value i
          prior,     \* values[]: what this run found
          remove,    \* /unregister
          passed,    \* values the loop over the values is done with
          changed,   \* the values it has changed
          step,      \* "idle", "changing" or "rollingBack"
          result,    \* "none", "ok", "conflict", "error"
          rollbackError,
          orphan,    \* history: the AddIn was there without a server at first
          runs

regVars == <<registry, prior, remove, passed, changed, step, result, rollbackError, orphan,
             runs>>

Value == 0..2
Owned(i, v) == v = "own" \/ (i = 0 /\ v = "legacy")
Conflict(r) == \E i \in Value : r[i] # "absent" /\ ~Owned(i, r[i])

\* Mutant: removal works in the order of registration.
SameOrder(removing) == <<0, 1, 2>>

\* Registration publishes discovery last; removal removes discovery first.
Order(removing) == IF removing THEN <<2, 1, 0>> ELSE <<0, 1, 2>>

Desired == IF remove THEN "absent" ELSE "own"

\* The value whose turn it is; removal leaves one that is absent alone.
Current == Order(remove)[passed + 1]
InLoop == step = "changing" /\ passed < 3
LeftAlone(i) == remove /\ prior[i] = "absent"

-----------------------------------------------------------------------------

\* Reads the values and opens the keys; either may fail, and no value has
\* been changed then.
Change(removing) ==
  /\ step = "idle" /\ runs < MaxRuns
  /\ runs' = runs + 1
  /\ remove' = removing
  /\ prior' = registry
  /\ rollbackError' = FALSE
  /\ changed' = <<>>
  /\ \/ result' = "error" /\ UNCHANGED <<passed, step>>
     \/ Conflict(registry) /\ result' = "conflict" /\ UNCHANGED <<passed, step>>
     \/ /\ ~Conflict(registry)
        /\ passed' = 0
        /\ step' = "changing"
        /\ result' = "none"
  /\ UNCHANGED <<registry, orphan>>

LeaveAlone ==
  /\ InLoop /\ LeftAlone(Current)
  /\ passed' = passed + 1
  /\ UNCHANGED <<registry, prior, remove, changed, step, result, rollbackError, orphan, runs>>

ChangeValue ==
  /\ InLoop /\ ~LeftAlone(Current)
  /\ registry' = [registry EXCEPT ![Current] = Desired]
  /\ changed' = Append(changed, Current)
  /\ passed' = passed + 1
  /\ UNCHANGED <<prior, remove, step, result, rollbackError, orphan, runs>>

ChangeFails ==
  /\ InLoop /\ ~LeftAlone(Current)
  /\ step' = "rollingBack"
  /\ result' = "error"
  /\ UNCHANGED <<registry, prior, remove, passed, changed, rollbackError, orphan, runs>>

\* Mutant: the oldest change is undone each time.
Oldest == Head(changed)

Newest == Last(changed)

RollBackValue ==
  /\ step = "rollingBack" /\ changed # <<>>
  /\ \/ registry' = [registry EXCEPT ![Newest] = prior[Newest]] /\ UNCHANGED rollbackError
     \/ rollbackError' = TRUE /\ UNCHANGED registry
  /\ changed' = Front(changed)
  /\ UNCHANGED <<prior, remove, passed, step, result, orphan, runs>>

Return ==
  /\ \/ step = "changing" /\ passed = 3 /\ result' = "ok"
     \/ step = "rollingBack" /\ changed = <<>> /\ UNCHANGED result
  /\ step' = "idle"
  /\ UNCHANGED <<registry, prior, remove, passed, changed, rollbackError, orphan, runs>>

\* The process is killed.
Killed ==
  /\ step # "idle"
  /\ step' = "idle"
  /\ result' = "none"
  /\ UNCHANGED <<registry, prior, remove, passed, changed, rollbackError, orphan, runs>>

-----------------------------------------------------------------------------

Discovered(r) == r[2] = "own"
Served(r) == r[0] # "absent"

RegInit ==
  /\ registry \in {r \in [Value -> {"absent", "own", "legacy", "foreign"}] :
                     r[1] # "legacy" /\ r[2] # "legacy"}
  /\ prior = registry /\ remove = FALSE /\ passed = 0 /\ changed = <<>>
  /\ step = "idle" /\ result = "none" /\ rollbackError = FALSE
  /\ orphan = (Discovered(registry) /\ ~Served(registry))
  /\ runs = 0

(* "Registration changes several values": when a run returns it has        *)
(* changed all of them or, failures of the rollback apart, none, and it    *)
(* never touches a registration that is not its own.                       *)
AllOrNothing ==
  (step = "idle" /\ result # "none") =>
    IF result = "ok" THEN ~Conflict(prior) /\ \A i \in Value : registry[i] = Desired
                     ELSE registry = prior \/ rollbackError

(* "Registration publishes discovery last; removal removes discovery       *)
(* first": at no moment, also after a failure, a failed rollback or a kill *)
(* halfway, does mstsc discover a relay whose server is not registered.    *)
DiscoveryImpliesServer == Discovered(registry) => (Served(registry) \/ orphan)
=============================================================================
