------------------------- MODULE RelayProcessProofs -------------------------
(* Proofs about RelayProcess: the registration, for any number of runs of  *)
(* the executable, and the COM server, for any finite sets of objects,     *)
(* channels and calls.                                                     *)
EXTENDS RelayProcess, TLAPS, FiniteSetTheorems

-----------------------------------------------------------------------------
(* The registration                                                        *)

Found == {"absent", "own", "legacy", "foreign"}

RegTyped ==
  /\ registry \in [Value -> Found] /\ prior \in [Value -> Found]
  /\ remove \in BOOLEAN /\ passed \in 0..3
  /\ changed \in Seq(Value)

\* The place of a value in the order of the loop.
Turn(i) == IF remove THEN 2 - i ELSE i
Passed(i) == Turn(i) < passed
Changed(i) == \E n \in DOMAIN changed : changed[n] = i
Distinct == \A m, n \in DOMAIN changed : changed[m] = changed[n] => m = n

\* The values the loop is done with are as desired, the others as they were.
LoopInv ==
  step = "changing" =>
    /\ ~Conflict(prior) /\ Distinct
    /\ \A i \in Value : /\ registry[i] = IF Passed(i) THEN Desired ELSE prior[i]
                        /\ Changed(i) <=> Passed(i) /\ ~LeftAlone(i)

\* The last value of the order is never among those to put back.
RollbackInv ==
  step = "rollingBack" =>
    /\ Distinct /\ passed < 3 /\ result = "error"
    /\ rollbackError \/ \A i \in Value : registry[i] = IF Changed(i) THEN Desired ELSE prior[i]
    /\ \A i \in Value : ~Passed(i) => registry[i] = prior[i] /\ ~Changed(i)

\* What a run has found was no worse than a server without a discovery either.
PriorInv == Discovered(prior) => Served(prior) \/ orphan

RegInv == RegTyped /\ LoopInv /\ RollbackInv /\ PriorInv /\ AllOrNothing /\ DiscoveryImpliesServer

LEMMA CurrentIsNext ==
  ASSUME RegTyped, InLoop
  PROVE  Current \in Value /\ Turn(Current) = passed /\ \A i \in Value : Turn(i) = passed => i = Current
<1>1. passed \in {0, 1, 2}
  BY DEF RegTyped, InLoop
<1>2. Current = IF remove THEN 2 - passed ELSE passed
  BY <1>1 DEF Current, Order
<1> QED
  BY <1>1, <1>2 DEF Turn, Value, RegTyped

LEMMA RegInitially == Init => RegInv
<1> SUFFICES ASSUME RegInit PROVE RegInv
  BY DEF Init
<1>1. /\ registry \in [Value -> Found] /\ prior = registry
      /\ remove = FALSE /\ passed = 0 /\ changed = <<>> /\ step = "idle" /\ result = "none"
  BY DEF RegInit, Found
<1>2. orphan = (Discovered(registry) /\ ~Served(registry))
  BY DEF RegInit
<1>3. RegTyped
  <2>1. registry \in [Value -> Found]
    BY <1>1
  <2>2. prior \in [Value -> Found]
    BY <1>1
  <2>3. remove \in BOOLEAN
    BY <1>1
  <2>4. passed \in 0..3
    BY <1>1
  <2>5. changed \in Seq(Value)
    BY <1>1
  <2> QED
    BY <2>1, <2>2, <2>3, <2>4, <2>5 DEF RegTyped
<1>4. AllOrNothing /\ LoopInv /\ RollbackInv
  BY <1>1 DEF AllOrNothing, LoopInv, RollbackInv
<1>5. DiscoveryImpliesServer /\ PriorInv
  BY <1>1, <1>2 DEF DiscoveryImpliesServer, PriorInv
<1> QED
  BY <1>3, <1>4, <1>5 DEF RegInv

LEMMA ChangeKeepsReg ==
  ASSUME RegInv, NEW removing \in BOOLEAN, Change(removing)
  PROVE  RegInv'
<1> USE DEF RegInv
<1>1. RegTyped'
  BY DEF Change, RegTyped
<1>2. PriorInv' /\ DiscoveryImpliesServer' /\ RollbackInv'
  BY DEF Change, PriorInv, DiscoveryImpliesServer, RollbackInv
<1>3. AllOrNothing'
  BY DEF Change, AllOrNothing
<1>4. LoopInv'
  BY DEF Change, LoopInv, Distinct, Changed, Passed, Turn, RegTyped, Value
<1> QED
  BY <1>1, <1>2, <1>3, <1>4

LEMMA LeaveAloneKeepsReg == RegInv /\ LeaveAlone => RegInv'
<1> SUFFICES ASSUME RegInv, LeaveAlone PROVE RegInv'
  OBVIOUS
<1> USE DEF RegInv
<1>1. /\ passed' = passed + 1 /\ step = "changing" /\ LeftAlone(Current)
      /\ UNCHANGED <<registry, prior, remove, changed, step, result, rollbackError, orphan>>
  BY DEF LeaveAlone, InLoop
<1>2. /\ Current \in Value /\ Turn(Current) = passed /\ passed < 3
      /\ \A i \in Value : Turn(i) = passed => i = Current
  BY CurrentIsNext DEF LeaveAlone, InLoop
<1>3. RegTyped'
  BY <1>1, <1>2 DEF RegTyped
<1>4. LoopInv'
  BY <1>1, <1>2 DEF LoopInv, LeftAlone, Distinct, Changed, Passed, Turn, Desired, Value, RegTyped, Conflict, Owned
<1>5. RollbackInv' /\ PriorInv' /\ AllOrNothing' /\ DiscoveryImpliesServer'
  BY <1>1 DEF RollbackInv, PriorInv, AllOrNothing, DiscoveryImpliesServer, Discovered, Served
<1> QED
  BY <1>3, <1>4, <1>5

LEMMA AppendFacts ==
  ASSUME NEW S, NEW s \in Seq(S), NEW e \in S, \A n \in DOMAIN s : s[n] # e
  PROVE  /\ Append(s, e) \in Seq(S)
         /\ \A i : (\E n \in DOMAIN Append(s, e) : Append(s, e)[n] = i)
                    <=> i = e \/ \E n \in DOMAIN s : s[n] = i
         /\ (\A m, n \in DOMAIN s : s[m] = s[n] => m = n) =>
              \A m, n \in DOMAIN Append(s, e) : Append(s, e)[m] = Append(s, e)[n] => m = n
<1> DEFINE t == Append(s, e)
<1>1. /\ t \in Seq(S) /\ DOMAIN s = 1..Len(s) /\ Len(s) \in Nat
      /\ DOMAIN t = 1..(Len(s) + 1) /\ t[Len(s) + 1] = e
      /\ \A n \in DOMAIN s : t[n] = s[n]
  OBVIOUS
<1> HIDE DEF t
<1>2. Len(s) + 1 \in DOMAIN t
  BY <1>1
<1>3. \A n \in DOMAIN t : n \in DOMAIN s \/ n = Len(s) + 1
  BY <1>1
<1>4. \A n \in DOMAIN s : n \in DOMAIN t
  BY <1>1
<1>5. \A i : (\E n \in DOMAIN t : t[n] = i) <=> i = e \/ \E n \in DOMAIN s : s[n] = i
  BY <1>1, <1>2, <1>3, <1>4
<1>6. (\A m, n \in DOMAIN s : s[m] = s[n] => m = n) =>
        \A m, n \in DOMAIN t : t[m] = t[n] => m = n
  BY <1>1, <1>3
<1> QED
  BY <1>1, <1>5, <1>6 DEF t

LEMMA ChangeValueKeepsReg == RegInv /\ ChangeValue => RegInv'
<1> SUFFICES ASSUME RegInv, ChangeValue PROVE RegInv'
  OBVIOUS
<1> USE DEF RegInv
<1>1. /\ passed' = passed + 1 /\ step = "changing" /\ ~LeftAlone(Current)
      /\ changed' = Append(changed, Current)
      /\ registry' = [registry EXCEPT ![Current] = Desired]
      /\ UNCHANGED <<prior, remove, step, result, rollbackError, orphan>>
  BY DEF ChangeValue, InLoop
<1>2. /\ Current \in Value /\ Turn(Current) = passed /\ passed < 3
      /\ \A i \in Value : Turn(i) = passed => i = Current
  BY CurrentIsNext DEF ChangeValue, InLoop
<1>3. ~Changed(Current)
  BY <1>1, <1>2 DEF LoopInv, Passed, RegTyped, Value
<1>4. /\ changed' \in Seq(Value)
      /\ \A i \in Value : Changed(i)' <=> i = Current \/ Changed(i)
      /\ Distinct => Distinct'
  <2>1. changed \in Seq(Value) /\ \A n \in DOMAIN changed : changed[n] # Current
    BY <1>3 DEF Changed, RegTyped
  <2> QED
    BY <1>1, <1>2, <2>1, AppendFacts DEF Changed, Distinct
<1>5. RegTyped'
  BY <1>1, <1>2, <1>4 DEF RegTyped, Desired, Found
<1>6. \A i \in Value : Passed(i)' <=> Passed(i) \/ i = Current
  BY <1>1, <1>2 DEF Passed, Turn, RegTyped, Value
<1>7. LoopInv'
  <2>1. Conflict(prior)' = Conflict(prior) /\ Desired' = Desired /\ \A i : LeftAlone(i)' = LeftAlone(i)
    BY <1>1 DEF Conflict, Owned, Desired, LeftAlone
  <2> QED
    BY <1>1, <1>2, <1>4, <1>6, <2>1 DEF LoopInv, RegTyped
<1>8. RollbackInv' /\ PriorInv' /\ AllOrNothing'
  BY <1>1 DEF RollbackInv, PriorInv, AllOrNothing, Discovered, Served
<1>9. DiscoveryImpliesServer'
  <2>1. remove => Turn(2) = 0 /\ Turn(0) = 2
    BY DEF Turn
  <2>2. ~remove => Turn(2) = 2 /\ Turn(0) = 0
    BY DEF Turn
  <2> QED
    BY <1>1, <1>2, <1>6, <2>1, <2>2
       DEF LoopInv, Passed, Desired, DiscoveryImpliesServer, PriorInv, Discovered, Served, RegTyped, Value
<1> QED
  BY <1>5, <1>7, <1>8, <1>9

LEMMA ChangeFailsKeepsReg == RegInv /\ ChangeFails => RegInv'
<1> SUFFICES ASSUME RegInv, ChangeFails PROVE RegInv'
  OBVIOUS
<1> USE DEF RegInv
<1>1. /\ step = "changing" /\ step' = "rollingBack" /\ result' = "error" /\ passed < 3
      /\ UNCHANGED <<registry, prior, remove, passed, changed, rollbackError, orphan>>
  BY DEF ChangeFails, InLoop
<1>2. RegTyped'
  BY <1>1 DEF RegTyped
<1>3. RollbackInv'
  BY <1>1 DEF LoopInv, RollbackInv, Distinct, Changed, Passed, Turn, LeftAlone, Desired
<1>4. LoopInv' /\ PriorInv' /\ AllOrNothing' /\ DiscoveryImpliesServer'
  BY <1>1 DEF LoopInv, PriorInv, AllOrNothing, DiscoveryImpliesServer, Discovered, Served
<1> QED
  BY <1>2, <1>3, <1>4

LEMMA FrontFacts ==
  ASSUME NEW S, NEW s \in Seq(S), s # <<>>, \A m, n \in DOMAIN s : s[m] = s[n] => m = n
  PROVE  /\ Last(s) \in S /\ Front(s) \in Seq(S)
         /\ \E n \in DOMAIN s : s[n] = Last(s)
         /\ \A i : (\E n \in DOMAIN Front(s) : Front(s)[n] = i)
                    <=> i # Last(s) /\ \E n \in DOMAIN s : s[n] = i
         /\ \A m, n \in DOMAIN Front(s) : Front(s)[m] = Front(s)[n] => m = n
<1> DEFINE t == Front(s)
<1>1. /\ DOMAIN s = 1..Len(s) /\ Len(s) \in Nat \ {0} /\ t \in Seq(S)
      /\ DOMAIN t = 1..(Len(s) - 1) /\ \A n \in DOMAIN t : t[n] = s[n]
      /\ Last(s) = s[Len(s)]
  BY DEF Front, Last
<1> HIDE DEF t
<1>2. Len(s) \in DOMAIN s /\ Len(s) \notin DOMAIN t
  BY <1>1
<1>3. \A n : n \in DOMAIN s <=> n \in DOMAIN t \/ n = Len(s)
  BY <1>1
<1>4. Last(s) \in S
  BY <1>1, <1>2
<1>5. \A i : (\E n \in DOMAIN t : t[n] = i) <=> i # Last(s) /\ \E n \in DOMAIN s : s[n] = i
  BY <1>1, <1>2, <1>3
<1>6. \A m, n \in DOMAIN t : t[m] = t[n] => m = n
  BY <1>1, <1>3
<1> QED
  BY <1>1, <1>2, <1>4, <1>5, <1>6 DEF t

LEMMA RollBackKeepsReg == RegInv /\ RollBackValue => RegInv'
<1> SUFFICES ASSUME RegInv, RollBackValue PROVE RegInv'
  OBVIOUS
<1> USE DEF RegInv
<1>1. /\ step = "rollingBack" /\ changed # <<>> /\ changed' = Front(changed)
      /\ UNCHANGED <<prior, remove, passed, step, result, orphan>>
      /\ \/ registry' = [registry EXCEPT ![Newest] = prior[Newest]] /\ UNCHANGED rollbackError
         \/ rollbackError' = TRUE /\ UNCHANGED registry
  BY DEF RollBackValue
<1>2. /\ Newest \in Value /\ changed' \in Seq(Value) /\ Changed(Newest) /\ Distinct'
      /\ \A i : Changed(i)' <=> i # Newest /\ Changed(i)
  <2>1. changed \in Seq(Value) /\ changed # <<>>
    BY <1>1 DEF RegTyped
  <2>2. \A m, n \in DOMAIN changed : changed[m] = changed[n] => m = n
    BY <1>1 DEF RollbackInv, Distinct
  <2> HIDE DEF RegInv
  <2> DEFINE f == Front(changed)
  <2>3. /\ Last(changed) \in Value /\ f \in Seq(Value)
        /\ \E n \in DOMAIN changed : changed[n] = Last(changed)
        /\ \A i : (\E n \in DOMAIN f : f[n] = i)
                   <=> i # Last(changed) /\ \E n \in DOMAIN changed : changed[n] = i
        /\ \A m, n \in DOMAIN f : f[m] = f[n] => m = n
    BY <2>1, <2>2, FrontFacts
  <2> HIDE DEF f
  <2>4. changed' = f
    BY <1>1 DEF f
  <2> QED
    BY <2>3, <2>4 DEF Distinct, Changed, Newest
<1>3. RegTyped'
  BY <1>1, <1>2 DEF RegTyped
<1>4. Desired' = Desired /\ \A i : Passed(i)' = Passed(i)
  BY <1>1 DEF Desired, Passed, Turn
<1>5. RollbackInv'
  <2>1. passed' < 3 /\ result' = "error"
    BY <1>1 DEF RollbackInv
  <2>2. rollbackError' \/ \A i \in Value : registry'[i] = IF Changed(i)' THEN Desired' ELSE prior'[i]
    BY <1>1, <1>2, <1>4 DEF RollbackInv, RegTyped
  <2>3. \A i \in Value : ~Passed(i)' => registry'[i] = prior'[i] /\ ~Changed(i)'
    BY <1>1, <1>2, <1>4 DEF RollbackInv, RegTyped
  <2> QED
    BY <1>2, <2>1, <2>2, <2>3 DEF RollbackInv
<1>6. LoopInv' /\ PriorInv' /\ AllOrNothing'
  BY <1>1 DEF LoopInv, PriorInv, AllOrNothing, Discovered, Served
<1>7. DiscoveryImpliesServer'
  <2>1. \/ registry' = registry
        \/ Newest \in Value /\ Passed(Newest) /\ registry' = [registry EXCEPT ![Newest] = prior[Newest]]
    BY <1>1, <1>2 DEF RollbackInv
  <2>2. 0 \in Value /\ 2 \in Value /\ (~Passed(0) \/ ~Passed(2))
    BY <1>1 DEF RollbackInv, Passed, Turn, RegTyped, Value
  <2>3. (~Passed(0) => registry[0] = prior[0]) /\ (~Passed(2) => registry[2] = prior[2])
    BY <1>1, <2>2 DEF RollbackInv
  <2>4. orphan' = orphan
    BY <1>1
  <2> QED
    BY <2>1, <2>2, <2>3, <2>4 DEF DiscoveryImpliesServer, PriorInv, Discovered, Served, RegTyped
<1> QED
  BY <1>3, <1>5, <1>6, <1>7

LEMMA ReturnKeepsReg == RegInv /\ Return => RegInv'
<1> SUFFICES ASSUME RegInv, Return PROVE RegInv'
  OBVIOUS
<1> USE DEF RegInv
<1>1. /\ step' = "idle"
      /\ UNCHANGED <<registry, prior, remove, passed, changed, rollbackError, orphan>>
  BY DEF Return
<1>2. RegTyped' /\ LoopInv' /\ RollbackInv' /\ PriorInv' /\ DiscoveryImpliesServer'
  BY <1>1 DEF RegTyped, LoopInv, RollbackInv, PriorInv, DiscoveryImpliesServer, Discovered, Served
<1>3. CASE step = "changing" /\ passed = 3 /\ result' = "ok"
  <2>1. \A i \in Value : Passed(i)
    BY <1>3 DEF Passed, Turn, Value, RegTyped
  <2> QED
    BY <1>1, <1>2, <1>3, <2>1 DEF LoopInv, AllOrNothing, Conflict, Owned, Desired
<1>4. CASE step = "rollingBack" /\ changed = <<>> /\ UNCHANGED result
  <2>1. rollbackError \/ \A i \in Value : registry[i] = prior[i]
    BY <1>4 DEF RollbackInv, Changed
  <2>2. rollbackError \/ registry = prior
    BY <2>1 DEF RegTyped
  <2>3. result' = "error"
    BY <1>4 DEF RollbackInv
  <2> QED
    BY <1>1, <1>2, <2>2, <2>3 DEF AllOrNothing
<1> QED
  BY <1>3, <1>4 DEF Return

LEMMA KilledKeepsReg == RegInv /\ Killed => RegInv'
<1> SUFFICES ASSUME RegInv, Killed PROVE RegInv'
  OBVIOUS
<1>1. /\ step' = "idle" /\ result' = "none"
      /\ UNCHANGED <<registry, prior, remove, passed, changed, rollbackError, orphan>>
  BY DEF Killed
<1> QED
  BY <1>1 DEF RegInv, RegTyped, LoopInv, RollbackInv, PriorInv, AllOrNothing,
              DiscoveryImpliesServer, Discovered, Served

LEMMA RegNext == RegInv /\ [Next]_vars => RegInv'
<1> SUFFICES ASSUME RegInv, [Next]_vars PROVE RegInv'
  OBVIOUS
<1>1. CASE RunHelper
  BY <1>1, ChangeKeepsReg DEF RunHelper
<1>2. CASE Helper
  BY <1>2, LeaveAloneKeepsReg, ChangeValueKeepsReg, ChangeFailsKeepsReg, RollBackKeepsReg,
     ReturnKeepsReg, KilledKeepsReg DEF Helper
<1>3. CASE UNCHANGED regVars
  BY <1>3 DEF regVars, RegInv, RegTyped, LoopInv, RollbackInv, PriorInv, AllOrNothing,
              DiscoveryImpliesServer, Discovered, Served, Conflict, Owned, Distinct, Changed,
              Passed, Turn, LeftAlone, Desired
<1> QED
  BY <1>1, <1>2, <1>3 DEF Next, Serve, vars

(* A run of /register or /unregister that returns has made all its changes *)
(* or, unless the rollback itself failed, none, and a registration that is *)
(* not its own is left as it was: for any number of runs, killed anywhere. *)
THEOREM RegistrationCorrect == Spec => []AllOrNothing
BY RegInitially, RegNext, PTL DEF Spec, RegInv

(* mstsc never discovers a relay whose server is not registered, whatever  *)
(* fails and wherever a run is killed.                                     *)
THEOREM DiscoveryCorrect == Spec => []DiscoveryImpliesServer
BY RegInitially, RegNext, PTL DEF Spec, RegInv

-----------------------------------------------------------------------------
(* The COM server: what is counted                                         *)

Stage == {"none", "arriving", "accepted", "counting", "exchanging", "releasing", "live",
          "dying", "gone"}

CountTyped ==
  /\ main \in {"start", "register", "wait", "release", "waitForever", "revoke", "exited"}
  /\ life \in [Holder -> Stage] /\ refs \in Nat
  /\ bootstrap \in BOOLEAN /\ shutdown \in BOOLEAN

CountedHolders == {h \in Holder : Counted(h)}
Releasing == \E h \in Holder : life[h] = "releasing"

\* The reference of the bootstrap is with the flag, with RunServer or with the
\* one object that has taken the flag.
Spare == bootstrap = TRUE \/ main = "release" \/ Releasing

SpareInv ==
  /\ bootstrap = TRUE => main # "release" /\ ~Releasing
  /\ main = "release" => ~Releasing
  /\ \A g, h \in Holder : life[g] = "releasing" /\ life[h] = "releasing" => g = h

\* Nothing is activated before the class object is registered.
StartInv ==
  main \in {"start", "register"} =>
    /\ classes = "none" /\ shutdown = FALSE /\ bootstrap = TRUE
    /\ \A h \in Holder : life[h] = "none"

RefsInv ==
  /\ main = "start" => refs = 0
  /\ main \notin {"start", "exited"} =>
       refs = Cardinality(CountedHolders) + (IF Spare THEN 1 ELSE 0)

\* After the shutdown only what is counted late is counted.
LateInv ==
  /\ shutdown = TRUE => CountedHolders \subseteq late
  /\ main = "revoke" => shutdown = TRUE
  /\ main = "exited" => CountedHolders \subseteq late

CountInv == CountTyped /\ SpareInv /\ StartInv /\ RefsInv /\ LateInv

LEMMA CountedFinite ==
  ASSUME CountTyped
  PROVE  /\ IsFiniteSet(CountedHolders) /\ Cardinality(CountedHolders) \in Nat
         /\ Cardinality(CountedHolders) = 0 <=> CountedHolders = {}
<1>1. IsFiniteSet(Holder)
  BY HolderAssumption, FS_Union, FS_Singleton DEF Holder
<1>2. IsFiniteSet(CountedHolders)
  BY <1>1, FS_Subset DEF CountedHolders
<1> QED
  BY <1>2, FS_CardinalityType, FS_EmptySet

LEMMA CountInitially == Init => CountInv
<1> SUFFICES ASSUME RelayInit PROVE CountInv
  BY DEF Init
<1>1. /\ main = "start" /\ classes = "none" /\ shutdown = FALSE /\ refs = 0 /\ bootstrap = TRUE
      /\ life = [h \in Holder |-> "none"]
  BY DEF RelayInit
<1> QED
  BY <1>1 DEF CountInv, CountTyped, Stage, SpareInv, StartInv, RefsInv, LateInv, Releasing

\* A step that neither counts nor releases.
Uncounted ==
  /\ UNCHANGED <<main, shutdown, refs, bootstrap, late>>
  /\ life' \in [Holder -> Stage]
  /\ \A h \in Holder : life'[h] # life[h] =>
       /\ {life[h], life'[h]} \cap {"exchanging", "releasing"} = {}
       /\ life[h] \in {"live", "dying"} <=> life'[h] \in {"live", "dying"}
  /\ main \in {"start", "register"} => classes' = "none" /\ life' = life

LEMMA UncountedKeepsCount == CountInv /\ Uncounted => CountInv'
<1> SUFFICES ASSUME CountInv, Uncounted PROVE CountInv'
  OBVIOUS
<1>1. /\ \A h \in Holder : Counted(h)' <=> Counted(h)
      /\ \A h \in Holder : life'[h] = "releasing" <=> life[h] = "releasing"
  BY DEF Uncounted, Counted, CountInv, CountTyped
<1>2. CountedHolders' = CountedHolders
  BY <1>1 DEF CountedHolders
<1>3. Releasing' <=> Releasing
  BY <1>1 DEF Releasing
<1>4. Spare' <=> Spare
  BY <1>3 DEF Uncounted, Spare
<1> QED
  BY <1>1, <1>2, <1>3, <1>4
     DEF CountInv, CountTyped, SpareInv, StartInv, RefsInv, LateInv, Uncounted

LEMMA AddRefKeepsCount ==
  ASSUME CountInv, NEW h \in Holder, CoAddRef(h) PROVE CountInv'
<1>1. /\ main # "exited" /\ life[h] = "counting" /\ refs' = refs + 1
      /\ late' = IF shutdown THEN late \cup {h} ELSE late
      /\ life' = [life EXCEPT ![h] = "exchanging"]
      /\ UNCHANGED <<main, classes, shutdown, bootstrap>>
  BY DEF CoAddRef, Up, Become
<1>2. main \notin {"start", "register"}
  BY <1>1 DEF CountInv, StartInv
<1>3. CountedHolders' = CountedHolders \cup {h} /\ h \notin CountedHolders
  BY <1>1 DEF CountInv, CountTyped, CountedHolders, Counted
<1>4. Cardinality(CountedHolders') = Cardinality(CountedHolders) + 1
  BY <1>3, CountedFinite, FS_AddElement DEF CountInv
<1>5. \A g \in Holder : life'[g] = "releasing" <=> life[g] = "releasing"
  BY <1>1 DEF CountInv, CountTyped
<1>6. Releasing' <=> Releasing
  BY <1>5 DEF Releasing
<1>7. CountTyped'
  BY <1>1 DEF CountInv, CountTyped, Stage
<1>8. SpareInv' /\ StartInv'
  BY <1>1, <1>2, <1>5, <1>6 DEF CountInv, SpareInv, StartInv
<1>9. RefsInv'
  BY <1>1, <1>2, <1>4, <1>6, CountedFinite DEF CountInv, RefsInv, Spare
<1>10. LateInv'
  BY <1>1, <1>3 DEF CountInv, LateInv
<1> QED
  BY <1>7, <1>8, <1>9, <1>10 DEF CountInv

LEMMA ExchangeKeepsCount ==
  ASSUME CountInv, NEW h \in Holder, ExchangeBootstrap(h) PROVE CountInv'
<1>1. /\ main # "exited" /\ life[h] = "exchanging" /\ bootstrap' = FALSE
      /\ life' = [life EXCEPT ![h] = IF bootstrap = TRUE THEN "releasing" ELSE "live"]
      /\ UNCHANGED <<main, classes, shutdown, refs, late>>
  BY DEF ExchangeBootstrap, Up, Become, CountInv, CountTyped
<1>2. main \notin {"start", "register"}
  BY <1>1 DEF CountInv, StartInv
<1>3. CountedHolders' = CountedHolders
  BY <1>1 DEF CountInv, CountTyped, CountedHolders, Counted
<1>4. CASE bootstrap = TRUE
  <2>1. \A g \in Holder : life'[g] = "releasing" <=> g = h
    BY <1>1, <1>4 DEF CountInv, CountTyped, SpareInv, Releasing
  <2>2. Releasing'
    BY <2>1 DEF Releasing
  <2> QED
    BY <1>1, <1>2, <1>3, <1>4, <2>1, <2>2
       DEF CountInv, CountTyped, Stage, SpareInv, StartInv, RefsInv, Spare, LateInv
<1>5. CASE bootstrap = FALSE
  <2>1. \A g \in Holder : life'[g] = "releasing" <=> life[g] = "releasing"
    BY <1>1, <1>5 DEF CountInv, CountTyped
  <2>2. Releasing' <=> Releasing
    BY <2>1 DEF Releasing
  <2> QED
    BY <1>1, <1>2, <1>3, <1>5, <2>1, <2>2
       DEF CountInv, CountTyped, Stage, SpareInv, StartInv, RefsInv, Spare, LateInv
<1> QED
  BY <1>4, <1>5 DEF CountInv, CountTyped

LEMMA ReleaseBootstrapKeepsCount ==
  ASSUME CountInv, NEW h \in Holder, ReleaseBootstrap(h) PROVE CountInv'
<1>1. /\ main # "exited" /\ life[h] = "releasing" /\ refs' = refs - 1
      /\ life' = [life EXCEPT ![h] = "live"]
      /\ UNCHANGED <<main, bootstrap, late>>
  BY DEF ReleaseBootstrap, CoRelease, Up, Become
<1>2. main \notin {"start", "register", "release"} /\ bootstrap = FALSE /\ Releasing
  BY <1>1 DEF CountInv, CountTyped, StartInv, SpareInv, Releasing
<1>3. CountedHolders' = CountedHolders /\ h \in CountedHolders
  BY <1>1 DEF CountInv, CountTyped, CountedHolders, Counted
<1>4. ~Releasing' /\ ~Spare' /\ Spare
  BY <1>1, <1>2 DEF CountInv, CountTyped, SpareInv, Releasing, Spare
<1>5. refs' = Cardinality(CountedHolders) /\ refs' # 0 /\ refs' \in Nat
  <2>1. refs = Cardinality(CountedHolders) + 1
    BY <1>1, <1>2, <1>4 DEF CountInv, RefsInv
  <2> QED
    BY <1>1, <1>3, <2>1, CountedFinite DEF CountInv
<1>6. shutdown' = shutdown
  <2>1. refs # 1 /\ shutdown' = (shutdown \/ refs = 1) /\ shutdown \in BOOLEAN
    BY <1>1, <1>5 DEF ReleaseBootstrap, CoRelease, CountInv, CountTyped
  <2> QED
    BY <2>1
<1>7. CountTyped'
  BY <1>1, <1>5, <1>6 DEF CountInv, CountTyped, Stage
<1>8. SpareInv' /\ StartInv' /\ RefsInv' /\ LateInv'
  BY <1>1, <1>2, <1>3, <1>4, <1>5, <1>6 DEF CountInv, SpareInv, StartInv, RefsInv, LateInv
<1> QED
  BY <1>7, <1>8 DEF CountInv

\* The last release shuts down, and nothing is counted then.
LEMMA LastRelease ==
  ASSUME CountInv, shutdown' = (shutdown \/ refs = 1), refs = 1 => CountedHolders' = {},
         UNCHANGED late, CountedHolders' \subseteq CountedHolders
  PROVE  /\ shutdown' \in BOOLEAN /\ (shutdown = TRUE => shutdown' = TRUE)
         /\ shutdown' = TRUE => CountedHolders' \subseteq late'
<1>1. shutdown' \in BOOLEAN /\ (shutdown' = TRUE <=> shutdown = TRUE \/ refs = 1)
  BY DEF CountInv, CountTyped
<1> QED
  BY <1>1 DEF CountInv, LateInv

LEMMA RelayServerReleaseKeepsCount ==
  ASSUME CountInv, NEW h \in Holder, RelayServerRelease(h) PROVE CountInv'
<1>1. /\ main # "exited" /\ life[h] = "dying" /\ refs' = refs - 1
      /\ shutdown' = (shutdown \/ refs = 1)
      /\ life' = [life EXCEPT ![h] = IF h = "lock" THEN "none" ELSE "gone"]
      /\ UNCHANGED <<main, bootstrap, late>>
  BY DEF RelayServerRelease, CoRelease, Up, Become
<1>2. main \notin {"start", "register"}
  BY <1>1 DEF CountInv, StartInv
<1>3. CountedHolders' = CountedHolders \ {h} /\ h \in CountedHolders
  BY <1>1 DEF CountInv, CountTyped, CountedHolders, Counted
<1>4. /\ Cardinality(CountedHolders') = Cardinality(CountedHolders) - 1
      /\ Cardinality(CountedHolders') \in Nat
  BY <1>3, CountedFinite, FS_RemoveElement, FS_CardinalityType DEF CountInv
<1>5. \A g \in Holder : life'[g] = "releasing" <=> life[g] = "releasing"
  BY <1>1 DEF CountInv, CountTyped
<1>6. (Releasing' <=> Releasing) /\ (Spare' <=> Spare)
  <2>1. Releasing' <=> Releasing
    BY <1>5 DEF Releasing
  <2> QED
    BY <1>1, <2>1 DEF Spare
<1>7. refs = Cardinality(CountedHolders) + (IF Spare THEN 1 ELSE 0)
  BY <1>1, <1>2 DEF CountInv, RefsInv
<1>8. refs = 1 => CountedHolders' = {}
  <2>1. refs = 1 => Cardinality(CountedHolders') = 0
    BY <1>4, <1>7, CountedFinite DEF CountInv
  <2>2. IsFiniteSet(CountedHolders')
    BY <1>3, CountedFinite, FS_RemoveElement DEF CountInv
  <2> QED
    BY <2>1, <2>2, FS_EmptySet
<1>9. /\ shutdown' \in BOOLEAN /\ (shutdown = TRUE => shutdown' = TRUE)
      /\ shutdown' = TRUE => CountedHolders' \subseteq late'
  BY <1>1, <1>3, <1>8, LastRelease
<1>10. refs' = Cardinality(CountedHolders') + (IF Spare' THEN 1 ELSE 0) /\ refs' \in Nat
  BY <1>1, <1>4, <1>6, <1>7, CountedFinite DEF CountInv
<1>11. CountTyped'
  BY <1>1, <1>9, <1>10 DEF CountInv, CountTyped, Stage
<1>12. SpareInv' /\ StartInv' /\ RefsInv' /\ LateInv'
  BY <1>1, <1>2, <1>5, <1>6, <1>9, <1>10 DEF CountInv, SpareInv, StartInv, RefsInv, LateInv
<1> QED
  BY <1>11, <1>12 DEF CountInv

LEMMA RunServerKeepsCount == CountInv /\ RunServer => CountInv'
<1> SUFFICES ASSUME CountInv, RunServer PROVE CountInv'
  OBVIOUS
<1> USE DEF CountInv
<1>1. UNCHANGED <<life, late>> /\ CountedHolders' = CountedHolders /\ (Releasing' <=> Releasing)
  BY DEF RunServer, AddBootstrapRef, RegisterClass, BootstrapTimesOut, ReleaseUnused, ShutDown,
         Revoke, countVars, CountedHolders, Counted, Releasing
<1>2. CASE AddBootstrapRef
  <2>1. /\ main = "start" /\ CountedHolders = {} /\ ~Releasing /\ Spare
        /\ UNCHANGED <<classes, shutdown, bootstrap>>
        /\ \/ main' = "register" /\ refs' = refs + 1
           \/ main' = "exited" /\ refs' = refs
    BY <1>2 DEF AddBootstrapRef, StartInv, CountedHolders, Counted, Releasing, Spare
  <2>2. Cardinality(CountedHolders') = 0 /\ refs = 0
    BY <1>1, <2>1, FS_EmptySet DEF RefsInv
  <2>3. Spare'
    BY <2>1 DEF StartInv, Spare
  <2> QED
    BY <1>1, <2>1, <2>2, <2>3 DEF CountTyped, SpareInv, StartInv, RefsInv, LateInv, Releasing
<1>3. CASE RegisterClass
  <2>1. /\ main = "register" /\ CountedHolders = {} /\ ~Releasing /\ bootstrap' = bootstrap
        /\ \/ main' = "wait" /\ UNCHANGED <<refs, shutdown>>
           \/ /\ main' = "exited" /\ refs' = refs - 1
              /\ shutdown' = (shutdown \/ refs = 1)
    BY <1>3 DEF RegisterClass, CoRelease, StartInv, CountedHolders, Counted, Releasing
  <2>2. Spare /\ (Spare' <=> bootstrap = TRUE)
    BY <1>1, <2>1 DEF StartInv, Spare
  <2>3. Cardinality(CountedHolders) = 0 /\ refs = 1
    BY <2>1, <2>2, FS_EmptySet DEF RefsInv
  <2>4. shutdown' \in BOOLEAN /\ refs' \in {0, 1}
    <3>1. refs - 1 = 0
      BY <2>3
    <3> QED
      BY <2>1, <2>3, <3>1 DEF CountTyped
  <2>5. CountTyped'
    BY <1>1, <2>1, <2>4 DEF CountTyped
  <2> QED
    BY <1>1, <2>1, <2>2, <2>3, <2>5 DEF SpareInv, StartInv, RefsInv, LateInv, Releasing
<1>4. CASE BootstrapTimesOut
  <2>1. /\ main = "wait" /\ bootstrap' = FALSE /\ UNCHANGED <<shutdown, refs>>
        /\ main' = IF bootstrap = TRUE THEN "release" ELSE "waitForever"
    BY <1>4 DEF BootstrapTimesOut, CountTyped
  <2>2. Spare' <=> Spare
    BY <1>1, <2>1 DEF Spare
  <2> QED
    BY <1>1, <2>1, <2>2 DEF CountTyped, SpareInv, StartInv, RefsInv, LateInv, Releasing
<1>5. CASE ReleaseUnused
  <2>1. /\ main = "release" /\ main' = "waitForever" /\ refs' = refs - 1
        /\ shutdown' = (shutdown \/ refs = 1) /\ bootstrap' = bootstrap
    BY <1>5 DEF ReleaseUnused, CoRelease
  <2>2. Spare /\ ~Spare'
    BY <1>1, <2>1 DEF Spare, SpareInv
  <2>3. refs = Cardinality(CountedHolders) + 1 /\ refs' = Cardinality(CountedHolders')
    BY <1>1, <2>1, <2>2, CountedFinite DEF RefsInv
  <2>4. refs = 1 => CountedHolders' = {}
    BY <1>1, <2>3, CountedFinite
  <2>5. /\ shutdown' \in BOOLEAN
        /\ shutdown' = TRUE => CountedHolders' \subseteq late'
    BY <1>1, <2>1, <2>4, LastRelease
  <2>6. CountTyped'
    BY <1>1, <2>1, <2>3, <2>5, CountedFinite DEF CountTyped
  <2> QED
    BY <1>1, <2>1, <2>2, <2>3, <2>5, <2>6 DEF SpareInv, StartInv, RefsInv, LateInv, Releasing
<1>6. CASE ShutDown
  <2>1. /\ main \in {"wait", "waitForever"} /\ main' = "revoke" /\ shutdown = TRUE
        /\ UNCHANGED <<shutdown, refs, bootstrap>>
    BY <1>6 DEF ShutDown, countVars, CountTyped
  <2>2. Spare' <=> Spare
    BY <1>1, <2>1 DEF Spare
  <2> QED
    BY <1>1, <2>1, <2>2 DEF CountTyped, SpareInv, StartInv, RefsInv, LateInv, Releasing
<1>7. CASE Revoke
  <2>1. /\ main = "revoke" /\ main' = "exited" /\ UNCHANGED <<shutdown, refs, bootstrap>>
    BY <1>7 DEF Revoke, countVars
  <2> QED
    BY <1>1, <2>1 DEF CountTyped, SpareInv, StartInv, RefsInv, LateInv, Releasing
<1> QED
  BY <1>2, <1>3, <1>4, <1>5, <1>6, <1>7 DEF RunServer

LEMMA OneMoves ==
  ASSUME CountInv, NEW h \in Holder, NEW s \in Stage, Become(h, s),
         {life[h], s} \cap {"exchanging", "releasing"} = {},
         life[h] \in {"live", "dying"} <=> s \in {"live", "dying"},
         main \in {"start", "register"} => classes = "active" \/ life[h] # "none",
         UNCHANGED <<main, classes, shutdown, refs, bootstrap, late>>
  PROVE  Uncounted
<1>1. life' = [life EXCEPT ![h] = s] /\ life \in [Holder -> Stage]
  BY DEF Become, CountInv, CountTyped
<1>2. main \notin {"start", "register"}
  BY DEF CountInv, StartInv
<1> QED
  BY <1>1, <1>2 DEF Uncounted

LEMMA NoneMoves ==
  ASSUME CountInv, UNCHANGED <<main, classes, shutdown, refs, bootstrap, life, late>>
  PROVE  Uncounted
BY DEF Uncounted, CountInv, CountTyped, StartInv

LEMMA PluginIsUncounted ==
  ASSUME CountInv, NEW p \in Plugin,
         \/ Activate(p) \/ CreateInstance(p) \/ BeginInitialize(p) \/ PluginCall(p)
         \/ Terminated(p) \/ ClientReleases(p) \/ DestroyPlugin(p)
  PROVE  Uncounted
<1>1. p \in Holder
  BY DEF Holder
<1>2. CASE Activate(p)
  BY <1>1, <1>2, OneMoves DEF Activate, Stage
<1>3. CASE CreateInstance(p)
  BY <1>1, <1>3, OneMoves DEF CreateInstance, Stage
<1>4. CASE DestroyPlugin(p)
  BY <1>1, <1>4, OneMoves DEF DestroyPlugin, Alive, Stage
<1>5. CASE BeginInitialize(p) \/ PluginCall(p) \/ Terminated(p) \/ ClientReleases(p)
  BY <1>5, NoneMoves
     DEF BeginInitialize, PluginCall, CreateListener, StoreListener, DropListener,
         ReleaseListener, Terminated, ClientReleases, OnlyPlugin, countVars
<1> QED
  BY <1>2, <1>3, <1>4, <1>5

LEMMA ChannelIsUncounted ==
  ASSUME CountInv, NEW c \in Channel,
         \/ CheckTerminated(c) \/ ChannelCall(c) \/ OnClose(c)
         \/ ReleaseCallback(c) \/ DestroyCallback(c)
         \/ \E k \in Call : Receive(c, k) \/ DataCall(c, k)
  PROVE  Uncounted
<1>1. c \in Holder
  BY DEF Holder
<1>2. CASE CheckTerminated(c)
  <2>1. Owner[c] \in Holder /\ life[Owner[c]] = "live"
    BY <1>2, HolderAssumption DEF CheckTerminated, Alive, Holder
  <2>2. main \notin {"start", "register"}
    BY <2>1 DEF CountInv, StartInv
  <2> QED
    BY <1>1, <1>2, <2>2, OneMoves DEF CheckTerminated, Stage
<1>3. CASE OnNewChannelConnection(c)
  BY <1>1, <1>3, OneMoves DEF OnNewChannelConnection, Stage
<1>4. CASE DestroyCallback(c)
  BY <1>1, <1>4, OneMoves DEF DestroyCallback, Alive, Stage
<1>5. CASE ReleaseClosed(c) \/ OnClose(c) \/ ReleaseCallback(c)
  BY <1>5, NoneMoves DEF ReleaseClosed, OnClose, ReleaseCallback, OnlyChannel, countVars
<1>6. ASSUME NEW k \in Call, Receive(c, k) \/ DataCall(c, k) PROVE Uncounted
  BY <1>6, NoneMoves
     DEF Receive, DataCall, LockRequest, TakeChannelRef, HandleRequest, WriteReturns,
         ReleaseChannelRef, OnlyChannel, countVars
<1> QED
  BY <1>2, <1>3, <1>4, <1>5, <1>6 DEF ChannelCall

LEMMA LockIsUncounted == CountInv /\ LockServer => Uncounted
<1>1. "lock" \in Holder
  BY DEF Holder
<1> QED
  BY <1>1, OneMoves DEF LockServer, Stage

LEMMA CountNext == CountInv /\ [Next]_vars => CountInv'
<1> SUFFICES ASSUME CountInv, [Next]_vars PROVE CountInv'
  OBVIOUS
<1>1. CASE UNCHANGED relayVars
  <2>1. Uncounted
    BY <1>1, NoneMoves DEF relayVars, countVars
  <2> QED
    BY <2>1, UncountedKeepsCount
<1>2. CASE RelayNext
  <2>1. ASSUME NEW h \in Holder, Counting(h) PROVE CountInv'
    BY <2>1, AddRefKeepsCount, ExchangeKeepsCount, ReleaseBootstrapKeepsCount,
       RelayServerReleaseKeepsCount DEF Counting
  <2> QED
    BY <1>2, <2>1, RunServerKeepsCount, LockIsUncounted, PluginIsUncounted, ChannelIsUncounted,
       UncountedKeepsCount DEF RelayNext
<1> QED
  BY <1>1, <1>2 DEF Next, RunHelper, Helper, Serve, vars

(* RunServer never returns under an object or a lock it has counted before *)
(* the shutdown: however many processes activate objects, and although the *)
(* 30 s may pass at the very moment the first of them comes.               *)
THEOREM ServerCorrect == Spec => []ServerOutlivesItsObjects
<1>1. CountInv => ServerOutlivesItsObjects
  BY DEF CountInv, LateInv, ServerOutlivesItsObjects, CountedHolders
<1> QED
  BY <1>1, CountInitially, CountNext, PTL DEF Spec

-----------------------------------------------------------------------------
(* The COM server: the references plugins and channels hold                *)

PluginRecord ==
  [initializing : {"no", "create", "store", "drop"}, terminated : BOOLEAN, stored : BOOLEAN,
   releasing : BOOLEAN, owned : SUBSET {"manager", "listener"},
   held : SUBSET {"client", "listener"}]

\* What mstsc has to be given back is owed by the members, by Initialize or by
\* Terminated, and by one of them only.
Owes(q) ==
  /\ q.initializing = "no" /\ q.stored = FALSE /\ q.releasing = FALSE => q.owned = {}
  /\ q.stored = TRUE => q.initializing = "no" /\ q.terminated = FALSE
  /\ q.releasing = TRUE => q.initializing = "no" /\ q.stored = FALSE /\ q.terminated = TRUE

PluginInv == plugin \in [Plugin -> PluginRecord] /\ \A p \in Plugin : Owes(plugin[p])

LEMMA PluginInitially == Init => PluginInv
<1> SUFFICES ASSUME RelayInit PROVE PluginInv
  BY DEF Init
<1>1. plugin = [p \in Plugin |->
         [initializing |-> "no", terminated |-> FALSE, stored |-> FALSE, releasing |-> FALSE,
          owned |-> {}, held |-> {}]]
  BY DEF RelayInit
<1> QED
  BY <1>1 DEF PluginInv, PluginRecord, Owes

LEMMA OnePluginChanges ==
  ASSUME PluginInv, NEW p \in Plugin, NEW q \in PluginRecord, Owes(q),
         plugin' = [plugin EXCEPT ![p] = q]
  PROVE  PluginInv'
BY DEF PluginInv

LEMMA PluginStep ==
  ASSUME PluginInv, NEW p \in Plugin,
         \/ CreateInstance(p) \/ BeginInitialize(p) \/ PluginCall(p) \/ Terminated(p)
         \/ ClientReleases(p) \/ DestroyPlugin(p)
  PROVE  PluginInv'
<1> DEFINE q == plugin[p]
<1>1. q \in PluginRecord /\ Owes(q)
  BY DEF PluginInv
<1>2. CASE CreateInstance(p)
  <2>1. \/ plugin' = [plugin EXCEPT ![p] = [q EXCEPT !.held = {"client"}]]
        \/ plugin' = plugin
    BY <1>2 DEF CreateInstance
  <2>2. [q EXCEPT !.held = {"client"}] \in PluginRecord /\ Owes([q EXCEPT !.held = {"client"}])
    BY <1>1 DEF PluginRecord, Owes
  <2> QED
    BY <2>1, <2>2, OnePluginChanges DEF PluginInv
<1>3. CASE BeginInitialize(p)
  <2> DEFINE r == [q EXCEPT !.initializing = "create", !.owned = {"manager"}]
  <2>1. /\ plugin' = [plugin EXCEPT ![p] = r]
        /\ q.initializing = "no" /\ q.stored = FALSE /\ q.terminated = FALSE
    BY <1>1, <1>3 DEF BeginInitialize, PluginRecord
  <2>2. r \in PluginRecord /\ Owes(r)
    BY <1>1, <2>1 DEF PluginRecord, Owes
  <2> QED
    BY <2>1, <2>2, OnePluginChanges
<1>4. CASE CreateListener(p)
  <2> DEFINE r == [q EXCEPT !.initializing = "store", !.owned = @ \cup {"listener"},
                            !.held = @ \cup {"listener"}]
             s == [q EXCEPT !.initializing = "drop"]
  <2>1. /\ plugin' = [plugin EXCEPT ![p] = r] \/ plugin' = [plugin EXCEPT ![p] = s]
        /\ q.initializing = "create"
    BY <1>4 DEF CreateListener
  <2>2. r \in PluginRecord /\ Owes(r) /\ s \in PluginRecord /\ Owes(s)
    BY <1>1, <2>1 DEF PluginRecord, Owes
  <2> QED
    BY <2>1, <2>2, OnePluginChanges
<1>5. CASE StoreListener(p)
  <2> DEFINE r == [q EXCEPT !.initializing = IF q.terminated THEN "drop" ELSE "no",
                            !.stored = ~q.terminated]
  <2>1. plugin' = [plugin EXCEPT ![p] = r] /\ q.initializing = "store"
    BY <1>5 DEF StoreListener
  <2>2. /\ r \in PluginRecord /\ r.terminated = q.terminated /\ r.releasing = q.releasing
        /\ q.terminated = TRUE => r.initializing = "drop" /\ r.stored = FALSE
        /\ q.terminated = FALSE => r.initializing = "no" /\ r.stored = TRUE
    BY <1>1 DEF PluginRecord
  <2>3. Owes(r)
    BY <1>1, <2>1, <2>2 DEF PluginRecord, Owes
  <2> QED
    BY <2>1, <2>2, <2>3, OnePluginChanges
<1>6. CASE DropListener(p)
  <2> DEFINE r == [Releases(q) EXCEPT !.initializing = "no"]
  <2>1. plugin' = [plugin EXCEPT ![p] = r]
    BY <1>6 DEF DropListener
  <2>2. q.initializing = "drop"
    BY <1>6 DEF DropListener
  <2>3. r \in PluginRecord /\ Owes(r)
    BY <1>1, <2>2 DEF PluginRecord, Owes, Releases
  <2> QED
    BY <2>1, <2>3, OnePluginChanges
<1>7. CASE Terminated(p)
  <2> DEFINE r == [q EXCEPT !.terminated = TRUE, !.stored = FALSE, !.releasing = q.stored]
  <2>1. plugin' = [plugin EXCEPT ![p] = r] /\ q.releasing = FALSE
    BY <1>1, <1>7 DEF Terminated, PluginRecord
  <2>2. r \in PluginRecord /\ Owes(r)
    BY <1>1, <2>1 DEF PluginRecord, Owes
  <2> QED
    BY <2>1, <2>2, OnePluginChanges
<1>8. CASE ReleaseListener(p)
  <2> DEFINE r == [Releases(q) EXCEPT !.releasing = FALSE]
  <2>1. plugin' = [plugin EXCEPT ![p] = r] /\ q.releasing = TRUE
    BY <1>1, <1>8 DEF ReleaseListener, PluginRecord
  <2>2. r \in PluginRecord /\ Owes(r)
    BY <1>1, <2>1 DEF PluginRecord, Owes, Releases
  <2> QED
    BY <2>1, <2>2, OnePluginChanges
<1>9. CASE ClientReleases(p)
  <2>1. PICK kept \in {{}, q.held \ {"client"}} : plugin' = [plugin EXCEPT ![p].held = kept]
    BY <1>9 DEF ClientReleases
  <2> DEFINE r == [q EXCEPT !.held = kept]
  <2>2. r \in PluginRecord /\ Owes(r)
    BY <1>1, <2>1 DEF PluginRecord, Owes
  <2> QED
    BY <2>1, <2>2, OnePluginChanges
<1>10. CASE DestroyPlugin(p)
  <2> DEFINE r == [q EXCEPT !.terminated = TRUE, !.stored = FALSE,
                            !.owned = IF q.stored THEN {} ELSE @]
  <2>1. /\ plugin' = [plugin EXCEPT ![p] = r]
        /\ q.initializing = "no" /\ q.releasing = FALSE
    BY <1>1, <1>10 DEF DestroyPlugin, InPluginCall, PluginRecord
  <2>2. r \in PluginRecord /\ Owes(r)
    BY <1>1, <2>1 DEF PluginRecord, Owes
  <2> QED
    BY <2>1, <2>2, OnePluginChanges
<1> QED
  BY <1>2, <1>3, <1>4, <1>5, <1>6, <1>7, <1>8, <1>9, <1>10 DEF PluginCall

LEMMA PluginNext == PluginInv /\ [Next]_vars => PluginInv'
<1> SUFFICES ASSUME PluginInv, [Next]_vars PROVE PluginInv'
  OBVIOUS
<1>1. CASE UNCHANGED plugin
  BY <1>1 DEF PluginInv
<1>2. ASSUME NEW p \in Plugin,
             \/ CreateInstance(p) \/ BeginInitialize(p) \/ PluginCall(p) \/ Terminated(p)
             \/ ClientReleases(p) \/ DestroyPlugin(p)
      PROVE  PluginInv'
  BY <1>2, PluginStep
<1>3. CASE RelayNext
  <2>1. RunServer \/ LockServer => UNCHANGED plugin
    BY DEF RunServer, AddBootstrapRef, RegisterClass, BootstrapTimesOut, ReleaseUnused, ShutDown,
           Revoke, LockServer
  <2>2. ASSUME NEW h \in Holder, Counting(h) PROVE UNCHANGED plugin
    BY <2>2 DEF Counting, CoAddRef, ExchangeBootstrap, ReleaseBootstrap, RelayServerRelease
  <2>3. ASSUME NEW p \in Plugin, Activate(p) PROVE UNCHANGED plugin
    BY <2>3 DEF Activate
  <2>4. ASSUME NEW c \in Channel,
               \/ CheckTerminated(c) \/ ChannelCall(c) \/ OnClose(c) \/ ReleaseCallback(c)
               \/ DestroyCallback(c)
        PROVE  UNCHANGED plugin
    BY <2>4 DEF CheckTerminated, ChannelCall, OnNewChannelConnection, ReleaseClosed, OnClose,
                ReleaseCallback, DestroyCallback, OnlyChannel
  <2>5. ASSUME NEW c \in Channel, NEW k \in Call, Receive(c, k) \/ DataCall(c, k)
        PROVE  UNCHANGED plugin
    BY <2>5 DEF Receive, DataCall, LockRequest, TakeChannelRef, HandleRequest, WriteReturns,
                ReleaseChannelRef, OnlyChannel
  <2> QED
    BY <1>1, <1>2, <1>3, <2>1, <2>2, <2>3, <2>4, <2>5 DEF RelayNext
<1> QED
  BY <1>1, <1>3 DEF Next, RunHelper, Helper, Serve, vars, relayVars

ChannelRecord ==
  [attached : BOOLEAN, refs : Int, request : Call \cup {"nobody"}, closing : BOOLEAN,
   held : BOOLEAN, call : [Call -> {"idle", "lock", "take", "work", "write", "release"}],
   awaits : [Call -> Call \cup {"nobody"}]]

Borrowing == {"work", "write", "release"}
Borrowers(x) == {k \in Call : x.call[k] \in Borrowing}

\* The callback's own reference and one for every call that has taken one.
Balanced(x) ==
  x.refs = Cardinality(Borrowers(x)) + (IF x.attached = TRUE THEN 1 ELSE 0)
             + (IF x.closing = TRUE THEN 1 ELSE 0)

Unused(x) ==
  /\ x.attached = FALSE /\ x.closing = FALSE /\ x.held = FALSE
  /\ \A k \in Call : x.call[k] = "idle"

\* Before it is made and after its destructor a callback is in no call.
Outside == {"none", "accepted", "dying", "gone"}

ChannelInv ==
  /\ channel \in [Channel -> ChannelRecord]
  /\ \A c \in Channel : Balanced(channel[c]) /\ (life[c] \in Outside => Unused(channel[c]))

LEMMA BorrowersFinite ==
  ASSUME NEW x
  PROVE  /\ IsFiniteSet(Borrowers(x)) /\ Cardinality(Borrowers(x)) \in Nat
         /\ Cardinality(Borrowers(x)) = 0 <=> Borrowers(x) = {}
<1>1. IsFiniteSet(Borrowers(x))
  BY HolderAssumption, FS_Subset DEF Borrowers
<1> QED
  BY <1>1, FS_CardinalityType, FS_EmptySet

LEMMA UnusedHasNoRefs ==
  ASSUME NEW x, Balanced(x), Unused(x) PROVE x.refs = 0 /\ Borrowers(x) = {}
<1>1. Borrowers(x) = {}
  BY DEF Unused, Borrowers, Borrowing
<1>2. Cardinality(Borrowers(x)) = 0
  BY <1>1, BorrowersFinite
<1> QED
  BY <1>1, <1>2 DEF Balanced, Unused

LEMMA ChannelInitially == Init => ChannelInv
<1> SUFFICES ASSUME RelayInit PROVE ChannelInv
  BY DEF Init
<1> DEFINE x == [attached |-> FALSE, refs |-> 0, request |-> "nobody", closing |-> FALSE,
                 held |-> FALSE, call |-> [k \in Call |-> "idle"],
                 awaits |-> [k \in Call |-> "nobody"]]
<1>1. channel = [c \in Channel |-> x]
  BY DEF RelayInit
<1>2. x \in ChannelRecord /\ Unused(x)
  BY DEF ChannelRecord, Unused
<1>3. Borrowers(x) = {}
  BY DEF Borrowers, Borrowing
<1>4. Balanced(x)
  <2>1. x.refs = 0 /\ x.attached = FALSE /\ x.closing = FALSE
    OBVIOUS
  <2>2. Cardinality(Borrowers(x)) = 0
    BY <1>3, BorrowersFinite
  <2> QED
    BY <2>1, <2>2 DEF Balanced
<1> HIDE DEF x
<1> QED
  BY <1>1, <1>2, <1>4 DEF ChannelInv

\* One callback goes on, and no other begins or ends.
LEMMA OneChannelChanges ==
  ASSUME ChannelInv, NEW c \in Channel, NEW x \in ChannelRecord, Balanced(x),
         channel' = [channel EXCEPT ![c] = x],
         life'[c] \in Outside => Unused(x),
         \A d \in Channel \ {c} : life'[d] \in Outside => life[d] \in Outside
  PROVE  ChannelInv'
BY DEF ChannelInv

LEMMA NoChannelChanges ==
  ASSUME ChannelInv, UNCHANGED channel,
         \A c \in Channel : life'[c] \in Outside => life[c] \in Outside
  PROVE  ChannelInv'
BY DEF ChannelInv

LEMMA DataCallStep ==
  ASSUME ChannelInv, NEW c \in Channel, NEW k \in Call, Receive(c, k) \/ DataCall(c, k)
  PROVE  ChannelInv'
<1> DEFINE x == channel[c]
<1>1. x \in ChannelRecord /\ Balanced(x) /\ (life[c] \in Outside => Unused(x))
  BY DEF ChannelInv
<1>2. life' = life
  BY DEF Receive, DataCall, LockRequest, TakeChannelRef, HandleRequest, WriteReturns,
         ReleaseChannelRef, OnlyChannel, countVars
<1> DEFINE Same(y) == /\ y \in ChannelRecord /\ Borrowers(y) = Borrowers(x)
                      /\ y.refs = x.refs /\ y.attached = x.attached /\ y.closing = x.closing
<1>3. ASSUME NEW y, Same(y), channel' = [channel EXCEPT ![c] = y], life[c] \notin Outside
      PROVE  ChannelInv'
  <2>1. Balanced(y)
    BY <1>1, <1>3 DEF Balanced
  <2> QED
    BY <1>2, <1>3, <2>1, OneChannelChanges
<1>4. CASE Receive(c, k)
  <2>1. life[c] = "live" /\ x.call[k] = "idle"
    BY <1>4 DEF Receive, Alive, At
  <2>2. CASE channel' = [channel EXCEPT ![c].call[k] = "lock"]
    <3> DEFINE y == [x EXCEPT !.call[k] = "lock"]
    <3>1. Same(y)
      BY <1>1, <2>1 DEF ChannelRecord, Borrowers, Borrowing
    <3> QED
      BY <1>3, <2>1, <2>2, <3>1 DEF Outside
  <2>3. ASSUME NEW j \in Call,
               channel' = [channel EXCEPT ![c].call[k] = "lock", ![c].awaits[j] = k]
        PROVE  ChannelInv'
    <3> DEFINE y == [x EXCEPT !.call[k] = "lock", !.awaits[j] = k]
    <3>1. Same(y)
      BY <1>1, <2>1 DEF ChannelRecord, Borrowers, Borrowing
    <3> QED
      BY <1>3, <2>1, <2>3, <3>1 DEF Outside
  <2> QED
    BY <1>4, <2>2, <2>3 DEF Receive
<1>5. ASSUME x.call[k] # "idle" PROVE life[c] \notin Outside
  BY <1>1, <1>5 DEF Unused
<1>6. CASE LockRequest(c, k)
  <2> DEFINE y == [x EXCEPT !.call[k] = "take", !.request = k]
  <2>1. x.call[k] = "lock" /\ channel' = [channel EXCEPT ![c] = y]
    BY <1>6 DEF LockRequest, At
  <2>2. Same(y)
    BY <1>1, <2>1 DEF ChannelRecord, Borrowers, Borrowing
  <2> QED
    BY <1>3, <1>5, <2>1, <2>2
<1>7. CASE TakeChannelRef(c, k)
  <2>1. x.call[k] = "take"
    BY <1>7 DEF TakeChannelRef, At
  <2>2. CASE x.attached
    <3> DEFINE y == [x EXCEPT !.call[k] = "work", !.refs = @ + 1]
    <3>1. channel' = [channel EXCEPT ![c] = y]
      BY <1>7, <2>2 DEF TakeChannelRef
    <3>2. /\ y \in ChannelRecord /\ y.refs = x.refs + 1 /\ y.attached = x.attached
          /\ y.closing = x.closing /\ y.call = [x.call EXCEPT ![k] = "work"]
      <4>1. x.refs + 1 \in Int /\ x.call \in [Call -> {"idle", "lock", "take", "work", "write", "release"}]
        BY <1>1 DEF ChannelRecord
      <4> QED
        BY <1>1, <4>1 DEF ChannelRecord
    <3> HIDE DEF y
    <3>5. Borrowers(y) = Borrowers(x) \cup {k} /\ k \notin Borrowers(x)
      BY <1>1, <2>1, <3>2 DEF ChannelRecord, Borrowers, Borrowing
    <3>3. Cardinality(Borrowers(y)) = Cardinality(Borrowers(x)) + 1
      BY <3>5, BorrowersFinite, FS_AddElement
    <3>4. Balanced(y)
      BY <1>1, <3>2, <3>3, BorrowersFinite DEF Balanced
    <3> QED
      BY <1>2, <1>5, <2>1, <3>1, <3>2, <3>4, OneChannelChanges
  <2>3. CASE ~x.attached
    <3> DEFINE y == [x EXCEPT !.call[k] = "idle", !.request = "nobody"]
    <3>1. channel' = [channel EXCEPT ![c] = y]
      BY <1>7, <2>3 DEF TakeChannelRef
    <3>2. Same(y)
      BY <1>1, <2>1 DEF ChannelRecord, Borrowers, Borrowing
    <3> QED
      BY <1>3, <1>5, <2>1, <3>1, <3>2
  <2> QED
    BY <2>2, <2>3
<1>8. CASE HandleRequest(c, k)
  <2>1. PICK next \in {"write", "release"} :
          channel' = [channel EXCEPT ![c].call[k] = next, ![c].request = "nobody"]
    BY <1>8 DEF HandleRequest
  <2> DEFINE y == [x EXCEPT !.call[k] = next, !.request = "nobody"]
  <2>2. x.call[k] = "work" /\ channel' = [channel EXCEPT ![c] = y]
    BY <1>8, <2>1 DEF HandleRequest, At
  <2>3. Same(y)
    BY <1>1, <2>2 DEF ChannelRecord, Borrowers, Borrowing
  <2> QED
    BY <1>3, <1>5, <2>2, <2>3
<1>9. CASE WriteReturns(c, k)
  <2> DEFINE y == [x EXCEPT !.call[k] = "release", !.awaits[k] = "nobody"]
  <2>1. x.call[k] = "write" /\ channel' = [channel EXCEPT ![c] = y]
    BY <1>9 DEF WriteReturns, At
  <2>2. Same(y)
    BY <1>1, <2>1 DEF ChannelRecord, Borrowers, Borrowing
  <2> QED
    BY <1>3, <1>5, <2>1, <2>2
<1>10. CASE ReleaseChannelRef(c, k)
  <2> DEFINE y == [x EXCEPT !.call[k] = "idle", !.refs = @ - 1,
                            !.request = IF @ = k THEN "nobody" ELSE @]
  <2>1. x.call[k] = "release" /\ channel' = [channel EXCEPT ![c] = y]
    BY <1>10 DEF ReleaseChannelRef, At
  <2>2. /\ y \in ChannelRecord /\ y.refs = x.refs - 1 /\ y.attached = x.attached
        /\ y.closing = x.closing /\ y.call = [x.call EXCEPT ![k] = "idle"]
    <3>1. x.refs - 1 \in Int /\ x.call \in [Call -> {"idle", "lock", "take", "work", "write", "release"}]
      BY <1>1 DEF ChannelRecord
    <3> QED
      BY <1>1, <3>1 DEF ChannelRecord
  <2> HIDE DEF y
  <2>5. Borrowers(y) = Borrowers(x) \ {k} /\ k \in Borrowers(x)
    BY <1>1, <2>1, <2>2 DEF ChannelRecord, Borrowers, Borrowing
  <2>3. Cardinality(Borrowers(y)) = Cardinality(Borrowers(x)) - 1
    BY <2>5, BorrowersFinite, FS_RemoveElement
  <2>4. Balanced(y)
    BY <1>1, <2>2, <2>3, BorrowersFinite DEF Balanced
  <2> QED
    BY <1>2, <1>5, <2>1, <2>2, <2>4, OneChannelChanges
<1> QED
  BY <1>4, <1>6, <1>7, <1>8, <1>9, <1>10 DEF DataCall

LEMMA OneIsInt == 1 \in Int
OBVIOUS

LEMMA Connected ==
  ASSUME NEW x \in ChannelRecord, NEW n \in Int
  PROVE  [x EXCEPT !.attached = TRUE, !.refs = n, !.held = TRUE] \in ChannelRecord
BY DEF ChannelRecord

LEMMA CallbackStep ==
  ASSUME CountTyped, ChannelInv, NEW c \in Channel,
         \/ OnNewChannelConnection(c) \/ ReleaseClosed(c) \/ OnClose(c) \/ ReleaseCallback(c)
         \/ DestroyCallback(c)
  PROVE  ChannelInv'
<1> DEFINE x == channel[c]
<1>1. /\ x \in ChannelRecord /\ Balanced(x) /\ (life[c] \in Outside => Unused(x))
      /\ x.refs \in Int /\ x.refs - 1 \in Int
  BY DEF ChannelInv, ChannelRecord
<1>2. c \in Holder /\ Channel \subseteq Holder
  BY DEF Holder
<1>3. CASE OnNewChannelConnection(c)
  <2>1. life[c] \in Outside
    BY <1>3 DEF OnNewChannelConnection, Outside
  <2>2. Unused(x) /\ Borrowers(x) = {} /\ x.refs = 0
    BY <1>1, <2>1, UnusedHasNoRefs
  <2>3. CASE Become(c, "gone") /\ UNCHANGED channel
    BY <1>2, <2>1, <2>3, NoChannelChanges DEF Become, CountTyped
  <2>4. CASE /\ Become(c, "counting")
             /\ channel' = [channel EXCEPT ![c].attached = TRUE, ![c].refs = 1, ![c].held = TRUE]
    <3> DEFINE y == [x EXCEPT !.attached = TRUE, !.refs = 1, !.held = TRUE]
    <3>0. channel' = [channel EXCEPT ![c] = y]
      BY <2>4
    <3>5. y \in ChannelRecord
      BY <1>1, Connected, OneIsInt
    <3>6. x.closing = FALSE
      BY <2>2 DEF Unused
    <3>7. /\ y.refs = 1 /\ y.attached = TRUE /\ y.closing = FALSE /\ y.call = x.call
      BY <1>1, <3>6 DEF ChannelRecord
    <3>1. /\ channel' = [channel EXCEPT ![c] = y] /\ y \in ChannelRecord
          /\ y.refs = 1 /\ y.attached = TRUE /\ y.closing = FALSE /\ y.call = x.call
      BY <3>0, <3>5, <3>7
    <3> HIDE DEF y
    <3>2. Cardinality(Borrowers(y)) = 0
      BY <2>2, <3>1, BorrowersFinite DEF Borrowers
    <3>3. Balanced(y)
      BY <3>1, <3>2 DEF Balanced
    <3>4. life'[c] \notin Outside /\ \A d \in Channel \ {c} : life'[d] = life[d]
      BY <1>2, <2>4 DEF Become, CountTyped, Outside
    <3> QED
      BY <3>1, <3>3, <3>4, OneChannelChanges
  <2> QED
    BY <1>3, <2>3, <2>4 DEF OnNewChannelConnection
<1>4. CASE ReleaseClosed(c)
  <2> DEFINE y == [x EXCEPT !.closing = FALSE, !.refs = @ - 1]
  <2>1. channel' = [channel EXCEPT ![c] = y] /\ x.closing = TRUE /\ life' = life
    BY <1>1, <1>4 DEF ReleaseClosed, OnlyChannel, countVars, ChannelRecord
  <2>2. /\ y \in ChannelRecord /\ y.refs = x.refs - 1 /\ y.closing = FALSE
        /\ y.attached = x.attached /\ y.call = x.call
    BY <1>1 DEF ChannelRecord
  <2> HIDE DEF y
  <2>3. Borrowers(y) = Borrowers(x)
    BY <2>2 DEF Borrowers
  <2>4. Balanced(y)
    BY <1>1, <2>1, <2>2, <2>3, BorrowersFinite DEF Balanced
  <2>5. life[c] \notin Outside
    BY <1>1, <2>1 DEF Unused
  <2> QED
    BY <2>1, <2>2, <2>4, <2>5, OneChannelChanges
<1>5. CASE OnClose(c)
  <2> DEFINE y == [x EXCEPT !.attached = FALSE, !.closing = x.attached]
  <2>1. channel' = [channel EXCEPT ![c] = y] /\ x.closing = FALSE /\ life' = life /\ x.held = TRUE
    BY <1>1, <1>5 DEF OnClose, OnlyChannel, countVars, ChannelRecord
  <2>2. /\ y \in ChannelRecord /\ y.refs = x.refs /\ y.closing = x.attached
        /\ y.attached = FALSE /\ y.call = x.call
    BY <1>1 DEF ChannelRecord
  <2> HIDE DEF y
  <2>3. Borrowers(y) = Borrowers(x)
    BY <2>2 DEF Borrowers
  <2>4. Balanced(y)
    BY <1>1, <2>1, <2>2, <2>3, BorrowersFinite DEF Balanced
  <2>5. life[c] \notin Outside
    BY <1>1, <2>1 DEF Unused
  <2> QED
    BY <2>1, <2>2, <2>4, <2>5, OneChannelChanges
<1>6. CASE ReleaseCallback(c)
  <2> DEFINE y == [x EXCEPT !.held = FALSE]
  <2>1. channel' = [channel EXCEPT ![c] = y] /\ life' = life /\ life[c] = "live"
    BY <1>6 DEF ReleaseCallback, OnlyChannel, countVars, Alive
  <2>2. /\ y \in ChannelRecord /\ y.refs = x.refs /\ y.closing = x.closing
        /\ y.attached = x.attached /\ y.call = x.call
    BY <1>1 DEF ChannelRecord
  <2> HIDE DEF y
  <2>3. Borrowers(y) = Borrowers(x)
    BY <2>2 DEF Borrowers
  <2>4. Balanced(y)
    BY <1>1, <2>2, <2>3 DEF Balanced
  <2> QED
    BY <2>1, <2>2, <2>4, OneChannelChanges DEF Outside
<1>7. CASE DestroyCallback(c)
  <2> DEFINE y == [x EXCEPT !.attached = FALSE, !.refs = IF x.attached THEN @ - 1 ELSE @]
  <2>1. /\ channel' = [channel EXCEPT ![c] = y] /\ x.held = FALSE /\ x.closing = FALSE
        /\ \A k \in Call : x.call[k] = "idle"
        /\ Become(c, "dying")
    BY <1>1, <1>7 DEF DestroyCallback, At, ChannelRecord
  <2>2. /\ y \in ChannelRecord /\ y.attached = FALSE /\ y.closing = FALSE /\ y.held = FALSE
        /\ y.call = x.call
        /\ y.refs = IF x.attached = TRUE THEN x.refs - 1 ELSE x.refs
    BY <1>1, <2>1 DEF ChannelRecord
  <2> HIDE DEF y
  <2>3. Borrowers(x) = {} /\ Borrowers(y) = {} /\ Unused(y)
    BY <2>1, <2>2 DEF Borrowers, Borrowing, Unused
  <2>4. Cardinality(Borrowers(x)) = 0 /\ Cardinality(Borrowers(y)) = 0
    BY <2>3, BorrowersFinite
  <2>5. Balanced(y)
    BY <1>1, <2>1, <2>2, <2>4 DEF Balanced
  <2>6. \A d \in Channel \ {c} : life'[d] = life[d]
    BY <1>2, <2>1 DEF Become, CountTyped
  <2> QED
    BY <2>1, <2>2, <2>3, <2>5, <2>6, OneChannelChanges
<1> QED
  BY <1>3, <1>4, <1>5, <1>6, <1>7

\* What happens to another holder, or to the count of this one.
LEMMA HolderMoves ==
  ASSUME CountTyped, ChannelInv, NEW h \in Holder, NEW s, Become(h, s), UNCHANGED channel,
         h \in Channel /\ s \in Outside => life[h] \in Outside
  PROVE  ChannelInv'
<1>1. \A c \in Channel : life'[c] \in Outside => life[c] \in Outside
  BY DEF Become, CountTyped, Holder
<1> QED
  BY <1>1, NoChannelChanges

LEMMA LifeUnchanged == ChannelInv /\ UNCHANGED <<life, channel>> => ChannelInv'
BY DEF ChannelInv

LEMMA ChannelNext == CountTyped /\ ChannelInv /\ [Next]_vars => ChannelInv'
<1> SUFFICES ASSUME CountTyped, ChannelInv, [Next]_vars PROVE ChannelInv'
  OBVIOUS
<1>1. CASE UNCHANGED <<life, channel>>
  BY <1>1, LifeUnchanged
<1>2. ASSUME NEW h \in Holder, Counting(h) PROVE ChannelInv'
  <2>1. CASE CoAddRef(h)
    BY <2>1, HolderMoves DEF CoAddRef, Outside
  <2>2. CASE ExchangeBootstrap(h)
    BY <2>2, HolderMoves DEF ExchangeBootstrap, Outside
  <2>3. CASE ReleaseBootstrap(h)
    BY <2>3, HolderMoves DEF ReleaseBootstrap, Outside
  <2>4. CASE RelayServerRelease(h)
    BY <2>4, HolderMoves DEF RelayServerRelease, Outside
  <2> QED
    BY <1>2, <2>1, <2>2, <2>3, <2>4 DEF Counting
<1>3. ASSUME NEW p \in Plugin,
             \/ Activate(p) \/ CreateInstance(p) \/ BeginInitialize(p) \/ PluginCall(p)
             \/ Terminated(p) \/ ClientReleases(p) \/ DestroyPlugin(p)
      PROVE  ChannelInv'
  <2>1. p \in Holder /\ p \notin Channel
    BY HolderAssumption DEF Holder
  <2>2. CASE Activate(p) \/ CreateInstance(p) \/ DestroyPlugin(p)
    BY <2>1, <2>2, HolderMoves DEF Activate, CreateInstance, DestroyPlugin
  <2>3. CASE BeginInitialize(p) \/ PluginCall(p) \/ Terminated(p) \/ ClientReleases(p)
    BY <2>3, LifeUnchanged
       DEF BeginInitialize, PluginCall, CreateListener, StoreListener, DropListener,
           ReleaseListener, Terminated, ClientReleases, OnlyPlugin, countVars
  <2> QED
    BY <1>3, <2>2, <2>3
<1>4. ASSUME NEW c \in Channel, CheckTerminated(c) PROVE ChannelInv'
  BY <1>4, HolderMoves DEF CheckTerminated, Outside, Holder
<1>5. CASE LockServer
  <2>1. "lock" \in Holder /\ "lock" \notin Channel
    BY HolderAssumption DEF Holder
  <2> QED
    BY <1>5, <2>1, HolderMoves DEF LockServer
<1>6. CASE RunServer
  BY <1>6, LifeUnchanged
     DEF RunServer, AddBootstrapRef, RegisterClass, BootstrapTimesOut, ReleaseUnused, ShutDown,
         Revoke, countVars
<1>7. CASE RelayNext
  BY <1>2, <1>3, <1>4, <1>5, <1>6, <1>7, CallbackStep, DataCallStep DEF RelayNext, ChannelCall
<1> QED
  BY <1>1, <1>7 DEF Next, RunHelper, Helper, Serve, vars, relayVars, countVars

(* However Initialize, Terminated and the calls of the channels overlap, a *)
(* plugin that has been terminated owes mstsc nothing, a channel is not    *)
(* released while it is written to, and none is held for ever.             *)
THEOREM BalanceCorrect == Spec => []ReferencesBalance
<1>1. ASSUME CountInv, PluginInv, ChannelInv PROVE ReferencesBalance
  <2>1. ASSUME NEW p \in Plugin, plugin[p].terminated, plugin[p].initializing = "no",
               ~plugin[p].releasing
        PROVE  plugin[p].owned = {}
    BY <1>1, <2>1 DEF PluginInv, Owes, PluginRecord
  <2>2. ASSUME NEW c \in Channel, NEW k \in Call, At(c, k, "write") PROVE channel[c].refs > 0
    <3>1. k \in Borrowers(channel[c])
      BY <2>2 DEF At, Borrowers, Borrowing
    <3>2. Cardinality(Borrowers(channel[c])) \in Nat \ {0}
      BY <3>1, BorrowersFinite
    <3> QED
      BY <1>1, <3>2 DEF ChannelInv, Balanced
  <2>3. ASSUME NEW c \in Channel, life[c] \in {"dying", "gone"} PROVE channel[c].refs = 0
    BY <1>1, <2>3, UnusedHasNoRefs DEF ChannelInv, Outside
  <2> QED
    BY <2>1, <2>2, <2>3 DEF ReferencesBalance
<1>2. CountInv => CountTyped
  BY DEF CountInv
<1> QED
  BY <1>1, <1>2, CountInitially, CountNext, PluginInitially, PluginNext, ChannelInitially,
     ChannelNext, PTL DEF Spec
=============================================================================
