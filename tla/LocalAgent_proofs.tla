-------------------------- MODULE LocalAgent_proofs --------------------------
(***************************************************************************)
(* Proofs about LocalAgent, and about LocalAgentRollback that composes the *)
(* telemetry monitor and the rollback manager with it, for any number of   *)
(* artifacts and goroutines.                                               *)
(*                                                                         *)
(* NoOrphan is inductive with the type invariant.  SerialConsistent speaks *)
(* of artifacts nobody works on; its strengthening says what the records   *)
(* look like at every step of the one goroutine that does (Row).           *)
(***************************************************************************)
EXTENDS LocalAgentRollback, FiniteSetTheorems, TLAPS

(***************************************************************************)
(* What the records of artifact a are when its only goroutine is at n.     *)
(***************************************************************************)
Row(a, n) ==
    /\ n \in {"limit", "load"} =>
          a \notin loaded /\ a \notin inLoader /\ a \notin registered /\ timer[a] # "armed"
    /\ n = "store" =>
          a \notin loaded /\ a \in inLoader /\ a \notin registered /\ timer[a] # "armed"
    /\ n = "register" =>
          a \in loaded /\ a \in inLoader /\ a \notin registered /\ timer[a] # "armed"
    /\ n = "timer" => a \in loaded /\ a \in inLoader /\ a \in registered
    /\ n = "delete" => a \in loaded /\ a \in inLoader /\ a \in registered
    /\ n = "unregister" => a \notin loaded /\ a \in inLoader /\ a \in registered
    /\ n = "unload" => a \notin loaded /\ a \in inLoader /\ a \notin registered
    /\ n = "cancel" => a \notin loaded /\ a \notin inLoader /\ a \notin registered

SerialRow ==
    \A a \in Arts : a \notin overlap =>
       \A w \in Working(a) : (\A v \in Working(a) : v = w) /\ Row(a, at[w])

SerialInv == TypeOK /\ SerialRow /\ SerialConsistent

(***************************************************************************)
(* The type invariant: goroutines and records keep their ranges, and a     *)
(* goroutine has an artifact exactly while it is at work.                  *)
(***************************************************************************)
LEMMA InitTypeOK == Init => TypeOK
  BY DEF Init, TypeOK, Steps

LEMMA NextTypeOK == TypeOK /\ [Next]_vars => TypeOK'
<1> SUFFICES ASSUME TypeOK, [Next]_vars PROVE TypeOK'
  OBVIOUS
<1> USE LocalAgentAssumption DEF TypeOK, Steps, LoadSteps, UnloadSteps, maps
<1>1. ASSUME NEW w \in Workers, Proceed(w) PROVE TypeOK'
  BY <1>1 DEF Proceed, CheckLimit, LoadFails, LoadProgram, StoreProgram, RegisterProgram,
              SetTTLTimer, DeleteProgram, UnregisterProgram, UnloadProgram,
              CancelTTLTimer, GoOn, Finish
<1>2. ASSUME NEW w \in Workers, NEW a \in Arts,
             ProcessArtifact(w, a) \/ TimerFires(w, a) \/ CheckTTLExpiration(w, a)
                \/ HandleRollbackEvent(w, a)
      PROVE  TypeOK'
  BY <1>2 DEF ProcessArtifact, TimerFires, CheckTTLExpiration, HandleRollbackEvent, Start
<1>3. CASE UNCHANGED vars
  BY <1>3 DEF vars
<1> QED
  BY <1>1, <1>2, <1>3 DEF Next

THEOREM TypeInvariance == Spec => []TypeOK
  BY InitTypeOK, NextTypeOK, PTL DEF Spec

(***************************************************************************)
(* No interleaving of loads and unloads leaves a program in the loader     *)
(* that the agent neither records nor is about to record or unload.        *)
(***************************************************************************)
THEOREM NoProgramOrphaned == Spec => []NoOrphan
<1>1. Init => NoOrphan
  BY DEF Init, NoOrphan
<1>2. TypeOK /\ NoOrphan /\ [Next]_vars => NoOrphan'
  <2> SUFFICES ASSUME TypeOK, NoOrphan, [Next]_vars PROVE NoOrphan'
    OBVIOUS
  <2> USE LocalAgentAssumption DEF TypeOK, NoOrphan, maps
  <2>1. ASSUME NEW w \in Workers, CheckLimit(w) \/ LoadFails(w) PROVE NoOrphan'
    BY <2>1 DEF CheckLimit, LoadFails, GoOn, Finish
  <2>2. ASSUME NEW w \in Workers, LoadProgram(w) PROVE NoOrphan'
    BY <2>2 DEF LoadProgram, GoOn
  <2>3. ASSUME NEW w \in Workers, StoreProgram(w) PROVE NoOrphan'
    BY <2>3 DEF StoreProgram, GoOn
  <2>4. ASSUME NEW w \in Workers, RegisterProgram(w) \/ SetTTLTimer(w) PROVE NoOrphan'
    BY <2>4 DEF RegisterProgram, SetTTLTimer, GoOn, Finish
  <2>5. ASSUME NEW w \in Workers, DeleteProgram(w) PROVE NoOrphan'
    BY <2>5 DEF DeleteProgram, GoOn, Finish
  <2>6. ASSUME NEW w \in Workers, UnregisterProgram(w) PROVE NoOrphan'
    BY <2>6 DEF UnregisterProgram, GoOn
  <2>7. ASSUME NEW w \in Workers, UnloadProgram(w) PROVE NoOrphan'
    BY <2>7 DEF UnloadProgram, GoOn, Finish
  <2>8. ASSUME NEW w \in Workers, CancelTTLTimer(w) PROVE NoOrphan'
    BY <2>8 DEF CancelTTLTimer, Finish
  <2>9. ASSUME NEW w \in Workers, NEW a \in Arts,
               ProcessArtifact(w, a) \/ TimerFires(w, a) \/ CheckTTLExpiration(w, a)
                  \/ HandleRollbackEvent(w, a)
        PROVE  NoOrphan'
    BY <2>9 DEF ProcessArtifact, TimerFires, CheckTTLExpiration, HandleRollbackEvent, Start
  <2>10. CASE UNCHANGED vars
    BY <2>10 DEF vars
  <2> QED
    BY <2>1, <2>2, <2>3, <2>4, <2>5, <2>6, <2>7, <2>8, <2>9, <2>10 DEF Next, Proceed
<1> QED
  BY <1>1, <1>2, TypeInvariance, PTL DEF Spec

(***************************************************************************)
(* While loads and unloads of an artifact do not overlap, the agent, the   *)
(* loader, the rollback manager and the timers agree about it.             *)
(***************************************************************************)
THEOREM SerialRecordsAgree == Spec => []SerialConsistent
<1>1. Init => SerialRow /\ SerialConsistent
  BY LocalAgentAssumption DEF Init, SerialRow, SerialConsistent, Working
<1>2. SerialInv /\ [Next]_vars => (SerialRow /\ SerialConsistent)'
  <2> SUFFICES ASSUME SerialInv, [Next]_vars PROVE (SerialRow /\ SerialConsistent)'
    OBVIOUS
  <2> USE LocalAgentAssumption
      DEF SerialInv, SerialRow, SerialConsistent, Row, TypeOK, maps, Working
  <2>1. ASSUME NEW w \in Workers, CheckLimit(w) PROVE (SerialRow /\ SerialConsistent)'
    BY <2>1 DEF CheckLimit, GoOn, Finish
  <2>2. ASSUME NEW w \in Workers, LoadFails(w) PROVE (SerialRow /\ SerialConsistent)'
    BY <2>2 DEF LoadFails, Finish
  <2>3. ASSUME NEW w \in Workers, LoadProgram(w) PROVE (SerialRow /\ SerialConsistent)'
    BY <2>3 DEF LoadProgram, GoOn
  <2>4. ASSUME NEW w \in Workers, StoreProgram(w) PROVE (SerialRow /\ SerialConsistent)'
    BY <2>4 DEF StoreProgram, GoOn
  <2>5. ASSUME NEW w \in Workers, RegisterProgram(w) PROVE (SerialRow /\ SerialConsistent)'
    BY <2>5 DEF RegisterProgram, GoOn
  <2>6. ASSUME NEW w \in Workers, SetTTLTimer(w) PROVE (SerialRow /\ SerialConsistent)'
    BY <2>6 DEF SetTTLTimer, Finish
  <2>7. ASSUME NEW w \in Workers, DeleteProgram(w) PROVE (SerialRow /\ SerialConsistent)'
    BY <2>7 DEF DeleteProgram, GoOn, Finish
  <2>8. ASSUME NEW w \in Workers, UnregisterProgram(w) PROVE (SerialRow /\ SerialConsistent)'
    BY <2>8 DEF UnregisterProgram, GoOn
  <2>9. ASSUME NEW w \in Workers, UnloadProgram(w) PROVE (SerialRow /\ SerialConsistent)'
    BY <2>9 DEF UnloadProgram, GoOn, Finish
  <2>10. ASSUME NEW w \in Workers, CancelTTLTimer(w) PROVE (SerialRow /\ SerialConsistent)'
    BY <2>10 DEF CancelTTLTimer, Finish
  <2>11. ASSUME NEW w \in Workers, NEW a \in Arts, ProcessArtifact(w, a)
         PROVE  (SerialRow /\ SerialConsistent)'
    BY <2>11 DEF ProcessArtifact, Start
  <2>12. ASSUME NEW w \in Workers, NEW a \in Arts, TimerFires(w, a)
         PROVE  (SerialRow /\ SerialConsistent)'
    BY <2>12 DEF TimerFires, Start
  <2>13. ASSUME NEW w \in Workers, NEW a \in Arts, CheckTTLExpiration(w, a)
         PROVE  (SerialRow /\ SerialConsistent)'
    BY <2>13 DEF CheckTTLExpiration, Start
  <2>14. ASSUME NEW w \in Workers, NEW a \in Arts, HandleRollbackEvent(w, a)
         PROVE  (SerialRow /\ SerialConsistent)'
    BY <2>14 DEF HandleRollbackEvent, Start
  <2>15. CASE UNCHANGED vars
    BY <2>15 DEF vars
  <2> QED
    BY <2>1, <2>2, <2>3, <2>4, <2>5, <2>6, <2>7, <2>8, <2>9, <2>10, <2>11, <2>12, <2>13,
       <2>14, <2>15 DEF Next, Proceed
<1> QED
  BY <1>1, <1>2, TypeInvariance, PTL DEF Spec, SerialInv
(***************************************************************************)
(* However loads, timers and unloads interleave (agent.go), no program runs*)
(* unknown to the agent, and the four records of an artifact agree unless two*)
(* goroutines worked on it at once.                                        *)
(***************************************************************************)
THEOREM ProgramsAccounted == Spec => []ProgramsSound
  BY TypeInvariance, NoProgramOrphaned, SerialRecordsAgree, PTL DEF ProgramsSound

-----------------------------------------------------------------------------
(***************************************************************************)
(* How far the limit is overrun.  A goroutine that has passed the test     *)
(* counts as if its program were loaded already; the last one to pass saw  *)
(* fewer than MaxPrograms, and no more than all of them have one in hand.  *)
(***************************************************************************)
InHand == {w \in Workers : at[w] \in {"load", "store"}}

HandsBounded ==
    /\ IsFiniteSet(loaded)
    /\ Cardinality(loaded) + Cardinality(InHand) <= MaxPrograms + Cardinality(Workers) - 1

LimitInv == MaxPrograms > 0 => HandsBounded

LEMMA Counts ==
  TypeOK /\ IsFiniteSet(loaded) =>
     /\ IsFiniteSet(InHand) /\ Cardinality(InHand) <= Cardinality(Workers)
     /\ Cardinality(InHand) \in Nat /\ Cardinality(Workers) \in Nat /\ Cardinality(loaded) \in Nat
<1> SUFFICES ASSUME IsFiniteSet(loaded)
             PROVE  /\ IsFiniteSet(InHand) /\ Cardinality(InHand) <= Cardinality(Workers)
                    /\ Cardinality(InHand) \in Nat /\ Cardinality(Workers) \in Nat
                    /\ Cardinality(loaded) \in Nat
  OBVIOUS
<1>1. InHand \in SUBSET Workers
  BY DEF InHand
<1>2. IsFiniteSet(InHand) /\ Cardinality(InHand) <= Cardinality(Workers)
  BY <1>1, WorkersAssumption, FS_Subset
<1> QED
  BY <1>2, WorkersAssumption, FS_CardinalityType

(***************************************************************************)
(* A step after which no goroutine more has a program in hand, and nothing *)
(* more is loaded, keeps the bound.                                        *)
(***************************************************************************)
LEMMA HandsShrink ==
  ASSUME TypeOK, HandsBounded, InHand' \subseteq InHand, loaded' \subseteq loaded
  PROVE  HandsBounded'
<1>1. IsFiniteSet(InHand) /\ Cardinality(InHand) \in Nat /\ Cardinality(loaded) \in Nat
        /\ Cardinality(Workers) \in Nat
  BY Counts DEF HandsBounded
<1>2. IsFiniteSet(loaded') /\ Cardinality(loaded') <= Cardinality(loaded)
  BY FS_Subset DEF HandsBounded
<1>3. IsFiniteSet(InHand') /\ Cardinality(InHand') <= Cardinality(InHand)
  BY <1>1, FS_Subset
<1>4. Cardinality(loaded') \in Nat /\ Cardinality(InHand') \in Nat
  BY <1>2, <1>3, FS_CardinalityType
<1> QED
  BY <1>1, <1>2, <1>3, <1>4, LocalAgentAssumption DEF HandsBounded

LEMMA NextHands == TypeOK /\ TypeOK' /\ HandsBounded /\ [Next]_vars => HandsBounded'
<1> SUFFICES ASSUME TypeOK, TypeOK', HandsBounded, [Next]_vars PROVE HandsBounded'
  OBVIOUS
<1>1. ASSUME NEW w \in Workers, CheckLimit(w) PROVE HandsBounded'
  <2>1. CASE Cardinality(loaded) < MaxPrograms
    <3>1. loaded' = loaded /\ IsFiniteSet(loaded)
      BY <1>1 DEF CheckLimit, maps, HandsBounded
    <3>2. /\ Cardinality(InHand') <= Cardinality(Workers) /\ Cardinality(InHand') \in Nat
          /\ Cardinality(Workers) \in Nat
      <4>1. InHand' \in SUBSET Workers
        BY DEF InHand
      <4> QED
        BY <4>1, WorkersAssumption, FS_Subset, FS_CardinalityType
    <3>3. Cardinality(loaded) \in Nat
      BY <3>1, FS_CardinalityType
    <3> QED
      BY <2>1, <3>1, <3>2, <3>3, LocalAgentAssumption DEF HandsBounded
  <2>2. CASE ~(Cardinality(loaded) < MaxPrograms)
    <3>1. loaded' = loaded /\ at' = [at EXCEPT ![w] = "idle"]
      BY <1>1, <2>2 DEF CheckLimit, maps, Finish
    <3>2. InHand' \subseteq InHand
      BY <3>1 DEF InHand, TypeOK
    <3> QED
      BY <3>1, <3>2, HandsShrink
  <2> QED
    BY <2>1, <2>2
<1>2. ASSUME NEW w \in Workers, StoreProgram(w) PROVE HandsBounded'
  <2>1. loaded' = loaded \union {art[w]} /\ at[w] = "store" /\ at' = [at EXCEPT ![w] = "register"]
    BY <1>2 DEF StoreProgram, GoOn
  <2>2. w \in InHand /\ InHand' = InHand \ {w}
    BY <2>1 DEF InHand, TypeOK
  <2>3. /\ IsFiniteSet(InHand) /\ Cardinality(InHand) \in Nat /\ Cardinality(loaded) \in Nat
        /\ Cardinality(Workers) \in Nat
    BY Counts DEF HandsBounded
  <2>4. Cardinality(InHand') = Cardinality(InHand) - 1
    BY <2>2, <2>3, FS_RemoveElement
  <2>5. /\ IsFiniteSet(loaded') /\ Cardinality(loaded') \in Nat
        /\ Cardinality(loaded') <= Cardinality(loaded) + 1
    <3>1. IsFiniteSet(loaded)
      BY DEF HandsBounded
    <3>2. /\ IsFiniteSet(loaded')
          /\ Cardinality(loaded') =
                IF art[w] \in loaded THEN Cardinality(loaded) ELSE Cardinality(loaded) + 1
      BY <2>1, <3>1, FS_AddElement
    <3> QED
      BY <2>3, <3>2
  <2> QED
    BY <2>3, <2>4, <2>5, LocalAgentAssumption DEF HandsBounded
<1>3. ASSUME NEW w \in Workers,
             \/ LoadFails(w) \/ LoadProgram(w) \/ RegisterProgram(w) \/ SetTTLTimer(w)
             \/ DeleteProgram(w) \/ UnregisterProgram(w) \/ UnloadProgram(w) \/ CancelTTLTimer(w)
      PROVE  HandsBounded'
  <2>1. loaded' \subseteq loaded
    BY <1>3
    DEF LoadFails, LoadProgram, RegisterProgram, SetTTLTimer, DeleteProgram, UnregisterProgram,
        UnloadProgram, CancelTTLTimer, maps
  <2>2. InHand' \subseteq InHand
    BY <1>3
    DEF LoadFails, LoadProgram, RegisterProgram, SetTTLTimer, DeleteProgram, UnregisterProgram,
        UnloadProgram, CancelTTLTimer, GoOn, Finish, InHand, TypeOK
  <2> QED
    BY <2>1, <2>2, HandsShrink
<1>4. ASSUME NEW w \in Workers, NEW a \in Arts,
             ProcessArtifact(w, a) \/ TimerFires(w, a) \/ CheckTTLExpiration(w, a)
                \/ HandleRollbackEvent(w, a)
      PROVE  HandsBounded'
  <2>1. loaded' = loaded
    BY <1>4 DEF ProcessArtifact, TimerFires, CheckTTLExpiration, HandleRollbackEvent, maps
  <2>2. InHand' \subseteq InHand
    BY <1>4
    DEF ProcessArtifact, TimerFires, CheckTTLExpiration, HandleRollbackEvent, Start, InHand, TypeOK
  <2> QED
    BY <2>1, <2>2, HandsShrink
<1>5. CASE UNCHANGED vars
  <2>1. loaded' = loaded /\ InHand' = InHand
    BY <1>5 DEF vars, maps, InHand
  <2> QED
    BY <2>1, HandsShrink
<1> QED
  BY <1>1, <1>2, <1>3, <1>4, <1>5 DEF Next, Proceed

(***************************************************************************)
(* AGENT_MAX_PROGRAMS is tested before the download and the program stored *)
(* after it (agent.go); what the limit is exceeded by is less than the     *)
(* number of goroutines that run at once.                                  *)
(***************************************************************************)
THEOREM LimitOverrunBounded == Spec => []OverrunBounded
<1>1. Init => LimitInv
  <2> SUFFICES ASSUME Init, MaxPrograms > 0 PROVE HandsBounded
    BY DEF LimitInv
  <2>1. loaded = {} /\ InHand = {}
    BY DEF Init, InHand
  <2>2. IsFiniteSet({}) /\ Cardinality({}) = 0 /\ Cardinality(Workers) \in Nat
    BY FS_EmptySet, FS_CardinalityType, WorkersAssumption
  <2> QED
    BY <2>1, <2>2, LocalAgentAssumption DEF HandsBounded
<1>2. TypeOK /\ LimitInv => OverrunBounded
  <2> SUFFICES ASSUME TypeOK, HandsBounded PROVE OverrunBounded
    BY DEF OverrunBounded, LimitInv
  <2>1. Cardinality(InHand) \in Nat /\ Cardinality(Workers) \in Nat /\ Cardinality(loaded) \in Nat
    BY Counts DEF HandsBounded
  <2> QED
    BY <2>1, LocalAgentAssumption DEF HandsBounded, OverrunBounded
<1>3. TypeOK /\ TypeOK' /\ LimitInv /\ [Next]_vars => LimitInv'
  BY NextHands DEF LimitInv
<1> QED
  BY <1>1, <1>2, <1>3, TypeInvariance, PTL DEF Spec
-----------------------------------------------------------------------------
(***************************************************************************)
(* The agent with its telemetry monitor and its rollback manager.  A step  *)
(* of theirs is a step on the program records, or leaves them alone; what  *)
(* is in the queue is an artifact, because a report names one.             *)
(***************************************************************************)
LEMMA RollbackSteps == RollbackTypeOK /\ [RollbackNext]_allVars => [Next]_vars
<1> SUFFICES ASSUME RollbackTypeOK, RollbackNext PROVE [Next]_vars
  BY DEF allVars, vars
<1>1. ASSUME NEW w \in Workers, ProgramStep(w) PROVE Next
  BY <1>1 DEF ProgramStep, Next
<1>2. ASSUME NEW w \in Workers, NEW a \in Arts, ProgramStart(w, a) PROVE Next
  BY <1>2 DEF ProgramStart, Next
<1>3. ASSUME NEW w \in Workers, ProcessRollbackEvent(w) PROVE [Next]_vars
  <2>1. queue \in Seq(Arts) /\ queue # << >>
    BY <1>3 DEF ProcessRollbackEvent, RollbackTypeOK
  <2>2. Head(queue) \in Arts
    BY <2>1
  <2> QED
    BY <1>3, <2>2 DEF ProcessRollbackEvent, Next
<1>4. ASSUME NEW u \in Updaters, Update(u) PROVE UNCHANGED vars
  BY <1>4 DEF Update, UpdateTrigger, UpdateManager
<1>5. ASSUME NEW u \in Updaters, NEW a \in Arts,
             (\E report \in Reports : HandleTelemetryEvent(u, a, report)) \/ HandleTelemetryThreshold(u, a)
      PROVE  UNCHANGED vars
  BY <1>5 DEF HandleTelemetryEvent, HandleTelemetryThreshold
<1>6. ASSUME NEW a \in Arts, MonitorTick(a) \/ ManagerTick(a) \/ HandleOrchestratorSignal(a)
      PROVE  UNCHANGED vars
  BY <1>6 DEF MonitorTick, ManagerTick, HandleOrchestratorSignal
<1> QED
  BY <1>1, <1>2, <1>3, <1>4, <1>5, <1>6 DEF RollbackNext

(* The queue of rollback events keeps its bound, whoever sends.            *)
LEMMA QueueKept ==
  ASSUME RollbackTypeOK, NEW a, a \in Arts \/ a \in registered
  PROVE  /\ TriggerRollback(a) => queue' \in Seq(Arts) /\ Len(queue') <= MaxQueue
         /\ RequestRollback(a) => queue' \in Seq(Arts) /\ Len(queue') <= MaxQueue
<1>1. queue \in Seq(Arts) /\ Len(queue) <= MaxQueue /\ Len(queue) \in Nat /\ MaxQueue \in Nat /\ a \in Arts
  BY RollbackAssumption DEF RollbackTypeOK, TypeOK
<1>2. Append(queue, a) \in Seq(Arts) /\ Len(Append(queue, a)) = Len(queue) + 1
  BY <1>1
<1>3. TriggerRollback(a) => queue' \in Seq(Arts) /\ Len(queue') <= MaxQueue
  BY <1>1, <1>2 DEF TriggerRollback
<1> QED
  BY <1>1, <1>3 DEF RequestRollback

Kept == /\ queue' \in Seq(Arts) /\ Len(queue') <= MaxQueue
        /\ mon' \in [Arts -> Reports \union {"none"}] /\ tel' \in [Arts -> Reports]
        /\ calls' \in [Arts -> 0 .. MaxCalls] /\ reports' \in 0 .. MaxReports
        /\ upd' \in [Updaters -> Updating]

LEMMA RollbackTypes == RollbackTypeOK /\ [RollbackNext]_allVars => RollbackTypeOK'
<1> SUFFICES ASSUME RollbackTypeOK, [RollbackNext]_allVars PROVE RollbackTypeOK'
  OBVIOUS
<1>1. /\ queue \in Seq(Arts) /\ Len(queue) <= MaxQueue
      /\ mon \in [Arts -> Reports \union {"none"}] /\ tel \in [Arts -> Reports]
      /\ calls \in [Arts -> 0 .. MaxCalls] /\ reports \in 0 .. MaxReports
      /\ upd \in [Updaters -> Updating]
  BY DEF RollbackTypeOK
<1>2. /\ MaxCalls \in Nat \ {0} /\ MaxQueue \in Nat \ {0} /\ MaxReports \in Nat
      /\ registered \subseteq Arts
  BY RollbackAssumption DEF RollbackTypeOK, TypeOK
<1>3. TypeOK'
  BY RollbackSteps, NextTypeOK DEF RollbackTypeOK
<1>4. ASSUME NEW w \in Workers, ProgramStep(w) PROVE Kept
  BY <1>1, <1>4 DEF ProgramStep, Kept, Reports
<1>5. ASSUME NEW w \in Workers, NEW a \in Arts, ProgramStart(w, a) PROVE Kept
  BY <1>1, <1>5 DEF ProgramStart, rollbackVars, Kept
<1>6. ASSUME NEW w \in Workers, ProcessRollbackEvent(w) PROVE Kept
  <2>1. queue # << >> /\ queue' = Tail(queue)
    BY <1>6 DEF ProcessRollbackEvent
  <2>2. queue' \in Seq(Arts) /\ Len(queue') <= MaxQueue
    BY <1>1, <1>2, <2>1
  <2> QED
    BY <1>1, <1>6, <2>2 DEF ProcessRollbackEvent, Kept
<1>7. ASSUME NEW a, calls' = [calls EXCEPT ![a] = IF @ < MaxCalls THEN @ + 1 ELSE @]
      PROVE  calls' \in [Arts -> 0 .. MaxCalls]
  <2>1. CASE a \in Arts
    <3>1. calls[a] \in 0..MaxCalls
      BY <1>1, <2>1
    <3>2. PICK c : c = IF calls[a] < MaxCalls THEN calls[a] + 1 ELSE calls[a]
      OBVIOUS
    <3>3. c \in 0..MaxCalls /\ calls' = [calls EXCEPT ![a] = c]
      BY <1>2, <1>7, <3>1, <3>2
    <3> QED
      BY <1>1, <3>3
  <2>2. CASE a \notin Arts
    BY <1>1, <1>7, <2>2
  <2> QED
    BY <2>1, <2>2
<1>8. ASSUME NEW u \in Updaters, Update(u) PROVE Kept
  <2>1. PICK a : a = upd[u].art
    OBVIOUS
  <2>2. upd[u] \in Updating
    BY <1>1
  <2>3. CASE UpdateTrigger(u)
    <3>1. MonitorTrigger(a) /\ upd' = [upd EXCEPT ![u].at = "manager"] /\ UNCHANGED <<mon, tel, reports>>
      BY <2>1, <2>3 DEF UpdateTrigger
    <3>2. calls' \in [Arts -> 0 .. MaxCalls]
      BY <1>7, <3>1 DEF MonitorTrigger
    <3>3. queue' \in Seq(Arts) /\ Len(queue') <= MaxQueue
      <4>1. RequestRollback(a)
        BY <3>1 DEF MonitorTrigger
      <4>2. CASE a \in registered
        BY <4>1, <4>2, QueueKept
      <4>3. CASE a \notin registered
        BY <1>1, <4>1, <4>3 DEF RequestRollback
      <4> QED
        BY <4>2, <4>3
    <3>4. upd' \in [Updaters -> Updating]
      BY <1>1, <2>2, <3>1 DEF Updating
    <3> QED
      BY <1>1, <3>1, <3>2, <3>3, <3>4 DEF Kept
  <2>4. CASE UpdateManager(u)
    <3>1. /\ tel' = IF a \in registered THEN [tel EXCEPT ![a] = upd[u].report] ELSE tel
          /\ IF upd[u].report = "bad" THEN RequestRollback(a) ELSE UNCHANGED queue
          /\ upd' = [upd EXCEPT ![u] = NotUpdating]
          /\ UNCHANGED <<mon, calls, reports>>
      BY <2>1, <2>4 DEF UpdateManager
    <3>2. queue' \in Seq(Arts) /\ Len(queue') <= MaxQueue
      <4>1. CASE a \in registered
        BY <1>1, <3>1, <4>1, QueueKept
      <4>2. CASE a \notin registered
        BY <1>1, <3>1, <4>2 DEF RequestRollback
      <4> QED
        BY <4>1, <4>2
    <3>3. NotUpdating \in Updating
      BY DEF Updating, NotUpdating, Reports
    <3>4. tel' \in [Arts -> Reports]
      BY <1>1, <2>2, <3>1 DEF Updating
    <3>5. upd' \in [Updaters -> Updating]
      BY <1>1, <3>1, <3>3
    <3> QED
      BY <1>1, <3>1, <3>2, <3>4, <3>5 DEF Kept
  <2> QED
    BY <1>8, <2>3, <2>4 DEF Update
<1>9. ASSUME NEW u \in Updaters, NEW a \in Arts, NEW report \in Reports, BeginUpdate(u, a, report)
      PROVE  /\ mon' \in [Arts -> Reports \union {"none"}]
             /\ upd' \in [Updaters -> Updating]
  BY <1>1, <1>9 DEF BeginUpdate, Updating
<1>10. ASSUME NEW u \in Updaters, NEW a \in Arts, NEW report \in Reports,
              HandleTelemetryEvent(u, a, report)
       PROVE  Kept
  BY <1>1, <1>2, <1>9, <1>10 DEF HandleTelemetryEvent, Kept
<1>11. ASSUME NEW u \in Updaters, NEW a \in Arts, HandleTelemetryThreshold(u, a) PROVE Kept
  <2>1. calls' \in [Arts -> 0 .. MaxCalls]
    BY <1>1, <1>2, <1>11 DEF HandleTelemetryThreshold
  <2>2. "bad" \in Reports
    BY DEF Reports
  <2> QED
    BY <1>1, <1>9, <1>11, <2>1, <2>2 DEF HandleTelemetryThreshold, Kept
<1>12. ASSUME NEW a \in Arts, MonitorTick(a) PROVE Kept
  BY <1>1, <1>7, <1>12, QueueKept DEF MonitorTick, MonitorTrigger, Kept
<1>13. ASSUME NEW a \in Arts, ManagerTick(a) \/ HandleOrchestratorSignal(a) PROVE Kept
  BY <1>1, <1>2, <1>13, QueueKept DEF ManagerTick, HandleOrchestratorSignal, Kept
<1>14. ASSUME UNCHANGED allVars PROVE Kept
  BY <1>1, <1>14 DEF allVars, rollbackVars, Kept
<1>15. Kept
  BY <1>4, <1>5, <1>6, <1>8, <1>10, <1>11, <1>12, <1>13, <1>14 DEF RollbackNext
<1> QED
  BY <1>3, <1>15 DEF RollbackTypeOK, Kept

LEMMA RollbackTyped == RollbackSpec => []RollbackTypeOK
<1>1. RollbackInit => RollbackTypeOK
  <2> SUFFICES ASSUME RollbackInit PROVE RollbackTypeOK
    OBVIOUS
  <2>1. NotUpdating \in Updating
    BY DEF Updating, NotUpdating, Reports
  <2> QED
    BY <2>1, InitTypeOK, RollbackAssumption DEF RollbackInit, RollbackTypeOK, Reports
<1> QED
  BY <1>1, RollbackTypes, PTL DEF RollbackSpec

(***************************************************************************)
(* Composition: with the monitor, the manager, its queue and the callbacks *)
(* around them, the loads and unloads still behave as LocalAgent says,     *)
(* and the queue keeps its bound whoever sends at once (triggerRollback,   *)
(* processRollbackEvent).                                                  *)
(***************************************************************************)
THEOREM RollbackImplementsAgent == RollbackSpec => Spec /\ []RollbackTypeOK
<1>1. RollbackInit => Init
  BY DEF RollbackInit
<1> QED
  BY <1>1, RollbackSteps, RollbackTyped, PTL DEF RollbackSpec, Spec

(* So what holds of loads and unloads holds with telemetry-driven rollback: *)
(* no program runs unknown to the agent, its records agree about an        *)
(* artifact on which no two goroutines have met, and the limit is overrun  *)
(* by the goroutines at work at most (handleRollbackEvent).                *)
THEOREM RollbackKeepsPrograms == RollbackSpec => [](ProgramsSound /\ OverrunBounded)
  BY RollbackImplementsAgent, ProgramsAccounted, LimitOverrunBounded, PTL
=============================================================================
