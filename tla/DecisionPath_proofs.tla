------------------------ MODULE DecisionPath_proofs ------------------------
(***************************************************************************)
(* Proofs about the components between a finding and a deployed control:   *)
(* the orchestrator's rollback services, its build of programs, the        *)
(* decision service's plan pipeline, the agent harness of actions-api, the *)
(* configuration managers, the decision guardrails and the segmenter, for  *)
(* any number of operations, handlers, plans, controls, runs, keys,        *)
(* labels, targets, hosts and flows.                                       *)
(***************************************************************************)
EXTENDS OrchestratorRollback, OrchestratorBuild, DecisionPlans, PlatformAgents, ConfigService,
        Guardrails, Segmenter, Filtering_proofs, FiniteSetTheorems, WellFoundedInduction, TLAPS

-----------------------------------------------------------------------------
(***************************************************************************)
(* The rollback services.  An operation is one record, written by its      *)
(* goroutines, and by those of another operation only if the two share     *)
(* their ID.                                                               *)
(***************************************************************************)
Phases == {"spawned", "refused", "running", "ending", "done"}
TargetStates == {"pending", "rolling_back"} \cup Settled
Operation ==
    [service : {"manager", "handler"}, id : OpIds, strategy : Strategies,
     status : {"initiated", "in_progress"} \cup Settled, ended : BOOLEAN,
     target : Seq(TargetStates), phase : Phases]

(***************************************************************************)
(* The targets of an operation, whoever shares its ID: untouched before it *)
(* runs and settled after it, one batch after the other.                   *)
(***************************************************************************)
TargetsOK(x) ==
    /\ x.phase \in {"spawned", "refused"} \/ x.strategy = "canary" =>
          \A i \in DOMAIN x.target : x.target[i] = "pending"
    /\ x.phase \in {"ending", "done"} /\ x.strategy # "canary" =>
          \A i \in DOMAIN x.target : x.target[i] \in Settled
    /\ x.strategy = "gradual" =>
          \A i, j \in DOMAIN x.target :
             BatchOf(j) < BatchOf(i) /\ x.target[i] # "pending" => x.target[j] \in Settled

(***************************************************************************)
(* The record of an operation with an ID of its own follows its goroutine. *)
(***************************************************************************)
RecordOK(x) ==
    /\ x.phase \in {"spawned", "refused"} => x.status = "initiated"
    /\ x.phase = "running" => x.status = "in_progress"
    /\ x.phase \in {"ending", "done"} => x.status \in Settled
    /\ x.status = "completed" => \A i \in DOMAIN x.target : x.target[i] = "completed"
    /\ x.ended <=> x.phase = "done"

Listing == \A k \in DOMAIN listed : listed[k] \in DOMAIN ops /\ Slot(listed[k]) = k
SharedIsReused ==
    \A o, p \in DOMAIN ops : o # p /\ Slot(o) = Slot(p) => Slot(o) \in reused
OwnFollowed ==
    \A o \in DOMAIN ops : OwnId(o) =>
       RecordOK(ops[o])
       /\ (ops[o].phase # "done" => Slot(o) \in DOMAIN listed /\ listed[Slot(o)] = o)

RollbackInv ==
    /\ ops \in Seq(Operation)
    /\ Listing
    /\ SharedIsReused
    /\ \A o \in DOMAIN ops : TargetsOK(ops[o])
    /\ OwnFollowed

LEMMA RollbackInvSound == RollbackInv => RollbacksSound
<1> SUFFICES ASSUME RollbackInv PROVE RollbacksSound
  OBVIOUS
<1>1. \A o \in DOMAIN ops : ops[o] \in Operation
  BY DEF RollbackInv
<1>2. DoneIsTerminal
  BY DEF RollbackInv, OwnFollowed, RecordOK, DoneIsTerminal
<1>3. CompletedMeansAll
  BY DEF RollbackInv, OwnFollowed, RecordOK, CompletedMeansAll
<1>4. BatchesInOrder
  BY DEF RollbackInv, TargetsOK, BatchesInOrder
<1>5. RunningIsListed
  BY DEF RollbackInv, OwnFollowed, RunningIsListed
<1> QED
  BY <1>2, <1>3, <1>4, <1>5 DEF RollbacksSound

(***************************************************************************)
(* What a write to the operations whom leaves and changes.                 *)
(***************************************************************************)
LEMMA StatusSet ==
  ASSUME NEW all \in Seq(Operation), NEW whom \in SUBSET (DOMAIN all),
         NEW s \in {"initiated", "in_progress"} \cup Settled
  PROVE  /\ SetField(all, whom, "status", s) \in Seq(Operation)
         /\ DOMAIN SetField(all, whom, "status", s) = DOMAIN all
         /\ \A p \in DOMAIN all \ whom : SetField(all, whom, "status", s)[p] = all[p]
         /\ \A p \in whom : SetField(all, whom, "status", s)[p] = [all[p] EXCEPT !.status = s]
<1>1. \A p \in DOMAIN all : all[p] \in Operation
  OBVIOUS
<1>2. \A p \in DOMAIN all : [all[p] EXCEPT !.status = s] \in Operation
  BY <1>1 DEF Operation
<1> QED
  BY <1>1, <1>2 DEF SetField

LEMMA EndedSet ==
  ASSUME NEW all \in Seq(Operation), NEW whom \in SUBSET (DOMAIN all), NEW v \in BOOLEAN
  PROVE  /\ SetField(all, whom, "ended", v) \in Seq(Operation)
         /\ DOMAIN SetField(all, whom, "ended", v) = DOMAIN all
         /\ \A p \in DOMAIN all \ whom : SetField(all, whom, "ended", v)[p] = all[p]
         /\ \A p \in whom : SetField(all, whom, "ended", v)[p] = [all[p] EXCEPT !.ended = v]
<1>1. \A p \in DOMAIN all : all[p] \in Operation
  OBVIOUS
<1>2. \A p \in DOMAIN all : [all[p] EXCEPT !.ended = v] \in Operation
  BY <1>1 DEF Operation
<1> QED
  BY <1>1, <1>2 DEF SetField

LEMMA PhaseSet ==
  ASSUME NEW all \in Seq(Operation), NEW o \in DOMAIN all, NEW n \in Phases
  PROVE  /\ SetPhase(all, o, n) \in Seq(Operation)
         /\ DOMAIN SetPhase(all, o, n) = DOMAIN all
         /\ \A p \in DOMAIN all \ {o} : SetPhase(all, o, n)[p] = all[p]
         /\ SetPhase(all, o, n)[o] = [all[o] EXCEPT !.phase = n]
<1>1. all[o] \in Operation
  OBVIOUS
<1>2. [all[o] EXCEPT !.phase = n] \in Operation
  BY <1>1 DEF Operation
<1> QED
  BY <1>2 DEF SetPhase

(***************************************************************************)
(* A goroutine of operation o: whatever it writes to is o or shares the ID *)
(* with o.                                                                 *)
(***************************************************************************)
SameBut(x, y) == x.service = y.service /\ x.id = y.id /\ x.strategy = y.strategy

LEMMA GoroutineStep ==
  ASSUME RollbackInv, NEW o \in DOMAIN ops, listed' = listed, reused' = reused,
         ops' \in Seq(Operation), DOMAIN ops' = DOMAIN ops,
         \A p \in DOMAIN ops : SameBut(ops'[p], ops[p]) /\ TargetsOK(ops'[p]),
         \A p \in DOMAIN ops : p # o /\ Slot(p) # Slot(o) => ops'[p] = ops[p],
         OwnId(o) => RecordOK(ops'[o]),
         ops[o].phase = "done" => ops'[o].phase = "done"
  PROVE  RollbackInv'
<1>1. \A p \in DOMAIN ops : Slot(p)' = Slot(p) /\ (OwnId(p)' <=> OwnId(p))
  BY DEF SameBut, Slot, OwnId
<1>2. Listing'
  BY <1>1 DEF RollbackInv, Listing
<1>3. SharedIsReused'
  BY <1>1 DEF RollbackInv, SharedIsReused
<1>4. OwnFollowed'
  <2> SUFFICES ASSUME NEW p \in DOMAIN ops, OwnId(p)
               PROVE  RecordOK(ops'[p]) /\ (ops'[p].phase # "done" =>
                                              Slot(p) \in DOMAIN listed /\ listed[Slot(p)] = p)
    BY <1>1 DEF OwnFollowed
  <2>1. CASE p = o
    BY <2>1 DEF RollbackInv, OwnFollowed
  <2>2. CASE p # o
    <3>1. Slot(p) # Slot(o)
      BY <2>2 DEF RollbackInv, SharedIsReused, OwnId
    <3> QED
      BY <2>2, <3>1 DEF RollbackInv, OwnFollowed
  <2> QED
    BY <2>1, <2>2
<1> QED
  BY <1>2, <1>3, <1>4 DEF RollbackInv

(***************************************************************************)
(* The table leads to the operation or to one with the same ID; an ID of   *)
(* its own leads to it alone.                                              *)
(***************************************************************************)
LEMMA Reach ==
  ASSUME RollbackInv, NEW o \in DOMAIN ops
  PROVE  /\ ByTable(o) \in SUBSET (DOMAIN ops) /\ Reported(o) \in SUBSET (DOMAIN ops)
         /\ \A p \in ByTable(o) \cup Reported(o) : Slot(p) = Slot(o)
         /\ OwnId(o) /\ ops[o].phase # "done" => ByTable(o) = {o} /\ Reported(o) = {o}
  BY DEF RollbackInv, Listing, OwnFollowed, ByTable, Reported

LEMMA WriteStep ==
  ASSUME RollbackInv, NEW o \in DOMAIN ops, listed' = listed, reused' = reused,
         NEW S \in Seq(Operation), DOMAIN S = DOMAIN ops, NEW whom \in SUBSET (DOMAIN ops),
         \A p \in whom : Slot(p) = Slot(o),
         \A p \in DOMAIN ops \ whom : S[p] = ops[p],
         \A p \in whom : /\ SameBut(S[p], ops[p])
                         /\ S[p].target = ops[p].target /\ S[p].phase = ops[p].phase,
         NEW n \in Phases, ops' = SetPhase(S, o, n), ops[o].phase # "done",
         TargetsOK([S[o] EXCEPT !.phase = n]),
         OwnId(o) => RecordOK([S[o] EXCEPT !.phase = n])
  PROVE  RollbackInv'
<1> DEFINE x == [S[o] EXCEPT !.phase = n]
<1>1. /\ ops' \in Seq(Operation) /\ DOMAIN ops' = DOMAIN ops
      /\ \A p \in DOMAIN ops \ {o} : ops'[p] = S[p]
      /\ ops'[o] = x
  BY PhaseSet
<1>2. S[o] \in Operation /\ \A p \in DOMAIN ops : TargetsOK(ops[p])
  BY DEF RollbackInv
<1>3. SameBut(x, S[o])
  BY <1>2 DEF SameBut, Operation
<1> HIDE DEF x
<1>4. ASSUME NEW p \in DOMAIN ops PROVE SameBut(ops'[p], ops[p]) /\ TargetsOK(ops'[p])
  <2>1. SameBut(S[p], ops[p]) /\ S[p].target = ops[p].target /\ S[p].phase = ops[p].phase
    BY DEF SameBut
  <2>2. CASE p = o
    BY <1>1, <1>3, <2>1, <2>2 DEF SameBut, x
  <2>3. CASE p # o
    <3>1. ops'[p] = S[p]
      BY <1>1, <2>3
    <3> QED
      BY <1>2, <2>1, <3>1 DEF SameBut, TargetsOK
  <2> QED
    BY <2>2, <2>3
<1>5. \A p \in DOMAIN ops : p # o /\ Slot(p) # Slot(o) => ops'[p] = ops[p]
  BY <1>1
<1>6. OwnId(o) => RecordOK(ops'[o])
  BY <1>1 DEF x
<1> QED
  BY <1>1, <1>4, <1>5, <1>6, GoroutineStep

LEMMA TargetStep ==
  ASSUME RollbackInv, NEW o \in DOMAIN ops, listed' = listed, reused' = reused,
         NEW i \in DOMAIN ops[o].target, NEW v \in TargetStates,
         ops' = [ops EXCEPT ![o].target[i] = v],
         ops[o].phase = "running" /\ ops[o].strategy # "canary",
         ops[o].strategy = "gradual" =>
            \A j \in DOMAIN ops[o].target :
               /\ BatchOf(j) < BatchOf(i) /\ v # "pending" => ops[o].target[j] \in Settled
               /\ BatchOf(i) < BatchOf(j) /\ ops[o].target[j] # "pending" => v \in Settled,
         i \in Nat
  PROVE  RollbackInv'
<1> DEFINE x == [ops[o] EXCEPT !.target[i] = v]
<1>1. ops[o] \in Operation /\ TargetsOK(ops[o])
  BY DEF RollbackInv
<1>2. /\ x \in Operation /\ SameBut(x, ops[o]) /\ x.phase = ops[o].phase /\ x.status = ops[o].status
      /\ x.ended = ops[o].ended /\ x.target = [ops[o].target EXCEPT ![i] = v]
  BY <1>1, SMTT(20) DEF SameBut, Operation
<1>3. /\ ops' \in Seq(Operation) /\ DOMAIN ops' = DOMAIN ops
      /\ \A p \in DOMAIN ops \ {o} : ops'[p] = ops[p]
      /\ ops'[o] = x
  BY <1>2 DEF RollbackInv
<1> HIDE DEF x
<1>4. DOMAIN x.target = DOMAIN ops[o].target /\ x.target[i] = v
      /\ \A j \in DOMAIN x.target : j # i => x.target[j] = ops[o].target[j]
  BY <1>1, <1>2 DEF Operation
<1>5. TargetsOK(x)
  <2>1. x.phase = "running" /\ x.strategy # "canary"
    BY <1>2 DEF SameBut
  <2>2. ASSUME x.strategy = "gradual", NEW j \in DOMAIN x.target, NEW k \in DOMAIN x.target,
               BatchOf(j) < BatchOf(k), x.target[k] # "pending"
        PROVE  x.target[j] \in Settled
    <3>1. j # k
      BY <2>2, RollbackAssumption, <1>1, <1>4 DEF BatchOf, Operation
    <3>2. ops[o].strategy = "gradual"
      BY <1>2, <2>2 DEF SameBut
    <3>3. CASE k = i
      BY <1>4, <2>2, <3>1, <3>2, <3>3
    <3>4. CASE j = i
      BY <1>4, <2>2, <3>1, <3>2, <3>4
    <3>5. CASE j # i /\ k # i
      BY <1>1, <1>4, <2>2, <3>2, <3>5 DEF TargetsOK
    <3> QED
      BY <3>3, <3>4, <3>5
  <2> QED
    BY <2>1, <2>2 DEF TargetsOK
<1>6. OwnId(o) => RecordOK(x)
  BY <1>2 DEF RollbackInv, OwnFollowed, RecordOK, Settled
<1>7. \A p \in DOMAIN ops : SameBut(ops'[p], ops[p]) /\ TargetsOK(ops'[p])
  BY <1>2, <1>3, <1>5 DEF RollbackInv, SameBut
<1> QED
  BY <1>3, <1>6, <1>7, GoroutineStep

(***************************************************************************)
(* Every step of the two services.                                         *)
(***************************************************************************)
LEMMA GoroutineRollback ==
  ASSUME RollbackInv, NEW o \in DOMAIN ops, StartRunning(o) \/ Conclude(o) \/ SetEndTime(o)
  PROVE  RollbackInv'
<1>1. ops \in Seq(Operation) /\ ops[o] \in Operation /\ TargetsOK(ops[o])
  BY DEF RollbackInv
<1>2. listed' = listed /\ reused' = reused /\ ops[o].phase # "done"
  BY DEF StartRunning, Conclude, SetEndTime
<1>3. /\ ByTable(o) \in SUBSET (DOMAIN ops) /\ Reported(o) \in SUBSET (DOMAIN ops)
      /\ \A p \in ByTable(o) : Slot(p) = Slot(o)
      /\ \A p \in Reported(o) : Slot(p) = Slot(o)
      /\ OwnId(o) => ByTable(o) = {o} /\ Reported(o) = {o} /\ RecordOK(ops[o])
  <2>1. OwnId(o) => RecordOK(ops[o])
    BY DEF RollbackInv, OwnFollowed
  <2> QED
    BY <1>2, <2>1, Reach
<1>4. CASE StartRunning(o)
  <2> DEFINE S == SetField(ops, ByTable(o), "status", "in_progress")
  <2>1. ops' = SetPhase(S, o, "running") /\ ops[o].phase = "spawned"
    BY <1>4 DEF StartRunning
  <2>2. /\ S \in Seq(Operation) /\ DOMAIN S = DOMAIN ops
        /\ \A p \in DOMAIN ops \ ByTable(o) : S[p] = ops[p]
        /\ \A p \in ByTable(o) : S[p] = [ops[p] EXCEPT !.status = "in_progress"]
    BY <1>1, <1>3, StatusSet
  <2> HIDE DEF S
  <2>3. \A p \in ByTable(o) : ops[p] \in Operation
    BY <1>1, <1>3
  <2>4. \A p \in ByTable(o) : /\ SameBut(S[p], ops[p])
                              /\ S[p].target = ops[p].target /\ S[p].phase = ops[p].phase
    BY <2>2, <2>3 DEF SameBut, Operation
  <2>5. S[o] \in Operation /\ S[o].target = ops[o].target
    BY <2>2, <2>4
  <2>6. TargetsOK([S[o] EXCEPT !.phase = "running"])
    <3>1. \A i \in DOMAIN S[o].target : S[o].target[i] = "pending"
      BY <1>1, <2>1, <2>5 DEF TargetsOK
    <3> QED
      BY <2>5, <3>1 DEF TargetsOK, Operation
  <2>7. OwnId(o) => RecordOK([S[o] EXCEPT !.phase = "running"])
    <3> SUFFICES ASSUME OwnId(o) PROVE RecordOK([S[o] EXCEPT !.phase = "running"])
      OBVIOUS
    <3>1. S[o] = [ops[o] EXCEPT !.status = "in_progress"] /\ ~ops[o].ended
      BY <1>3, <2>1, <2>2 DEF RecordOK
    <3> QED
      BY <1>1, <3>1 DEF RecordOK, Operation
  <2> QED
    BY <1>2, <2>1, <2>2, <2>4, <2>6, <2>7, <1>3, WriteStep DEF Phases
<1>5. CASE Conclude(o)
  <2> DEFINE S == SetField(ops, Reported(o), "status", Outcome(o))
  <2>1. ops' = SetPhase(S, o, "ending") /\ ops[o].phase = "running"
        /\ (ops[o].strategy = "canary" \/ \A i \in DOMAIN ops[o].target : ops[o].target[i] \in Settled)
    BY <1>5 DEF Conclude
  <2>2. Outcome(o) \in Settled
    BY DEF Outcome, Settled
  <2>3. /\ S \in Seq(Operation) /\ DOMAIN S = DOMAIN ops
        /\ \A p \in DOMAIN ops \ Reported(o) : S[p] = ops[p]
        /\ \A p \in Reported(o) : S[p] = [ops[p] EXCEPT !.status = Outcome(o)]
    BY <1>1, <1>3, <2>2, StatusSet
  <2> HIDE DEF S
  <2>4. \A p \in Reported(o) : ops[p] \in Operation
    BY <1>1, <1>3
  <2>5. \A p \in Reported(o) : /\ SameBut(S[p], ops[p])
                               /\ S[p].target = ops[p].target /\ S[p].phase = ops[p].phase
    BY <2>3, <2>4 DEF SameBut, Operation
  <2>6. S[o] \in Operation /\ S[o].target = ops[o].target /\ S[o].strategy = ops[o].strategy
    BY <2>3, <2>5 DEF SameBut
  <2>7. TargetsOK([S[o] EXCEPT !.phase = "ending"])
    BY <1>1, <2>1, <2>6 DEF TargetsOK, Operation
  <2>8. OwnId(o) => RecordOK([S[o] EXCEPT !.phase = "ending"])
    <3> SUFFICES ASSUME OwnId(o) PROVE RecordOK([S[o] EXCEPT !.phase = "ending"])
      OBVIOUS
    <3>1. S[o] = [ops[o] EXCEPT !.status = Outcome(o)] /\ ~ops[o].ended
      BY <1>3, <2>1, <2>3 DEF RecordOK
    <3>2. Outcome(o) = "completed" => \A i \in DOMAIN ops[o].target : ops[o].target[i] = "completed"
      BY DEF Outcome, AllSuccess
    <3> QED
      BY <1>1, <2>2, <3>1, <3>2 DEF RecordOK, Operation
  <2> QED
    BY <1>2, <2>1, <2>3, <2>5, <2>7, <2>8, <1>3, WriteStep DEF Phases
<1>6. CASE SetEndTime(o)
  <2> DEFINE S == SetField(ops, Reported(o), "ended", TRUE)
  <2>1. ops' = SetPhase(S, o, "done") /\ ops[o].phase = "ending"
    BY <1>6 DEF SetEndTime
  <2>2. /\ S \in Seq(Operation) /\ DOMAIN S = DOMAIN ops
        /\ \A p \in DOMAIN ops \ Reported(o) : S[p] = ops[p]
        /\ \A p \in Reported(o) : S[p] = [ops[p] EXCEPT !.ended = TRUE]
    BY <1>1, <1>3, EndedSet
  <2> HIDE DEF S
  <2>3. \A p \in Reported(o) : ops[p] \in Operation
    BY <1>1, <1>3
  <2>4. \A p \in Reported(o) : /\ SameBut(S[p], ops[p])
                               /\ S[p].target = ops[p].target /\ S[p].phase = ops[p].phase
    BY <2>2, <2>3, ZenonT(40) DEF SameBut, Operation
  <2>5. S[o] \in Operation /\ S[o].target = ops[o].target /\ S[o].strategy = ops[o].strategy
    BY <2>2, <2>4 DEF SameBut
  <2>6. TargetsOK([S[o] EXCEPT !.phase = "done"])
    BY <1>1, <2>1, <2>5 DEF TargetsOK, Operation
  <2>7. OwnId(o) => RecordOK([S[o] EXCEPT !.phase = "done"])
    <3> SUFFICES ASSUME OwnId(o) PROVE RecordOK([S[o] EXCEPT !.phase = "done"])
      OBVIOUS
    <3>1. S[o] = [ops[o] EXCEPT !.ended = TRUE] /\ RecordOK(ops[o])
      BY <1>3, <2>2
    <3> QED
      BY <1>1, <2>1, <3>1 DEF RecordOK, Operation
  <2> QED
    BY <1>2, <2>1, <2>2, <2>4, <2>6, <2>7, <1>3, WriteStep DEF Phases
<1> QED
  BY <1>4, <1>5, <1>6

LEMMA TargetRollback ==
  ASSUME RollbackInv, NEW o \in DOMAIN ops, NEW i \in DOMAIN ops[o].target,
         SpawnTarget(o, i) \/ RollbackTarget(o, i) \/ RollbackDeployment(o, i)
  PROVE  RollbackInv'
<1>1. ops[o] \in Operation /\ TargetsOK(ops[o]) /\ i \in Nat
  <2>1. ops[o] \in Operation /\ TargetsOK(ops[o])
    BY DEF RollbackInv
  <2>2. ops[o].target \in Seq(TargetStates)
    BY <2>1 DEF Operation
  <2> QED
    BY <2>1, <2>2
<1>2. listed' = listed /\ reused' = reused
  BY DEF SpawnTarget, RollbackTarget, RollbackDeployment
<1>3. CASE SpawnTarget(o, i)
  BY <1>1, <1>2, <1>3, TargetStep DEF SpawnTarget, EarlierSettled, TargetsOK, TargetStates, Settled
<1>4. CASE RollbackTarget(o, i) \/ RollbackDeployment(o, i)
  <2>1. PICK v \in Settled : ops' = [ops EXCEPT ![o].target[i] = v]
    BY <1>4 DEF RollbackTarget, RollbackDeployment, Settled
  <2>2. ops[o].target[i] = "rolling_back"
    BY <1>4 DEF RollbackTarget, RollbackDeployment
  <2>3. ops[o].phase = "running" /\ ops[o].strategy # "canary"
    BY <1>1, <2>2 DEF TargetsOK, Operation, Phases, Settled
  <2> QED
    BY <1>1, <1>2, <2>1, <2>2, <2>3, TargetStep DEF TargetsOK, TargetStates
<1> QED
  BY <1>3, <1>4

LEMMA InitiateRollbackInv ==
  ASSUME RollbackInv, NEW service \in {"manager", "handler"}, NEW id \in OpIds,
         NEW strategy \in Strategies, NEW n \in Nat, InitiateRollback(service, id, strategy, n)
  PROVE  RollbackInv'
<1>0. PICK o : o = Len(ops) + 1
  OBVIOUS
<1> DEFINE slot == <<service, id>>
           x == [service |-> service, id |-> id, strategy |-> strategy,
                 status |-> "initiated", ended |-> FALSE,
                 target |-> [i \in 1..TargetsOf(service, strategy, n) |-> "pending"],
                 phase |-> IF strategy # "canary" \/ service = "handler" THEN "spawned" ELSE "refused"]
<1>1. TargetsOf(service, strategy, n) \in Nat
  BY DEF TargetsOf, SelectedDeployments, Deployments
<1>2. x \in Operation
  BY <1>1 DEF Operation, TargetStates, Phases
<1>3. ops' = Append(ops, x) /\ listed' = PutAt(listed, slot, o)
      /\ reused' = IF \E p \in DOMAIN ops : Slot(p) = slot THEN reused \cup {slot} ELSE reused
  BY <1>0 DEF InitiateRollback
<1>4. TargetsOK(x) /\ RecordOK(x) /\ x.service = service /\ x.id = id
  BY DEF TargetsOK, RecordOK, Settled
<1> HIDE DEF x
<1>5. /\ ops' \in Seq(Operation) /\ DOMAIN ops' = DOMAIN ops \cup {o} /\ o \notin DOMAIN ops
      /\ \A p \in DOMAIN ops : ops'[p] = ops[p]
      /\ ops'[o] = x
  BY <1>0, <1>2, <1>3 DEF RollbackInv
<1>6. /\ \A p \in DOMAIN ops : Slot(p)' = Slot(p)
      /\ Slot(o)' = slot
  BY <1>4, <1>5 DEF Slot
<1>7. /\ DOMAIN listed' = DOMAIN listed \cup {slot} /\ listed'[slot] = o
      /\ \A k \in DOMAIN listed \ {slot} : listed'[k] = listed[k]
  BY <1>3 DEF PutAt
<1>8. Listing'
  BY <1>5, <1>6, <1>7 DEF RollbackInv, Listing
<1>9. SharedIsReused'
  <2>1. \A p \in DOMAIN ops : Slot(p) = slot => slot \in reused'
    BY <1>3
  <2>2. reused \subseteq reused'
    BY <1>3
  <2> QED
    BY <1>5, <1>6, <2>1, <2>2 DEF RollbackInv, SharedIsReused
<1>10. OwnFollowed'
  <2> SUFFICES ASSUME NEW p \in DOMAIN ops', OwnId(p)'
               PROVE  RecordOK(ops'[p]) /\ (ops'[p].phase # "done" =>
                                 Slot(p)' \in DOMAIN listed' /\ listed'[Slot(p)'] = p)
    BY DEF OwnFollowed
  <2>1. CASE p = o
    BY <1>4, <1>5, <1>6, <1>7, <2>1
  <2>2. CASE p # o
    <3>1. p \in DOMAIN ops /\ Slot(p)' = Slot(p) /\ ops'[p] = ops[p]
      BY <1>5, <1>6, <2>2
    <3>2. Slot(p) # slot /\ OwnId(p)
      BY <1>3, <3>1 DEF OwnId
    <3> QED
      BY <1>7, <3>1, <3>2 DEF RollbackInv, OwnFollowed
  <2> QED
    BY <2>1, <2>2
<1> QED
  BY <1>4, <1>5, <1>8, <1>9, <1>10 DEF RollbackInv

LEMMA CleanupRollbackInv ==
  ASSUME RollbackInv, NEW old, CleanupRollbacks(old)
  PROVE  RollbackInv'
<1> DEFINE out == {k \in DOMAIN listed : listed[k] \in old /\ Removable(listed[k])}
<1>1. listed' = [k \in DOMAIN listed \ out |-> listed[k]] /\ ops' = ops /\ reused' = reused
  BY DEF CleanupRollbacks
<1>2. \A o \in DOMAIN ops : Slot(o)' = Slot(o) /\ (OwnId(o)' <=> OwnId(o))
  BY <1>1 DEF Slot, OwnId
<1>3. Listing'
  BY <1>1, <1>2 DEF RollbackInv, Listing
<1>4. SharedIsReused'
  BY <1>1, <1>2 DEF RollbackInv, SharedIsReused
<1>5. OwnFollowed'
  <2> SUFFICES ASSUME NEW o \in DOMAIN ops, OwnId(o), ops[o].phase # "done"
               PROVE  Slot(o) \in DOMAIN listed' /\ listed'[Slot(o)] = o
    BY <1>1, <1>2 DEF RollbackInv, OwnFollowed
  <2>1. Slot(o) \in DOMAIN listed /\ listed[Slot(o)] = o /\ RecordOK(ops[o])
    BY DEF RollbackInv, OwnFollowed
  <2>2. Slot(o) \notin out
    BY <2>1 DEF Removable, RecordOK
  <2> QED
    BY <1>1, <2>1, <2>2
<1> QED
  BY <1>1, <1>3, <1>4, <1>5 DEF RollbackInv

LEMMA NextRollback == RollbackInv /\ [RollbackNext]_opVars => RollbackInv'
<1> SUFFICES ASSUME RollbackInv, [RollbackNext]_opVars PROVE RollbackInv'
  OBVIOUS
<1>1. ASSUME NEW id \in OpIds, NEW s \in Strategies,
             \/ \E n \in TargetCounts : InitiateRollback("manager", id, s, n)
             \/ InitiateRollback("handler", id, s, 2)
      PROVE  RollbackInv'
  BY <1>1, InitiateRollbackInv, RollbackAssumption
<1>2. ASSUME NEW o \in DOMAIN ops, RunOperation(o) PROVE RollbackInv'
  BY <1>2, GoroutineRollback, TargetRollback DEF RunOperation
<1>3. ASSUME NEW old \in SUBSET (DOMAIN ops), CleanupRollbacks(old) PROVE RollbackInv'
  BY <1>3, CleanupRollbackInv
<1>4. CASE UNCHANGED opVars
  BY <1>4 DEF opVars, RollbackInv, Listing, SharedIsReused, OwnFollowed, Slot, OwnId
<1> QED
  BY <1>1, <1>2, <1>3, <1>4 DEF RollbackNext

(***************************************************************************)
(* For any number of operations of both services, with IDs that collide,   *)
(* targets that fail and cleanups at any time: an operation with an ID of  *)
(* its own ends with a final status, "completed" means every target,       *)
(* batches come in order, and what runs is listed (rollback.go,            *)
(* rollback_handler.go).                                                   *)
(***************************************************************************)
THEOREM RollbacksHold == RollbackSpec => []RollbacksSound
<1>1. RollbackInit => RollbackInv
  <2> SUFFICES ASSUME RollbackInit PROVE RollbackInv
    OBVIOUS
  <2>1. ops = <<>> /\ DOMAIN ops = {} /\ DOMAIN listed = {}
    BY DEF RollbackInit
  <2> QED
    BY <2>1 DEF RollbackInv, Listing, SharedIsReused, OwnFollowed
<1> QED
  BY <1>1, NextRollback, RollbackInvSound, PTL DEF RollbackSpec

-----------------------------------------------------------------------------
(***************************************************************************)
(* The build of a plan.  A handler's job has dealt with the controls       *)
(* before `at`: each is in the response, and has an artifact only if it    *)
(* was uploaded for it.  The controls from `at` on are as they arrived.    *)
(***************************************************************************)
USE DEF tree, files

ControlIds == {c.id : c \in Controls}
Control == [id : ControlIds, type : {c.type : c \in Controls},
            status : {c.status : c \in Controls} \cup {"failed", "artifact_ready", "updated"},
            artifact : Nat \cup {NoArtifact}]
Artifact == [name : ControlIds, data : {"placeholder"}]
Job == [stage : {"next", "copy", "make", "pack", "fill", "upload"}, plan : Seq(Control), at : Nat \ {0},
        dir : Dirs \cup {NoArtifact}, ready : {"artifact_ready", "updated"},
        response : Seq(Control)]

Answered(q, i) ==
    IF q.response[i].status = "failed" THEN q.response[i].artifact = NoArtifact
                                       ELSE q.plan[i] = q.response[i]

JobOK(q) ==
    /\ q \in Job
    /\ q.at <= Len(q.plan) + 1 /\ Len(q.response) = q.at - 1
    /\ q.stage # "next" => q.at <= Len(q.plan) /\ q.dir \in Dirs
    /\ \A i \in 1..Len(q.plan) : i >= q.at => q.plan[i].artifact = NoArtifact
    /\ \A i \in 1..(q.at - 1) : Answered(q, i)

UploadsOK(q, up) ==
    \A i \in 1..Len(q.plan) : q.plan[i].artifact # NoArtifact =>
       q.plan[i].artifact \in 1..Len(up) /\ up[q.plan[i].artifact].name = q.plan[i].id

JobsInv ==
    /\ second \in 0..MaxSecond
    /\ source = [d \in Dirs |-> source[d]] /\ object = [d \in Dirs |-> object[d]]
    /\ build \in [Builders -> Job \cup {Resting}]
    /\ uploaded \in Seq(Artifact)
    /\ \A b \in Builders : Working(b) => JobOK(build[b]) /\ UploadsOK(build[b], uploaded)

(***************************************************************************)
(* The render directories, as long as no two handlers use one: its source  *)
(* and its object are those of the control at work.                        *)
(***************************************************************************)
Using(b) == Working(b) /\ build[b].stage # "next"

OwnPrograms ==
    \A c \in DOMAIN packages : packages[c].state = "whole" =>
        packages[c].metadata = c /\ packages[c].program = c

DirsInv ==
    ~shared =>
       /\ \A b, c \in Builders : Using(b) /\ Using(c) /\ build[b].dir = build[c].dir => b = c
       /\ \A b \in Builders : Working(b) /\ build[b].stage = "make" =>
             source[build[b].dir] = ControlOf(b).id
       /\ \A b \in Builders : Working(b) /\ build[b].stage \in {"pack", "fill"} =>
             object[build[b].dir] = ControlOf(b).id
       /\ OwnPrograms

(***************************************************************************)
(* The package files.  One that is not spoilt has at most one handler, and *)
(* is empty until that handler has filled it.                              *)
(***************************************************************************)
HasFile(b) == Working(b) /\ build[b].stage \in {"fill", "upload"}

FileOK(b) ==
    /\ build[b].stage = "fill" => packages[PackageOf(b)] = Empty
    /\ build[b].stage = "upload" => packages[PackageOf(b)].state = "whole"
    /\ \A x \in Builders : HasFile(x) /\ PackageOf(x) = PackageOf(b) => x = b

PacksInv ==
    \A b \in Builders : HasFile(b) =>
       /\ PackageOf(b) \in DOMAIN packages
       /\ PackageOf(b) \notin spoilt => FileOK(b)

LEMMA UploadsGrow ==
  ASSUME NEW q, NEW up, NEW new, UploadsOK(q, up), Len(up) \in Nat, Len(new) = Len(up) + 1,
         \A i \in 1..Len(up) : new[i] = up[i]
  PROVE  UploadsOK(q, new)
<1> SUFFICES ASSUME NEW i \in 1..Len(q.plan), q.plan[i].artifact # NoArtifact
             PROVE  q.plan[i].artifact \in 1..Len(new) /\ new[q.plan[i].artifact].name = q.plan[i].id
  BY DEF UploadsOK
<1>1. PICK n : n = q.plan[i].artifact /\ n \in 1..Len(up) /\ up[n].name = q.plan[i].id
  BY DEF UploadsOK
<1> QED
  BY <1>1

LEMMA BuildInvSound == JobsInv /\ DirsInv /\ PacksInv => BuildsSound
<1> SUFFICES ASSUME JobsInv, DirsInv, PacksInv PROVE BuildsSound
  OBVIOUS
<1>1. PackageHoldsItsProgram
  BY DEF DirsInv, OwnPrograms, PackageHoldsItsProgram
<1>2. PlanMatchesResponse
  BY DEF JobsInv, JobOK, Answered, PlanMatchesResponse
<1>3. DeployedWasUploaded
  <2> SUFFICES ASSUME NEW b \in Builders, Working(b), NEW c \in Elems(build[b].plan),
                      c.artifact # NoArtifact
               PROVE  c.artifact \in DOMAIN uploaded /\ uploaded[c.artifact].name = c.id
    BY DEF DeployedWasUploaded, Deployable
  <2>1. build[b].plan \in Seq(Control) /\ UploadsOK(build[b], uploaded) /\ uploaded \in Seq(Artifact)
    BY DEF JobsInv, JobOK, Job
  <2>2. PICK i \in DOMAIN build[b].plan : c = build[b].plan[i]
    BY DEF Elems
  <2> QED
    BY <2>1, <2>2 DEF UploadsOK
<1>4. UploadedIsWhole
  BY DEF PacksInv, HasFile, FileOK, UploadedIsWhole
<1> QED
  BY <1>1, <1>2, <1>3, <1>4 DEF BuildsSound

LEMMA InitBuild == BuildInit => JobsInv /\ DirsInv /\ PacksInv
<1> SUFFICES ASSUME BuildInit PROVE JobsInv /\ DirsInv /\ PacksInv
  OBVIOUS
<1>1. \A b \in Builders : build[b] = Resting
  BY DEF BuildInit
<1>2. JobsInv
  <2>1. second \in 0..MaxSecond
    BY BuildAssumption DEF BuildInit
  <2>2. source = [d \in Dirs |-> source[d]] /\ object = [d \in Dirs |-> object[d]]
    BY DEF BuildInit
  <2>3. build \in [Builders -> Job \cup {Resting}] /\ uploaded \in Seq(Artifact)
    BY DEF BuildInit
  <2> QED
    BY <1>1, <2>1, <2>2, <2>3 DEF JobsInv, Working
<1>3. DirsInv
  BY <1>1 DEF BuildInit, DirsInv, OwnPrograms, Working, Using
<1>4. PacksInv
  BY <1>1 DEF PacksInv, HasFile, Working
<1> QED
  BY <1>2, <1>3, <1>4

(***************************************************************************)
(* One handler has gone on to q; the registry may have got artifacts more. *)
(***************************************************************************)
LEMMA JobStep ==
  ASSUME JobsInv, NEW b \in Builders, NEW q \in Job \cup {Resting}, build' = [build EXCEPT ![b] = q],
         q # Resting => JobOK(q) /\ UploadsOK(q, uploaded'),
         second' = second, uploaded' \in Seq(Artifact), Len(uploaded') >= Len(uploaded),
         \A i \in 1..Len(uploaded) : uploaded'[i] = uploaded[i],
         source' = [d \in Dirs |-> source'[d]], object' = [d \in Dirs |-> object'[d]]
  PROVE  JobsInv'
<1>1. /\ build' \in [Builders -> Job \cup {Resting}]
      /\ build'[b] = q /\ \A c \in Builders \ {b} : build'[c] = build[c]
  BY DEF JobsInv
<1>2. ASSUME NEW c \in Builders, build'[c] # Resting
      PROVE  JobOK(build'[c]) /\ UploadsOK(build'[c], uploaded')
  <2>1. CASE c = b
    BY <1>1, <1>2, <2>1
  <2>2. CASE c # b
    <3>1. build'[c] = build[c] /\ JobOK(build[c]) /\ UploadsOK(build[c], uploaded)
          /\ Len(uploaded) \in Nat /\ Len(uploaded') \in Nat
      BY <1>1, <1>2, <2>2 DEF JobsInv, Working
    <3> QED
      BY <3>1 DEF UploadsOK
  <2> QED
    BY <2>1, <2>2
<1> QED
  BY <1>1, <1>2 DEF JobsInv, Working

(***************************************************************************)
(* What the two ends of the loop's body leave of a job.                    *)
(***************************************************************************)
LEMMA FinishedJob ==
  ASSUME NEW q, JobOK(q), q.at <= Len(q.plan), NEW c \in Control,
         c.status = "failed" => c.artifact = NoArtifact,
         NEW up, UploadsOK(q, up),
         c.artifact # NoArtifact => c.artifact \in 1..Len(up) /\ up[c.artifact].name = c.id
  PROVE  /\ Finished(q, c) \in Job /\ Finished(q, c).stage = "next"
         /\ JobOK(Finished(q, c)) /\ UploadsOK(Finished(q, c), up)
<1> DEFINE f == Finished(q, c)
<1>1. q \in Job
  BY DEF JobOK
<1>2. /\ q.at \in Nat \ {0} /\ q.plan \in Seq(Control) /\ q.response \in Seq(Control)
      /\ q.dir \in Dirs \cup {NoArtifact} /\ q.ready \in {"artifact_ready", "updated"}
      /\ Len(q.response) = q.at - 1
  BY <1>1 DEF Job, JobOK
<1>3. /\ [q.plan EXCEPT ![q.at] = c] \in Seq(Control)
      /\ Len([q.plan EXCEPT ![q.at] = c]) = Len(q.plan)
      /\ \A i \in 1..Len(q.plan) :
            [q.plan EXCEPT ![q.at] = c][i] = IF i = q.at THEN c ELSE q.plan[i]
  BY <1>2
<1>4. /\ Append(q.response, c) \in Seq(Control) /\ Len(Append(q.response, c)) = q.at
      /\ Append(q.response, c)[q.at] = c
      /\ \A i \in 1..(q.at - 1) : Append(q.response, c)[i] = q.response[i]
  BY <1>2
<1>5. /\ f \in Job
      /\ f.stage = "next" /\ f.at = q.at + 1 /\ f.plan = [q.plan EXCEPT ![q.at] = c]
      /\ f.response = Append(q.response, c)
  <2>1. PICK p \in Seq(Control), r \in Seq(Control) :
           p = [q.plan EXCEPT ![q.at] = c] /\ r = Append(q.response, c)
    BY <1>3, <1>4
  <2>2. f = [q EXCEPT !.stage = "next", !.at = q.at + 1, !.response = r, !.plan = p]
    BY <1>1, <2>1 DEF Finished, Replaced, Job
  <2>3. q.at + 1 \in Nat \ {0}
    BY <1>2
  <2> QED
    BY <1>1, <2>1, <2>2, <2>3 DEF Job
<1> HIDE DEF f
<1>6. \A i \in 1..(f.at - 1) : Answered(f, i)
  <2> SUFFICES ASSUME NEW i \in 1..q.at PROVE Answered(f, i)
    BY <1>2, <1>5
  <2>1. CASE i = q.at
    BY <2>1, <1>2, <1>3, <1>4, <1>5 DEF Answered
  <2>2. CASE i # q.at
    <3>1. i \in 1..(q.at - 1) /\ i \in 1..Len(q.plan) /\ Answered(q, i)
      BY <2>2, <1>2 DEF JobOK
    <3>2. f.plan[i] = q.plan[i] /\ f.response[i] = q.response[i]
      BY <3>1, <2>2, <1>3, <1>4, <1>5
    <3> QED
      BY <3>1, <3>2 DEF Answered
  <2> QED
    BY <2>1, <2>2
<1>7. \A i \in 1..Len(f.plan) : i >= f.at => f.plan[i].artifact = NoArtifact
  BY <1>2, <1>3, <1>5, SMTT(20) DEF JobOK
<1>8. JobOK(f)
  BY <1>2, <1>3, <1>4, <1>5, <1>6, <1>7 DEF JobOK
<1>9. UploadsOK(f, up)
  BY <1>2, <1>3, <1>5 DEF UploadsOK
<1> QED
  BY <1>5, <1>8, <1>9 DEF f

LEMMA FailedJob ==
  ASSUME NEW q, JobOK(q), q.at <= Len(q.plan), NEW up, UploadsOK(q, up)
  PROVE  /\ Failed(q) \in Job /\ Failed(q).stage = "next"
         /\ JobOK(Failed(q)) /\ UploadsOK(Failed(q), up)
<1> DEFINE c == [q.plan[q.at] EXCEPT !.status = "failed"]
           f == Failed(q)
<1>1. q \in Job
  BY DEF JobOK
<1>2. /\ q.at \in Nat \ {0} /\ q.plan \in Seq(Control) /\ q.response \in Seq(Control)
      /\ q.dir \in Dirs \cup {NoArtifact} /\ q.ready \in {"artifact_ready", "updated"}
      /\ Len(q.response) = q.at - 1
  BY <1>1 DEF Job, JobOK
<1>3. q.plan[q.at] \in Control /\ q.plan[q.at].artifact = NoArtifact
  BY <1>2 DEF JobOK
<1>4. c \in Control /\ c.status = "failed" /\ c.artifact = NoArtifact
  BY <1>3 DEF Control
<1> HIDE DEF c
<1>5. /\ Append(q.response, c) \in Seq(Control) /\ Len(Append(q.response, c)) = q.at
      /\ Append(q.response, c)[q.at] = c
      /\ \A i \in 1..(q.at - 1) : Append(q.response, c)[i] = q.response[i]
  BY <1>2, <1>4
<1>6. f = [q EXCEPT !.stage = "next", !.at = q.at + 1, !.response = Append(q.response, c)]
  BY <1>1 DEF Failed, c, Job
<1>7. /\ f \in Job
      /\ f.stage = "next" /\ f.at = q.at + 1 /\ f.plan = q.plan
      /\ f.response = Append(q.response, c)
  <2>1. PICK r \in Seq(Control) : r = Append(q.response, c)
    BY <1>5
  <2>2. q.at + 1 \in Nat \ {0}
    BY <1>2
  <2> QED
    BY <1>1, <1>6, <2>1, <2>2 DEF Job
<1> HIDE DEF f
<1>8. \A i \in 1..(f.at - 1) : Answered(f, i)
  <2> SUFFICES ASSUME NEW i \in 1..q.at PROVE Answered(f, i)
    BY <1>2, <1>7
  <2>1. CASE i = q.at
    BY <2>1, <1>2, <1>4, <1>5, <1>7 DEF Answered
  <2>2. CASE i # q.at
    <3>1. i \in 1..(q.at - 1) /\ Answered(q, i)
      BY <2>2, <1>2 DEF JobOK
    <3>2. f.plan[i] = q.plan[i] /\ f.response[i] = q.response[i]
      BY <3>1, <1>5, <1>7
    <3> QED
      BY <3>1, <3>2 DEF Answered
  <2> QED
    BY <2>1, <2>2
<1>9. JobOK(f)
  BY <1>2, <1>5, <1>7, <1>8 DEF JobOK
<1>10. UploadsOK(f, up)
  BY <1>7 DEF UploadsOK
<1> QED
  BY <1>7, <1>9, <1>10 DEF f

(***************************************************************************)
(* A job that only goes to another stage of the control at work.           *)
(***************************************************************************)
LEMMA StagedJob ==
  ASSUME NEW q, JobOK(q), q.at <= Len(q.plan), NEW up, UploadsOK(q, up), NEW d \in Dirs,
         NEW s \in {"copy", "make", "pack", "fill", "upload"}
  PROVE  LET f == [q EXCEPT !.stage = s, !.dir = d]
         IN  f \in Job /\ JobOK(f) /\ UploadsOK(f, up)
<1> DEFINE f == [q EXCEPT !.stage = s, !.dir = d]
<1>1. q \in Job
  BY DEF JobOK
<1>2. /\ f \in Job /\ f.plan = q.plan /\ f.at = q.at /\ f.response = q.response
      /\ f.dir = d /\ f.stage = s
  BY <1>1 DEF Job
<1> HIDE DEF f
<1>3. \A i \in 1..(f.at - 1) : Answered(f, i)
  BY <1>2 DEF JobOK, Answered
<1>4. JobOK(f)
  BY <1>2, <1>3 DEF JobOK
<1>5. UploadsOK(f, up)
  BY <1>2 DEF UploadsOK
<1> QED
  BY <1>2, <1>4, <1>5 DEF f

(***************************************************************************)
(* One handler has gone on to q and has written no directory but its own.  *)
(***************************************************************************)
LEMMA DirStep ==
  ASSUME JobsInv, DirsInv, NEW b \in Builders, NEW q \in Job \cup {Resting},
         build' = [build EXCEPT ![b] = q], ~shared' => ~shared,
         \A d \in Dirs : ~(Using(b) /\ build[b].dir = d) =>
             source'[d] = source[d] /\ object'[d] = object[d],
         ~shared' /\ q # Resting /\ q.stage # "next" =>
             \A c \in Builders \ {b} : Using(c) => build[c].dir # q.dir,
         ~shared' /\ q # Resting /\ q.stage = "make" => source'[q.dir] = q.plan[q.at].id,
         ~shared' /\ q # Resting /\ q.stage \in {"pack", "fill"} =>
             object'[q.dir] = q.plan[q.at].id,
         ~shared' => OwnPrograms'
  PROVE  DirsInv'
<1> SUFFICES ASSUME ~shared' PROVE DirsInv'
  BY DEF DirsInv, OwnPrograms
<1>1. ~shared
  OBVIOUS
<1>2. build'[b] = q /\ \A c \in Builders \ {b} : build'[c] = build[c]
  BY DEF JobsInv
<1>3. \A c \in Builders \ {b} : /\ Working(c)' <=> Working(c)
                                /\ Using(c)' <=> Using(c)
                                /\ ControlOf(c)' = ControlOf(c)
  BY <1>2 DEF Working, Using, ControlOf
<1>4. \A c \in Builders \ {b} : Using(c) =>
         /\ build[c].dir \in Dirs /\ ~(Using(b) /\ build[b].dir = build[c].dir)
         /\ source'[build[c].dir] = source[build[c].dir]
         /\ object'[build[c].dir] = object[build[c].dir]
  <2> SUFFICES ASSUME NEW c \in Builders \ {b}, Using(c)
               PROVE  build[c].dir \in Dirs /\ ~(Using(b) /\ build[b].dir = build[c].dir)
    OBVIOUS
  <2>1. build[c].dir \in Dirs
    BY DEF JobsInv, JobOK, Using
  <2>2. ~(Using(b) /\ build[b].dir = build[c].dir)
    BY <1>1 DEF DirsInv, OwnPrograms
  <2> QED
    BY <2>1, <2>2
<1>5. Using(b)' <=> q # Resting /\ q.stage # "next"
  BY <1>2 DEF Working, Using
<1>6. \A x, y \in Builders :
         Using(x)' /\ Using(y)' /\ build'[x].dir = build'[y].dir => x = y
  <2> SUFFICES ASSUME NEW x \in Builders, NEW y \in Builders, Using(x)', Using(y)',
                      build'[x].dir = build'[y].dir, x # y
               PROVE  FALSE
    OBVIOUS
  <2>1. CASE x = b
    BY <2>1, <1>2, <1>3, <1>5
  <2>2. CASE y = b
    BY <2>2, <1>2, <1>3, <1>5
  <2>3. CASE x # b /\ y # b
    BY <2>3, <1>1, <1>2, <1>3 DEF DirsInv, OwnPrograms
  <2> QED
    BY <2>1, <2>2, <2>3
<1>7. \A x \in Builders : Working(x)' /\ build'[x].stage = "make" =>
         source'[build'[x].dir] = ControlOf(x)'.id
  <2> SUFFICES ASSUME NEW x \in Builders, Working(x)', build'[x].stage = "make"
               PROVE  source'[build'[x].dir] = ControlOf(x)'.id
    OBVIOUS
  <2>1. CASE x = b
    BY <2>1, <1>2 DEF Working, ControlOf
  <2>2. CASE x # b
    <3>1. Working(x) /\ build[x].stage = "make" /\ Using(x) /\ build'[x] = build[x]
      BY <2>2, <1>2, <1>3 DEF Using
    <3>2. source[build[x].dir] = ControlOf(x).id
      BY <3>1, <1>1 DEF DirsInv, OwnPrograms
    <3>3. x \in Builders \ {b}
      BY <2>2
    <3> QED
      BY <3>1, <3>2, <3>3, <1>3, <1>4
  <2> QED
    BY <2>1, <2>2
<1>8. \A x \in Builders : Working(x)' /\ build'[x].stage \in {"pack", "fill"} =>
         object'[build'[x].dir] = ControlOf(x)'.id
  <2> SUFFICES ASSUME NEW x \in Builders, Working(x)', build'[x].stage \in {"pack", "fill"}
               PROVE  object'[build'[x].dir] = ControlOf(x)'.id
    OBVIOUS
  <2>1. CASE x = b
    BY <2>1, <1>2 DEF Working, ControlOf
  <2>2. CASE x # b
    <3>1. Working(x) /\ build[x].stage \in {"pack", "fill"} /\ Using(x) /\ build'[x] = build[x]
      BY <2>2, <1>2, <1>3 DEF Using
    <3>2. object[build[x].dir] = ControlOf(x).id
      BY <3>1, <1>1 DEF DirsInv, OwnPrograms
    <3>3. x \in Builders \ {b}
      BY <2>2
    <3> QED
      BY <3>1, <3>2, <3>3, <1>3, <1>4
  <2> QED
    BY <2>1, <2>2
<1> QED
  BY <1>6, <1>7, <1>8 DEF DirsInv, OwnPrograms

(***************************************************************************)
(* The steps of one handler.                                               *)
(***************************************************************************)
LEMMA AJob ==
  ASSUME JobsInv, NEW b \in Builders, Working(b)
  PROVE  build[b] \in Job /\ build[b] # Resting /\ JobOK(build[b]) /\ UploadsOK(build[b], uploaded)
  BY DEF JobsInv, JobOK, Working

LEMMA ReceiveStep ==
  ASSUME JobsInv, DirsInv, NEW b \in Builders, NEW p \in Plans,
         NEW r \in {"artifact_ready", "updated"}, ReceivePlan(b, p, r)
  PROVE  JobsInv' /\ DirsInv'
<1> DEFINE q == [stage |-> "next", plan |-> p, at |-> 1, dir |-> NoArtifact,
                 ready |-> r, response |-> <<>>]
<1>1. /\ build' = [build EXCEPT ![b] = q]
      /\ UNCHANGED <<second, tree, files, uploaded>>
  BY DEF ReceivePlan
<1>2. p \in Seq(Controls) /\ \A i \in 1..Len(p) : p[i] \in Controls
  BY BuildPlansAssumption
<1>3. Controls \subseteq Control /\ \A c \in Controls : c.artifact = NoArtifact
  BY BuildPlansAssumption DEF Control, ControlIds
<1>4. p \in Seq(Control)
  BY <1>2, <1>3
<1>5. q \in Job /\ q.plan = p /\ q.at = 1 /\ q.stage = "next" /\ q.response = <<>>
  BY <1>4 DEF Job
<1> HIDE DEF q
<1>6. JobOK(q)
  BY <1>2, <1>3, <1>4, <1>5 DEF JobOK
<1>7. UploadsOK(q, uploaded)
  BY <1>2, <1>3, <1>5 DEF UploadsOK
<1>8. JobsInv'
  <2>1. uploaded' = uploaded /\ uploaded' \in Seq(Artifact) /\ Len(uploaded') >= Len(uploaded)
    BY <1>1 DEF JobsInv
  <2>2. UploadsOK(q, uploaded')
    BY <1>7, <2>1
  <2>3. source' = [d \in Dirs |-> source'[d]] /\ object' = [d \in Dirs |-> object'[d]]
    BY <1>1 DEF JobsInv
  <2> QED
    BY <1>1, <1>5, <1>6, <2>1, <2>2, <2>3, JobStep
<1>9. DirsInv'
  BY <1>1, <1>5, DirStep DEF DirsInv, OwnPrograms
<1> QED
  BY <1>8, <1>9

LEMMA EndStep ==
  ASSUME JobsInv, DirsInv, NEW b \in Builders, NEW q \in Job \cup {Resting},
         build' = [build EXCEPT ![b] = q], q # Resting => q.stage = "next",
         q # Resting => JobOK(q) /\ UploadsOK(q, uploaded'),
         uploaded' \in Seq(Artifact), Len(uploaded') >= Len(uploaded),
         \A i \in 1..Len(uploaded) : uploaded'[i] = uploaded[i],
         ~shared => OwnPrograms',
         UNCHANGED <<second, source, object, shared>>
  PROVE  JobsInv' /\ DirsInv'
<1>1. JobsInv'
  BY JobStep DEF JobsInv
<1>2. DirsInv'
  BY DirStep
<1> QED
  BY <1>1, <1>2

LEMMA FailsStep ==
  ASSUME JobsInv, DirsInv, NEW b \in Builders, Working(b), build[b].at <= Len(build[b].plan),
         build' = [build EXCEPT ![b] = Failed(@)],
         ~shared => OwnPrograms',
         UNCHANGED <<second, source, object, shared, uploaded>>
  PROVE  JobsInv' /\ DirsInv'
<1>1. build[b] \in Job /\ JobOK(build[b]) /\ UploadsOK(build[b], uploaded)
  BY AJob
<1>2. PICK q : q = Failed(build[b])
  OBVIOUS
<1>3. q \in Job /\ q.stage = "next" /\ JobOK(q) /\ UploadsOK(q, uploaded)
  BY <1>1, <1>2, FailedJob
<1>4. build' = [build EXCEPT ![b] = q]
  BY <1>2 DEF JobsInv
<1>5. uploaded' \in Seq(Artifact) /\ Len(uploaded') >= Len(uploaded)
  BY DEF JobsInv
<1>6. UploadsOK(q, uploaded')
  BY <1>3
<1> QED
  BY <1>3, <1>4, <1>5, <1>6, EndStep

LEMMA StageStep ==
  ASSUME JobsInv, DirsInv, NEW b \in Builders, Using(b),
         NEW s \in {"make", "pack", "fill", "upload"}, build' = [build EXCEPT ![b].stage = s],
         UNCHANGED <<second, uploaded, shared>>,
         source' = [d \in Dirs |-> source'[d]], object' = [d \in Dirs |-> object'[d]],
         \A d \in Dirs : build[b].dir # d => source'[d] = source[d] /\ object'[d] = object[d],
         ~shared /\ s = "make" => source'[build[b].dir] = ControlOf(b).id,
         ~shared /\ s \in {"pack", "fill"} => object'[build[b].dir] = ControlOf(b).id,
         ~shared => OwnPrograms'
  PROVE  JobsInv' /\ DirsInv'
<1> DEFINE o == build[b]
<1>1. o \in Job /\ o # Resting /\ JobOK(o) /\ UploadsOK(o, uploaded)
  BY AJob DEF Using
<1>2. o.at <= Len(o.plan) /\ o.dir \in Dirs
  BY <1>1 DEF JobOK, Using
<1>3. PICK q : q = [o EXCEPT !.stage = s, !.dir = o.dir]
  OBVIOUS
<1>4. q \in Job /\ JobOK(q) /\ UploadsOK(q, uploaded)
  BY <1>1, <1>2, <1>3, StagedJob
<1>5. /\ q.stage = s /\ q.dir = o.dir /\ q.plan = o.plan /\ q.at = o.at
      /\ build' = [build EXCEPT ![b] = q]
  BY <1>1, <1>3 DEF Job, JobsInv
<1>6. uploaded' = uploaded /\ uploaded' \in Seq(Artifact) /\ Len(uploaded') >= Len(uploaded)
      /\ UploadsOK(q, uploaded')
  BY <1>4 DEF JobsInv
<1>7. JobsInv'
  BY <1>4, <1>5, <1>6, JobStep
<1>8. ~shared' => \A c \in Builders \ {b} : Using(c) => build[c].dir # q.dir
  BY <1>5 DEF DirsInv, OwnPrograms
<1>9. /\ ~shared' => ~shared
      /\ ~shared' /\ q.stage = "make" => source'[q.dir] = q.plan[q.at].id
      /\ ~shared' /\ q.stage \in {"pack", "fill"} => object'[q.dir] = q.plan[q.at].id
  BY <1>5 DEF ControlOf
<1>10. \A d \in Dirs : ~(Using(b) /\ build[b].dir = d) =>
          source'[d] = source[d] /\ object'[d] = object[d]
  OBVIOUS
<1>11. DirsInv'
  BY <1>4, <1>5, <1>8, <1>9, <1>10, DirStep
<1> QED
  BY <1>7, <1>11

LEMMA NextControlStep ==
  ASSUME JobsInv, DirsInv, NEW b \in Builders, NextControl(b)
  PROVE  JobsInv' /\ DirsInv'
<1> DEFINE o == build[b]
           c == o.plan[o.at]
           d == <<TemplateOf(c.type), second>>
<1>1. /\ Working(b) /\ o \in Job /\ JobOK(o) /\ UploadsOK(o, uploaded)
      /\ o.stage = "next" /\ o.at <= Len(o.plan)
  BY AJob DEF NextControl
<1>2. c \in Control /\ c.artifact = NoArtifact
  BY <1>1 DEF JobOK, Job
<1>3. uploaded \in Seq(Artifact) /\ Len(uploaded) \in Nat
  BY DEF JobsInv
<1>4. CASE /\ build' = [build EXCEPT ![b] = Finished(o, c)]
           /\ UNCHANGED <<second, builds, tree, files, uploaded>>
  <2>1. PICK q : q = Finished(o, c)
    OBVIOUS
  <2>2. q \in Job /\ q.stage = "next" /\ JobOK(q) /\ UploadsOK(q, uploaded)
    BY <2>1, <1>1, <1>2, FinishedJob
  <2>3. /\ UploadsOK(q, uploaded') /\ uploaded' \in Seq(Artifact) /\ Len(uploaded') >= Len(uploaded)
        /\ \A i \in 1..Len(uploaded) : uploaded'[i] = uploaded[i]
    BY <2>2, <1>3, <1>4
  <2>4. ~shared => OwnPrograms'
    BY <1>4 DEF DirsInv, OwnPrograms
  <2> HIDE DEF o, c
  <2>5. build' = [build EXCEPT ![b] = q]
    BY <1>4, <2>1
  <2> QED
    BY <1>4, <2>2, <2>3, <2>4, <2>5, EndStep
<1>5. CASE Fails(b)
  BY <1>1, <1>5, FailsStep DEF Fails, DirsInv, OwnPrograms
<1>6. CASE /\ d[1] \in Templates
           /\ build' = [build EXCEPT ![b] = [o EXCEPT !.stage = "copy", !.dir = d]]
           /\ shared' = (shared \/ InUse(d, b))
           /\ UNCHANGED <<second, builds, source, object, files, uploaded>>
  <2>1. PICK q : q = [o EXCEPT !.stage = "copy", !.dir = d]
    OBVIOUS
  <2>2. d \in Dirs
    BY <1>6 DEF Dirs, JobsInv
  <2> HIDE DEF d
  <2>3. q \in Job /\ JobOK(q) /\ UploadsOK(q, uploaded)
    BY <1>1, <2>1, <2>2, StagedJob
  <2>4. q.stage = "copy" /\ q.dir = d
    BY <1>1, <2>1 DEF Job
  <2>5. UploadsOK(q, uploaded') /\ build' = [build EXCEPT ![b] = q]
    BY <2>1, <2>3, <1>6
  <2>6. JobsInv'
    <3>1. source' = [e \in Dirs |-> source'[e]] /\ object' = [e \in Dirs |-> object'[e]]
      BY <1>6 DEF JobsInv
    <3> QED
      <4>1. uploaded' \in Seq(Artifact) /\ Len(uploaded') >= Len(uploaded)
            /\ \A i \in 1..Len(uploaded) : uploaded'[i] = uploaded[i]
        BY <1>3, <1>6
      <4> HIDE DEF o
      <4> QED
        BY <1>6, <2>3, <2>5, <3>1, <4>1, JobStep
  <2>7. ~shared' => \A k \in Builders \ {b} : Using(k) => build[k].dir # q.dir
    BY <1>6, <2>4 DEF InUse, Using
  <2>8. DirsInv'
    BY <1>6, <2>3, <2>4, <2>5, <2>7, DirStep DEF DirsInv, OwnPrograms
  <2> QED
    BY <2>6, <2>8
<1> QED
  BY <1>4, <1>5, <1>6 DEF NextControl, ControlOf

LEMMA CopyStep ==
  ASSUME JobsInv, DirsInv, NEW b \in Builders, CopyTemplate(b)
  PROVE  JobsInv' /\ DirsInv'
<1>1. Using(b) /\ build[b].dir \in Dirs
  BY AJob DEF CopyTemplate, Using, JobOK
<1>2. /\ source' = [d \in Dirs |-> source'[d]] /\ object' = [d \in Dirs |-> object'[d]]
      /\ source'[build[b].dir] = ControlOf(b).id
      /\ \A d \in Dirs : build[b].dir # d => source'[d] = source[d] /\ object'[d] = object[d]
  BY <1>1 DEF CopyTemplate, SubstituteParams, JobsInv
<1> QED
  BY <1>1, <1>2, StageStep DEF CopyTemplate, DirsInv, OwnPrograms

LEMMA CompileStep ==
  ASSUME JobsInv, DirsInv, NEW b \in Builders, CompileBPF(b)
  PROVE  JobsInv' /\ DirsInv'
<1>1. Using(b) /\ build[b].dir \in Dirs /\ build[b].at <= Len(build[b].plan)
  BY AJob DEF CompileBPF, Using, JobOK
<1>2. CASE Fails(b)
  BY <1>1, <1>2, FailsStep DEF Fails, DirsInv, OwnPrograms, Using
<1>3. CASE /\ object' = [object EXCEPT ![build[b].dir] = source[build[b].dir]]
           /\ build' = [build EXCEPT ![b].stage = "pack"]
           /\ UNCHANGED <<second, builds, source, shared, files, uploaded>>
  <2>1. /\ source' = [d \in Dirs |-> source'[d]] /\ object' = [d \in Dirs |-> object'[d]]
        /\ object'[build[b].dir] = source[build[b].dir]
        /\ \A d \in Dirs : build[b].dir # d => source'[d] = source[d] /\ object'[d] = object[d]
    BY <1>1, <1>3 DEF JobsInv
  <2>2. ~shared => source[build[b].dir] = ControlOf(b).id
    BY DEF DirsInv, CompileBPF
  <2> QED
    BY <1>1, <1>3, <2>1, <2>2, StageStep DEF DirsInv, OwnPrograms
<1> QED
  BY <1>2, <1>3 DEF CompileBPF

LEMMA CreateStep ==
  ASSUME JobsInv, DirsInv, NEW b \in Builders, CreatePackage(b)
  PROVE  JobsInv' /\ DirsInv'
<1>1. Using(b) /\ build[b].at <= Len(build[b].plan) /\ Working(b)
  BY AJob DEF CreatePackage, Using, JobOK
<1>2. CASE Fails(b)
  <2>1. ~shared => OwnPrograms'
    BY <1>2 DEF Fails, DirsInv, OwnPrograms, OwnPrograms, files
  <2> QED
    BY <1>1, <1>2, <2>1, FailsStep DEF Fails, tree
<1>3. CASE /\ packages' = [x \in DOMAIN packages \cup {PackageOf(b)} |->
                               IF x = PackageOf(b) THEN Empty ELSE packages[x]]
           /\ build' = [build EXCEPT ![b].stage = "fill"]
           /\ UNCHANGED <<second, builds, tree, uploaded>>
  <2>1. ~shared => OwnPrograms'
    BY <1>3 DEF DirsInv, OwnPrograms, Empty
  <2>2. /\ source' = [d \in Dirs |-> source'[d]] /\ object' = [d \in Dirs |-> object'[d]]
        /\ UNCHANGED <<second, uploaded, shared, source, object>>
    BY <1>3 DEF JobsInv, tree
  <2>3. ~shared => object[build[b].dir] = ControlOf(b).id
    BY DEF CreatePackage, DirsInv
  <2> QED
    BY <1>1, <1>3, <2>1, <2>2, <2>3, StageStep
<1> QED
  BY <1>2, <1>3 DEF CreatePackage

LEMMA FillStep ==
  ASSUME JobsInv, DirsInv, NEW b \in Builders, FillPackage(b)
  PROVE  JobsInv' /\ DirsInv'
<1>1. Using(b) /\ build[b].at <= Len(build[b].plan) /\ Working(b)
  BY AJob DEF FillPackage, Using, JobOK
<1>2. UNCHANGED <<second, builds, source, object, uploaded, shared>>
  BY DEF FillPackage, tree
<1>3. ~shared => OwnPrograms'
  <2>1. ~shared => Packed(b).program = ControlOf(b).id /\ Packed(b).metadata = ControlOf(b).id
    BY DEF DirsInv, FillPackage, Packed
  <2>2. PICK c : c = PackageOf(b)
    OBVIOUS
  <2>3. PICK content \in {Packed(b), Torn, packages[c]} : packages' = [packages EXCEPT ![c] = content]
    BY <2>2 DEF FillPackage
  <2> QED
    BY <2>1, <2>2, <2>3 DEF DirsInv, OwnPrograms, Torn, PackageOf
<1>4. CASE build' = [build EXCEPT ![b].stage = "upload"]
  <2>1. source' = [d \in Dirs |-> source'[d]] /\ object' = [d \in Dirs |-> object'[d]]
    BY <1>2 DEF JobsInv
  <2> QED
    BY <1>1, <1>2, <1>3, <1>4, <2>1, StageStep
<1>5. CASE build' = [build EXCEPT ![b] = Failed(@)]
  BY <1>1, <1>2, <1>3, <1>5, FailsStep
<1> QED
  BY <1>4, <1>5 DEF FillPackage

LEMMA UploadStep ==
  ASSUME JobsInv, DirsInv, NEW b \in Builders, SignAndUpload(b)
  PROVE  JobsInv' /\ DirsInv'
<1> DEFINE o == build[b]
           c == o.plan[o.at]
           up == Append(uploaded, [name |-> c.id, data |-> "placeholder"])
           ready == [c EXCEPT !.status = o.ready, !.artifact = Len(uploaded) + 1]
<1>1. /\ Working(b) /\ o \in Job /\ JobOK(o) /\ UploadsOK(o, uploaded)
      /\ o.at <= Len(o.plan)
  BY AJob DEF SignAndUpload, JobOK
<1>2. CASE Fails(b)
  BY <1>1, <1>2, FailsStep DEF Fails, DirsInv, OwnPrograms
<1>3. CASE /\ uploaded' = up
           /\ build' = [build EXCEPT ![b] = Finished(o, ready)]
           /\ UNCHANGED <<second, builds, tree, files>>
  <2>1. c \in Control /\ o.ready \in {"artifact_ready", "updated"}
    BY <1>1 DEF JobOK, Job
  <2>2. uploaded \in Seq(Artifact) /\ Len(uploaded) \in Nat
    BY DEF JobsInv
  <2>3. PICK r : r = ready
    OBVIOUS
  <2>4. r \in Control /\ r.status # "failed" /\ r.artifact = Len(uploaded) + 1 /\ r.id = c.id
    <3>1. PICK n \in Nat : n = Len(uploaded) + 1
      BY <2>2
    <3>2. PICK x \in Control, s \in {"artifact_ready", "updated"} : x = c /\ s = o.ready
      BY <2>1
    <3>3. r = [x EXCEPT !.status = s, !.artifact = n]
      BY <2>3, <3>1, <3>2
    <3>4. r \in Control /\ r.status = s /\ r.artifact = n /\ r.id = x.id
      BY <3>3 DEF Control
    <3> QED
      BY <3>1, <3>2, <3>4
  <2>5. [name |-> c.id, data |-> "placeholder"] \in Artifact
    BY <2>1 DEF Control, Artifact
  <2>6. /\ uploaded' \in Seq(Artifact) /\ Len(uploaded') = Len(uploaded) + 1
        /\ \A i \in 1..Len(uploaded) : uploaded'[i] = uploaded[i]
        /\ uploaded'[Len(uploaded) + 1].name = c.id
    BY <1>3, <2>2, <2>5
  <2>7. UploadsOK(o, uploaded')
    BY <1>1, <2>2, <2>6, UploadsGrow
  <2>8. PICK q : q = Finished(o, r)
    OBVIOUS
  <2>9. q \in Job /\ q.stage = "next" /\ JobOK(q) /\ UploadsOK(q, uploaded')
    BY <1>1, <2>2, <2>4, <2>6, <2>7, <2>8, FinishedJob
  <2>10. build' = [build EXCEPT ![b] = q]
    BY <1>3, <2>3, <2>8
  <2>11. Len(uploaded') >= Len(uploaded)
    BY <2>2, <2>6
  <2> HIDE DEF up, ready
  <2> QED
    BY <1>3, <2>6, <2>9, <2>10, <2>11, EndStep DEF DirsInv, OwnPrograms
<1> QED
  BY <1>2, <1>3 DEF SignAndUpload, ControlOf

LEMMA RespondStep ==
  ASSUME JobsInv, DirsInv, NEW b \in Builders, RespondPlan(b)
  PROVE  JobsInv' /\ DirsInv'
<1>1. /\ build' = [build EXCEPT ![b] = Resting]
      /\ UNCHANGED <<second, tree, files, uploaded>>
  BY DEF RespondPlan
<1>2. uploaded' \in Seq(Artifact) /\ Len(uploaded') >= Len(uploaded)
  BY <1>1 DEF JobsInv
<1>3. ~shared => OwnPrograms'
  BY <1>1 DEF DirsInv, OwnPrograms
<1> QED
  BY <1>1, <1>2, <1>3, EndStep

(***************************************************************************)
(* The steps that are no handler's.                                        *)
(***************************************************************************)
LEMMA RestStep ==
  ASSUME JobsInv, DirsInv, PacksInv, BuildTick \/ UNCHANGED buildVars
  PROVE  JobsInv' /\ DirsInv' /\ PacksInv'
<1>1. second' \in 0..MaxSecond /\ UNCHANGED <<build, source, object, uploaded, shared, packages, spoilt>>
  BY BuildAssumption DEF BuildTick, JobsInv, buildVars, tree, files
<1>2. JobsInv'
  BY <1>1 DEF JobsInv, Working
<1>3. DirsInv'
  BY <1>1 DEF DirsInv, OwnPrograms, Working, Using, ControlOf
<1>4. PacksInv'
  BY <1>1 DEF PacksInv, HasFile, FileOK, PackageOf, Working, ControlOf
<1> QED
  BY <1>2, <1>3, <1>4

(***************************************************************************)
(* A handler that leaves the package files alone, and holds none after.    *)
(***************************************************************************)
LEMMA PacksKept ==
  ASSUME JobsInv, PacksInv, NEW b \in Builders, NEW q, build' = [build EXCEPT ![b] = q],
         q.stage \notin {"fill", "upload"}, UNCHANGED files
  PROVE  PacksInv'
<1>1. build'[b] = q /\ \A x \in Builders \ {b} : build'[x] = build[x]
  BY DEF JobsInv
<1>2. \A x \in Builders : HasFile(x)' => x # b /\ HasFile(x) /\ build'[x] = build[x]
                                       /\ PackageOf(x)' = PackageOf(x)
  BY <1>1 DEF HasFile, Working, PackageOf, ControlOf
<1>3. packages' = packages /\ spoilt' = spoilt
  BY DEF files
<1> SUFFICES ASSUME NEW x \in Builders, HasFile(x)'
             PROVE  /\ PackageOf(x)' \in DOMAIN packages'
                    /\ PackageOf(x)' \notin spoilt' => FileOK(x)'
  BY DEF PacksInv
<1>4. PackageOf(x) \in DOMAIN packages /\ (PackageOf(x) \notin spoilt => FileOK(x))
  BY <1>2 DEF PacksInv
<1>5. PackageOf(x) \notin spoilt => FileOK(x)'
  BY <1>2, <1>3, <1>4 DEF FileOK
<1> QED
  BY <1>2, <1>3, <1>4, <1>5

LEMMA StepsKeepPacks ==
  ASSUME JobsInv, PacksInv, NEW b \in Builders,
         \/ \E p \in Plans, r \in {"artifact_ready", "updated"} : ReceivePlan(b, p, r)
         \/ NextControl(b) \/ CopyTemplate(b) \/ CompileBPF(b) \/ SignAndUpload(b)
         \/ RespondPlan(b) \/ (Fails(b) /\ Working(b))
  PROVE  PacksInv'
<1> SUFFICES \E q : /\ build' = [build EXCEPT ![b] = q] /\ UNCHANGED files
                    /\ q.stage \notin {"fill", "upload"}
  BY PacksKept
<1>1. ASSUME NEW p \in Plans, NEW r \in {"artifact_ready", "updated"}, ReceivePlan(b, p, r)
      PROVE  \E q : /\ build' = [build EXCEPT ![b] = q] /\ UNCHANGED files
                    /\ q.stage \notin {"fill", "upload"}
  <2>1. PICK q : q = [stage |-> "next", plan |-> p, at |-> 1, dir |-> NoArtifact,
                      ready |-> r, response |-> <<>>]
    OBVIOUS
  <2>2. q.stage = "next" /\ build' = [build EXCEPT ![b] = q] /\ UNCHANGED files
    BY <1>1, <2>1 DEF ReceivePlan
  <2> QED
    BY <2>2
<1>2. CASE RespondPlan(b)
  <2>1. Resting.stage = "resting" /\ build' = [build EXCEPT ![b] = Resting] /\ UNCHANGED files
    BY <1>2 DEF RespondPlan, Resting
  <2> QED
    BY <2>1
<1>3. ASSUME Working(b), Fails(b)
      PROVE  \E q : /\ build' = [build EXCEPT ![b] = q] /\ UNCHANGED files
                    /\ q.stage \notin {"fill", "upload"}
  <2>1. PICK q : q = Failed(build[b])
    OBVIOUS
  <2>2. build[b] \in Job
    BY <1>3, AJob
  <2>3. q.stage = "next"
    BY <2>1, <2>2 DEF Failed, Job
  <2>4. build' = [build EXCEPT ![b] = q] /\ UNCHANGED files
    BY <1>3, <2>1 DEF Fails, JobsInv
  <2> QED
    BY <2>3, <2>4
<1>4. ASSUME Working(b), NEW c, build' = [build EXCEPT ![b] = Finished(build[b], c)],
             UNCHANGED files
      PROVE  \E q : /\ build' = [build EXCEPT ![b] = q] /\ UNCHANGED files
                    /\ q.stage \notin {"fill", "upload"}
  <2>1. PICK q : q = Finished(build[b], c)
    OBVIOUS
  <2>2. build[b] \in Job
    BY <1>4, AJob
  <2>3. q.stage = "next"
    BY <2>1, <2>2 DEF Finished, Job
  <2> QED
    BY <1>4, <2>1, <2>3
<1>5. ASSUME Working(b), NEW s \in {"copy", "make", "pack"}, NEW d,
             build' = [build EXCEPT ![b] = [build[b] EXCEPT !.stage = s, !.dir = d]],
             UNCHANGED files
      PROVE  \E q : /\ build' = [build EXCEPT ![b] = q] /\ UNCHANGED files
                    /\ q.stage \notin {"fill", "upload"}
  <2>1. PICK q : q = [build[b] EXCEPT !.stage = s, !.dir = d]
    OBVIOUS
  <2>2. build[b] \in Job
    BY <1>5, AJob
  <2>3. q.stage = s
    BY <2>1, <2>2 DEF Job
  <2> QED
    BY <1>5, <2>1, <2>3
<1>6. CASE NextControl(b)
  <2>1. CASE Fails(b)
    BY <1>3, <1>6, <2>1 DEF NextControl
  <2>2. CASE build' = [build EXCEPT ![b] = Finished(build[b], ControlOf(b))] /\ UNCHANGED files
    BY <1>4, <1>6, <2>2 DEF NextControl
  <2>3. CASE /\ build' = [build EXCEPT ![b] = [build[b] EXCEPT
                       !.stage = "copy", !.dir = <<TemplateOf(ControlOf(b).type), second>>]]
             /\ UNCHANGED files
    BY <1>5, <1>6, <2>3 DEF NextControl
  <2> QED
    BY <1>6, <2>1, <2>2, <2>3 DEF NextControl
<1>7. ASSUME NEW s \in {"make", "pack"}, Working(b), UNCHANGED files,
             build' = [build EXCEPT ![b].stage = s]
      PROVE  \E q : /\ build' = [build EXCEPT ![b] = q] /\ UNCHANGED files
                    /\ q.stage \notin {"fill", "upload"}
  <2>1. PICK q : q = [build[b] EXCEPT !.stage = s]
    OBVIOUS
  <2>2. build[b] \in Job
    BY <1>7, AJob
  <2>3. q.stage = s
    BY <2>1, <2>2 DEF Job
  <2>4. build' = [build EXCEPT ![b] = q]
    BY <1>7, <2>1 DEF JobsInv
  <2> QED
    BY <1>7, <2>3, <2>4
<1>8. CASE CopyTemplate(b)
  BY <1>7, <1>8 DEF CopyTemplate
<1>9. CASE CompileBPF(b)
  BY <1>3, <1>7, <1>9 DEF CompileBPF
<1>10. CASE SignAndUpload(b)
  BY <1>3, <1>4, <1>10 DEF SignAndUpload
<1> QED
  BY <1>1, <1>2, <1>3, <1>6, <1>8, <1>9, <1>10

LEMMA CreateKeepsPacks ==
  ASSUME JobsInv, PacksInv, NEW b \in Builders, CreatePackage(b)
  PROVE  PacksInv'
<1>1. CASE Fails(b)
  BY <1>1, StepsKeepPacks DEF CreatePackage
<1>2. CASE ~Fails(b)
  <2>1. PICK c : c = PackageOf(b)
    OBVIOUS
  <2>2. /\ packages' = [x \in DOMAIN packages \cup {c} |-> IF x = c THEN Empty ELSE packages[x]]
        /\ spoilt' = IF HasPackage(c, b) THEN spoilt \cup {c} ELSE spoilt \ {c}
        /\ build' = [build EXCEPT ![b].stage = "fill"]
    BY <1>2, <2>1 DEF CreatePackage
  <2>3. build[b] \in Job /\ build[b].stage = "pack"
    BY AJob DEF CreatePackage
  <2>4. /\ build'[b].stage = "fill" /\ PackageOf(b)' = c
        /\ \A x \in Builders \ {b} : build'[x] = build[x] /\ PackageOf(x)' = PackageOf(x)
    BY <2>1, <2>2, <2>3 DEF JobsInv, Job, PackageOf, ControlOf
  <2>5. \A x \in Builders \ {b} : HasFile(x)' = HasFile(x)
    BY <2>4 DEF HasFile, Working
  <2>6. HasPackage(c, b) <=> \E x \in Builders \ {b} : HasFile(x) /\ PackageOf(x) = c
    BY DEF HasPackage, HasFile
  <2>7. ASSUME NEW x \in Builders, HasFile(x)'
        PROVE  /\ PackageOf(x)' \in DOMAIN packages'
               /\ PackageOf(x)' \notin spoilt' => FileOK(x)'
    <3>1. CASE x = b
      <4>1. c \notin spoilt' => \A y \in Builders \ {b} : ~(HasFile(y) /\ PackageOf(y) = c)
        BY <2>2, <2>6
      <4> QED
        BY <2>2, <2>4, <2>5, <3>1, <4>1 DEF FileOK
    <3>2. CASE x # b
      <4>1. HasFile(x) /\ PackageOf(x)' = PackageOf(x) /\ build'[x] = build[x]
        BY <2>4, <2>5, <2>7, <3>2
      <4>2. PackageOf(x) \in DOMAIN packages /\ (PackageOf(x) \notin spoilt => FileOK(x))
        BY <4>1 DEF PacksInv
      <4>3. PackageOf(x) = c => c \in spoilt'
        BY <2>2, <2>6, <3>2, <4>1
      <4>4. ASSUME PackageOf(x) # c, PackageOf(x) \notin spoilt' PROVE FileOK(x)'
        <5>1. FileOK(x) /\ packages'[PackageOf(x)] = packages[PackageOf(x)]
          BY <2>2, <4>2, <4>4
        <5>2. \A y \in Builders : HasFile(y)' /\ PackageOf(y)' = PackageOf(x)' => y = x
          BY <2>4, <2>5, <4>1, <4>4, <5>1 DEF FileOK
        <5> QED
          BY <4>1, <5>1, <5>2 DEF FileOK
      <4> QED
        BY <2>2, <4>1, <4>2, <4>3, <4>4
    <3> QED
      BY <3>1, <3>2
  <2> QED
    BY <2>7 DEF PacksInv
<1> QED
  BY <1>1, <1>2

LEMMA FillKeepsPacks ==
  ASSUME JobsInv, PacksInv, NEW b \in Builders, FillPackage(b)
  PROVE  PacksInv'
<1>1. PICK c : c = PackageOf(b)
  OBVIOUS
<1>2. HasFile(b) /\ build[b] \in Job /\ build[b].stage = "fill" /\ c \in DOMAIN packages
      /\ (c \notin spoilt => FileOK(b))
  BY <1>1, AJob DEF FillPackage, HasFile, PacksInv
<1>3. /\ spoilt \subseteq spoilt' /\ spoilt' \subseteq spoilt \cup {c}
      /\ DOMAIN packages' = DOMAIN packages
      /\ \A k \in DOMAIN packages \ {c} : packages'[k] = packages[k]
  BY <1>1 DEF FillPackage
<1>4. \A x \in Builders \ {b} : /\ build'[x] = build[x] /\ PackageOf(x)' = PackageOf(x)
                                /\ HasFile(x)' = HasFile(x)
  BY DEF FillPackage, JobsInv, PackageOf, ControlOf, HasFile, Working
<1>5. \A x \in Builders \ {b} : HasFile(x) /\ PackageOf(x) = c => c \in spoilt
  BY <1>1, <1>2 DEF FileOK
<1>6. HasFile(b)' => PackageOf(b)' = c /\ build'[b].stage = "upload"
                     /\ (c \notin spoilt' => packages'[c].state = "whole")
  <2>1. CASE build' = [build EXCEPT ![b].stage = "upload"]
    <3>1. build'[b].stage = "upload" /\ PackageOf(b)' = c
      BY <1>1, <1>2, <2>1 DEF JobsInv, Job, PackageOf, ControlOf
    <3>2. ASSUME c \notin spoilt' PROVE packages'[c].state = "whole"
      <4>1. packages[c] = Empty
        BY <1>1, <1>2, <1>3, <3>2 DEF FileOK
      <4>2. build' # [build EXCEPT ![b] = Failed(@)]
        <5>1. PICK q : q = Failed(build[b])
          OBVIOUS
        <5>2. q.stage = "next"
          BY <1>2, <5>1 DEF Failed, Job
        <5>3. [build EXCEPT ![b] = Failed(@)][b] = q
          BY <5>1 DEF JobsInv
        <5> QED
          BY <3>1, <5>2, <5>3
      <4>3. packages' = [packages EXCEPT ![c] = Packed(b)]
        BY <1>1, <3>2, <4>1, <4>2 DEF FillPackage
      <4> QED
        BY <1>2, <4>3 DEF Packed
    <3> QED
      BY <3>1, <3>2
  <2>2. CASE build' = [build EXCEPT ![b] = Failed(@)]
    <3>1. PICK q : q = Failed(build[b])
      OBVIOUS
    <3>2. q.stage = "next"
      BY <1>2, <3>1 DEF Failed, Job
    <3>3. build'[b] = q
      BY <2>2, <3>1 DEF JobsInv
    <3> QED
      BY <3>2, <3>3 DEF HasFile
  <2> QED
    BY <2>1, <2>2 DEF FillPackage
<1>7. ASSUME NEW x \in Builders, HasFile(x)'
      PROVE  /\ PackageOf(x)' \in DOMAIN packages'
             /\ PackageOf(x)' \notin spoilt' => FileOK(x)'
  <2>1. CASE x = b
    BY <1>2, <1>3, <1>4, <1>5, <1>6, <1>7, <2>1 DEF FileOK
  <2>2. CASE x # b
    <3>1. HasFile(x) /\ PackageOf(x)' = PackageOf(x) /\ build'[x] = build[x]
      BY <1>4, <1>7, <2>2
    <3>2. PackageOf(x) \in DOMAIN packages /\ (PackageOf(x) \notin spoilt => FileOK(x))
      BY <3>1 DEF PacksInv
    <3>3. ASSUME PackageOf(x) \notin spoilt' PROVE FileOK(x)'
      <4>1. FileOK(x) /\ PackageOf(x) # c
        BY <1>3, <1>5, <2>2, <3>1, <3>2, <3>3
      <4>2. \A y \in Builders : HasFile(y)' /\ PackageOf(y)' = PackageOf(x)' => y = x
        BY <1>4, <1>6, <3>1, <4>1 DEF FileOK
      <4>3. packages'[PackageOf(x)] = packages[PackageOf(x)]
        BY <1>3, <3>2, <4>1
      <4> QED
        BY <3>1, <4>1, <4>2, <4>3 DEF FileOK
    <3> QED
      BY <1>3, <3>1, <3>2, <3>3
  <2> QED
    BY <2>1, <2>2
<1> QED
  BY <1>7 DEF PacksInv

(***************************************************************************)
(* Whatever the handlers interleave and whatever fails midway: packages    *)
(* that are whole hold their own programs unless a render directory was    *)
(* shared, a package is whole when it is uploaded unless its file was      *)
(* shared or its end could not be written, the plan kept and the response  *)
(* given agree, and only uploaded artifacts are deployed (processor.go,    *)
(* ebpf/orchestrator.go, ebpf/pack.go).                                    *)
(***************************************************************************)
THEOREM BuildsHold == BuildSpec => []BuildsSound
<1>1. JobsInv /\ DirsInv /\ PacksInv /\ [BuildNext]_buildVars => JobsInv' /\ DirsInv' /\ PacksInv'
  <2> SUFFICES ASSUME JobsInv, DirsInv, PacksInv, [BuildNext]_buildVars
               PROVE  JobsInv' /\ DirsInv' /\ PacksInv'
    OBVIOUS
  <2>1. ASSUME NEW b \in Builders,
               \/ \E p \in Plans : ReceivePlan(b, p, "artifact_ready")
               \/ \E p \in Plans : Len(p) = 1 /\ ReceivePlan(b, p, "updated")
        PROVE  JobsInv' /\ DirsInv' /\ PacksInv'
    BY <2>1, ReceiveStep, StepsKeepPacks
  <2>2. ASSUME NEW b \in Builders,
               \/ NextControl(b) \/ CopyTemplate(b) \/ CompileBPF(b)
               \/ SignAndUpload(b) \/ RespondPlan(b)
        PROVE  JobsInv' /\ DirsInv' /\ PacksInv'
    BY <2>2, NextControlStep, CopyStep, CompileStep, UploadStep, RespondStep, StepsKeepPacks
  <2>3. ASSUME NEW b \in Builders, CreatePackage(b) \/ FillPackage(b)
        PROVE  JobsInv' /\ DirsInv' /\ PacksInv'
    BY <2>3, CreateStep, FillStep, CreateKeepsPacks, FillKeepsPacks
  <2>4. CASE BuildTick \/ UNCHANGED buildVars
    BY <2>4, RestStep
  <2> QED
    BY <2>1, <2>2, <2>3, <2>4 DEF BuildNext
<1> QED
  BY <1>1, InitBuild, BuildInvSound, PTL DEF BuildSpec
HIDE DEF tree, files

-----------------------------------------------------------------------------
(***************************************************************************)
(* The plan pipeline.  A handler's request keeps its parts; one that ends  *)
(* in the store has targets and intents, and a control for each intent it  *)
(* is done with.                                                           *)
(***************************************************************************)
Hosts == {f.host : f \in Findings} \cup {"unknown-host", "db-01", "lb-01", "app-01", "peer-01"}
Artifacts == SUBSET {"ebpf", "nftables", "cilium"}

Request == [stage : {"intent", "ask", "charge", "tools", "store"}, kind : {"plan", "policy"},
            targets : Seq(Hosts), mode : {"enforce", "canary", "suggest", "observe", ""},
            intents : Seq(IntentTypes), controls : Seq(Artifacts), round : 0..2, id : Nat,
            calls : Seq(Tools)]

Usable(q) ==
    /\ Len(q.targets) \in 1..CanaryLimit
    /\ Len(q.intents) \in 1..3 /\ Len(q.controls) <= Len(q.intents)
    /\ q.stage \in {"ask", "charge", "tools"} => Len(q.controls) < Len(q.intents)
    /\ q.stage = "store" => Len(q.controls) = Len(q.intents)

RequestOK(q) ==
    /\ q \in Request
    /\ \A c \in 1..Len(q.controls) : q.controls[c] # {}
    /\ IF q.kind = "plan" THEN Usable(q) ELSE q.stage # "store"

RequestsInv ==
    /\ handling \in [PlanHandlers -> Request \cup {Waiting}]
    /\ \A h \in PlanHandlers : Busy(h) => RequestOK(handling[h])

(* The budget: every number recorded is within its limit, and each handler *)
(* that is about to call a model, or about to run the tools of a call it   *)
(* was charged for, has a recorded request that no call has used.          *)
BudgetInv ==
    /\ minute \in Nat
    /\ \A m \in DOMAIN counts : counts[m] \in Nat /\ counts[m] <= RateLimit
    /\ \A x \in DOMAIN costs : costs[x] \in Nat /\ costs[x] <= MaxCost

Admitted(q) == q.stage \in {"ask", "tools"}
Holders == {h \in PlanHandlers : Busy(h) /\ Admitted(handling[h])}

AdmittedInv ==
    asked \in Nat /\ recorded \in Nat /\ asked + Cardinality(Holders) <= recorded

StoreInv ==
    /\ order \in Nat /\ IsFiniteSet(DOMAIN plans)
    /\ \A i \in DOMAIN plans : plans[i].made \in Nat
    /\ PlanUsable /\ StoreBounded

PlansInv == RequestsInv /\ BudgetInv /\ AdmittedInv /\ StoreInv /\ ToolsAllowed

LEMMA PlansInvSound == PlansInv => PlansSound
<1> SUFFICES ASSUME PlansInv PROVE PlansSound
  OBVIOUS
<1> DEFINE A == {h \in PlanHandlers : Busy(h) /\ handling[h].stage = "ask"}
<1>1. A \in SUBSET Holders /\ IsFiniteSet(Holders)
  BY PlansAssumption, FS_Subset DEF Holders, Admitted
<1>2. Cardinality(A) \in Nat /\ Cardinality(Holders) \in Nat /\ Cardinality(A) <= Cardinality(Holders)
  BY <1>1, FS_Subset, FS_CardinalityType
<1>3. CallsWereAdmitted
  BY <1>2 DEF CallsWereAdmitted, PlansInv, AdmittedInv
<1>4. BudgetKept
  BY DEF BudgetKept, PlansInv, BudgetInv
<1> QED
  BY <1>3, <1>4 DEF PlansSound, PlansInv, StoreInv

LEMMA InitPlans == PlansInit => PlansInv
<1> SUFFICES ASSUME PlansInit PROVE PlansInv
  OBVIOUS
<1>1. \A h \in PlanHandlers : handling[h] = Waiting
  BY DEF PlansInit
<1>2. RequestsInv
  BY <1>1 DEF PlansInit, RequestsInv, Busy
<1>3. BudgetInv
  BY DEF PlansInit, BudgetInv
<1>4. AdmittedInv
  <2>1. Holders = {}
    BY <1>1 DEF Holders, Busy
  <2> QED
    BY <2>1, FS_EmptySet DEF PlansInit, AdmittedInv
<1>5. StoreInv
  <2>1. plans = <<>> /\ DOMAIN plans = {} /\ order = 0
    BY DEF PlansInit
  <2> QED
    BY <2>1, FS_EmptySet, PlansAssumption DEF StoreInv, PlanUsable, StoreBounded
<1>6. ToolsAllowed
  BY DEF PlansInit, ToolsAllowed
<1> QED
  BY <1>2, <1>3, <1>4, <1>5, <1>6 DEF PlansInv

(***************************************************************************)
(* The handlers that hold an admission, when one handler goes on to q.     *)
(***************************************************************************)
LEMMA RequestStep ==
  ASSUME RequestsInv, NEW h \in PlanHandlers, NEW q \in Request \cup {Waiting}, Becomes(h, q),
         q # Waiting => RequestOK(q)
  PROVE  /\ RequestsInv'
         /\ IsFiniteSet(Holders) /\ IsFiniteSet(Holders')
         /\ Cardinality(Holders) \in Nat /\ Cardinality(Holders') \in Nat
         /\ q # Waiting /\ Admitted(q) => Holders' = Holders \cup {h}
         /\ q = Waiting \/ ~Admitted(q) => Holders' = Holders \ {h}
<1>1. /\ handling' \in [PlanHandlers -> Request \cup {Waiting}] /\ handling'[h] = q
      /\ \A k \in PlanHandlers \ {h} : handling'[k] = handling[k]
  BY DEF RequestsInv, Becomes
<1>2. RequestsInv'
  BY <1>1 DEF RequestsInv, Busy
<1>3. Holders \in SUBSET PlanHandlers /\ Holders' \in SUBSET PlanHandlers
  BY DEF Holders
<1>4. IsFiniteSet(Holders) /\ IsFiniteSet(Holders')
  BY <1>3, PlansAssumption, FS_Subset
<1>5. Cardinality(Holders) \in Nat /\ Cardinality(Holders') \in Nat
  BY <1>4, FS_CardinalityType
<1>6. q # Waiting /\ Admitted(q) => Holders' = Holders \cup {h}
  BY <1>1 DEF Holders, Busy
<1>7. q = Waiting \/ ~Admitted(q) => Holders' = Holders \ {h}
  BY <1>1 DEF Holders, Busy
<1> QED
  BY <1>2, <1>4, <1>5, <1>6, <1>7

(***************************************************************************)
(* Admissions are spent one by one: a handler that did not hold one needs  *)
(* a new record, and a call gives one back.                                *)
(***************************************************************************)
LEMMA AdmittedStep ==
  ASSUME PlansInv, NEW h \in PlanHandlers, NEW q \in Request \cup {Waiting}, Becomes(h, q),
         q # Waiting => RequestOK(q), asked' \in Nat, recorded' \in Nat, recorded' >= recorded,
         \/ /\ asked' = asked
            /\ \/ q = Waiting \/ ~Admitted(q) \/ recorded' >= recorded + 1
               \/ Busy(h) /\ Admitted(handling[h])
         \/ asked' = asked + 1 /\ (q = Waiting \/ ~Admitted(q)) /\ Busy(h) /\ Admitted(handling[h])
  PROVE  AdmittedInv' /\ RequestsInv'
<1>1. /\ RequestsInv' /\ IsFiniteSet(Holders)
      /\ Cardinality(Holders) \in Nat /\ Cardinality(Holders') \in Nat
      /\ q # Waiting /\ Admitted(q) => Holders' = Holders \cup {h}
      /\ q = Waiting \/ ~Admitted(q) => Holders' = Holders \ {h}
  BY RequestStep DEF PlansInv
<1>2. h \in Holders <=> Busy(h) /\ Admitted(handling[h])
  BY DEF Holders
<1>3. /\ Cardinality(Holders \cup {h}) =
            IF h \in Holders THEN Cardinality(Holders) ELSE Cardinality(Holders) + 1
      /\ Cardinality(Holders \ {h}) =
            IF h \in Holders THEN Cardinality(Holders) - 1 ELSE Cardinality(Holders)
  BY <1>1, FS_AddElement, FS_RemoveElement
<1>4. asked \in Nat /\ recorded \in Nat /\ asked + Cardinality(Holders) <= recorded
  BY DEF PlansInv, AdmittedInv
<1>5. asked' + Cardinality(Holders') <= recorded'
  <2>1. CASE q # Waiting /\ Admitted(q)
    BY <2>1, <1>1, <1>2, <1>3, <1>4
  <2>2. CASE q = Waiting \/ ~Admitted(q)
    BY <2>2, <1>1, <1>2, <1>3, <1>4
  <2> QED
    BY <2>1, <2>2
<1> QED
  BY <1>1, <1>5 DEF AdmittedInv

(***************************************************************************)
(* The parts of a request after the steps of an intent.                    *)
(***************************************************************************)
LEMMA UnchargedRequest ==
  ASSUME NEW q, RequestOK(q)
  PROVE  RequestOK(Uncharged(q)) /\ Uncharged(q).stage = q.stage /\ Uncharged(q).kind = q.kind
         /\ Uncharged(q).controls = q.controls /\ Uncharged(q).intents = q.intents
<1> DEFINE u == Uncharged(q)
<1>1. q \in Request /\ <<>> \in Seq(Tools)
  BY DEF RequestOK
<1>2. /\ u \in Request /\ u.stage = q.stage /\ u.kind = q.kind /\ u.targets = q.targets
      /\ u.controls = q.controls /\ u.intents = q.intents
  BY <1>1 DEF Uncharged, Request
<1> HIDE DEF u
<1>3. RequestOK(u)
  BY <1>2 DEF RequestOK, Usable
<1> QED
  BY <1>2, <1>3 DEF u

LEMMA NextIntentRequest ==
  ASSUME NEW q, RequestOK(q), q.kind = "plan" => Len(q.controls) < Len(q.intents),
         NEW failed \in BOOLEAN
  PROVE  /\ NextIntent(q, failed) \in Request /\ RequestOK(NextIntent(q, failed))
         /\ ~Admitted(NextIntent(q, failed))
<1> DEFINE n == NextIntent(q, failed)
<1>1. PICK a : a = FallbackArtifacts(Current(q), failed)
  OBVIOUS
<1>2. a \in Artifacts /\ a # {}
  BY <1>1 DEF FallbackArtifacts, Artifacts
<1>3. q \in Request /\ q.controls \in Seq(Artifacts) /\ q.intents \in Seq(IntentTypes)
  BY DEF RequestOK, Request
<1>4. PICK cs \in Seq(Artifacts) : cs = Append(q.controls, a)
  <2>1. PICK old \in Seq(Artifacts) : old = q.controls
    BY <1>3
  <2>2. Append(old, a) \in Seq(Artifacts)
    BY <1>2, <2>1
  <2> QED
    BY <2>1, <2>2
<1>5. n = [q EXCEPT !.controls = cs, !.round = 0, !.stage = "intent"]
  BY <1>1, <1>4, <1>3 DEF NextIntent, Request
<1>6. /\ n \in Request /\ n.stage = "intent" /\ n.kind = q.kind /\ n.targets = q.targets
      /\ n.intents = q.intents /\ n.controls = cs
  <2>1. 0 \in 0..2 /\ "intent" \in {"intent", "ask", "charge", "tools", "store"}
    OBVIOUS
  <2> HIDE DEF n
  <2>2. n \in Request
    BY <1>3, <1>5, <2>1 DEF Request
  <2>3. n.stage = "intent" /\ n.controls = cs
    BY <1>3, <1>5 DEF Request
  <2>4. n.kind = q.kind /\ n.targets = q.targets
    BY <1>3, <1>5 DEF Request
  <2>5. n.intents = q.intents
    BY <1>3, <1>5 DEF Request
  <2> QED
    BY <2>2, <2>3, <2>4, <2>5
<1> HIDE DEF n
<1>7. /\ Len(cs) = Len(q.controls) + 1 /\ Len(q.controls) \in Nat /\ Len(q.intents) \in Nat
      /\ \A c \in 1..Len(cs) : cs[c] # {}
  BY <1>2, <1>3, <1>4 DEF RequestOK
<1>8. RequestOK(n)
  BY <1>6, <1>7 DEF RequestOK, Usable
<1> QED
  BY <1>6, <1>8 DEF n, Admitted

LEMMA StagedRequest ==
  ASSUME NEW q, RequestOK(q), q.kind = "plan" => Len(q.controls) < Len(q.intents),
         NEW s \in {"ask", "charge", "tools"}, NEW r \in 0..2, NEW calls \in Seq(Tools)
  PROVE  LET n == [q EXCEPT !.stage = s, !.round = r, !.calls = calls]
         IN  n \in Request /\ n.stage = s /\ RequestOK(n)
<1> DEFINE n == [q EXCEPT !.stage = s, !.round = r, !.calls = calls]
<1>1. q \in Request
  BY DEF RequestOK
<1>2. /\ n \in Request /\ n.stage = s /\ n.kind = q.kind /\ n.targets = q.targets
      /\ n.intents = q.intents /\ n.controls = q.controls
  BY <1>1 DEF Request
<1> HIDE DEF n
<1>3. RequestOK(n)
  BY <1>2 DEF RequestOK, Usable
<1> QED
  BY <1>2, <1>3 DEF n

LEMMA DraftUsable ==
  ASSUME NEW f \in Findings
  PROVE  LET d == BuildPlanDraft(f)
         IN  /\ d.targets \in Seq(Hosts) /\ Len(d.targets) = 1
             /\ d.intents \in Seq(IntentTypes) /\ Len(d.intents) = 1
             /\ d.mode \in {"enforce", "canary", "suggest", "observe", ""}
<1> DEFINE Draft == [targets : Seq(Hosts), intents : Seq(IntentTypes),
                     mode : {"enforce", "canary", "suggest", "observe", ""}]
           w == IF HasClient("planner") THEN FallbackDraft(f) ELSE EnhancedFallbackDraft(f)
<1>1. f.host \in Hosts /\ "unknown-host" \in Hosts /\ "policy" \in IntentTypes
  BY DEF Hosts, IntentTypes
<1>2. <<>> \in Seq(Hosts) /\ <<f.host>> \in Seq(Hosts) /\ <<"unknown-host">> \in Seq(Hosts)
      /\ <<>> \in Seq(IntentTypes) /\ <<"policy">> \in Seq(IntentTypes)
  BY <1>1
<1>3. /\ FallbackDraft(f).targets \in {<<>>, <<f.host>>}
      /\ FallbackDraft(f).intents \in {<<>>, <<"policy">>}
      /\ FallbackDraft(f).mode \in {"enforce", "canary", "suggest", "observe", ""}
      /\ FallbackDraft(f) \in Draft
  BY <1>2 DEF FallbackDraft
<1>4. /\ EnhancedFallbackDraft(f).targets \in {<<>>, <<f.host>>}
      /\ EnhancedFallbackDraft(f).intents \in {<<>>, <<"policy">>}
      /\ EnhancedFallbackDraft(f) \in Draft
  BY <1>2 DEF EnhancedFallbackDraft
<1>5. w \in Draft /\ w.targets \in {<<>>, <<f.host>>} /\ w.intents \in {<<>>, <<"policy">>}
  BY <1>3, <1>4
<1> HIDE DEF w
<1>6. FirstN(<<"policy">>, 3) \in Seq(IntentTypes) /\ Len(FirstN(<<"policy">>, 3)) = 1
  <2>1. PICK s \in Seq(IntentTypes) : s = <<"policy">> /\ Len(s) = 1
    BY <1>2
  <2>2. FirstN(s, 3) = SubSeq(s, 1, 1)
    BY <2>1 DEF FirstN
  <2>3. SubSeq(s, 1, 1) \in Seq(IntentTypes) /\ Len(SubSeq(s, 1, 1)) = 1
    BY <2>1
  <2> QED
    BY <2>1, <2>2, <2>3
<1>7. PICK ts, is : /\ ts = (IF w.targets = <<>> THEN <<"unknown-host">> ELSE w.targets)
                    /\ is = (IF w.intents = <<>> THEN <<"policy">> ELSE FirstN(w.intents, 3))
  OBVIOUS
<1>8. ts \in Seq(Hosts) /\ Len(ts) = 1 /\ is \in Seq(IntentTypes) /\ Len(is) = 1
  <2>1. Len(<<f.host>>) = 1 /\ Len(<<"unknown-host">>) = 1 /\ Len(<<"policy">>) = 1
    OBVIOUS
  <2>2. ts \in {<<f.host>>, <<"unknown-host">>} /\ is \in {<<"policy">>, FirstN(<<"policy">>, 3)}
    BY <1>5, <1>7
  <2> QED
    BY <1>2, <1>6, <2>1, <2>2
<1>9. Validated(w) = [w EXCEPT !.targets = ts, !.intents = is]
  BY <1>5, <1>7 DEF Validated
<1> QED
  BY <1>5, <1>8, <1>9 DEF BuildPlanDraft, w

LEMMA ExpandedTargets ==
  ASSUME NEW ts \in Seq(Hosts), Len(ts) >= 1
  PROVE  ExpandTargets(ts) \in Seq(Hosts) /\ Len(ExpandTargets(ts)) \in 1..CanaryLimit
<1>1. CanaryLimit \in Nat \ {0}
  BY PlansAssumption
<1>2. \A s \in Seq(Hosts) : /\ FirstN(s, CanaryLimit) \in Seq(Hosts)
                            /\ Len(FirstN(s, CanaryLimit)) =
                                  IF Len(s) < CanaryLimit THEN Len(s) ELSE CanaryLimit
  BY <1>1 DEF FirstN
<1>3. FallbackTargets(ts[1]) \in Seq(Hosts)
  <2>1. "db-01" \in Hosts /\ "lb-01" \in Hosts /\ "app-01" \in Hosts /\ "peer-01" \in Hosts
    BY DEF Hosts
  <2>2. <<"db-01", "lb-01">> \in Seq(Hosts) /\ <<"app-01">> \in Seq(Hosts)
        /\ <<"peer-01">> \in Seq(Hosts)
    BY <2>1
  <2> QED
    BY <2>2 DEF FallbackTargets
<1>4. PICK g \in Seq(Hosts) : g = FirstN(FallbackTargets(ts[1]), CanaryLimit)
  BY <1>2, <1>3
<1>5. PICK e \in Seq(Hosts) : e = ts \o g /\ Len(e) = Len(ts) + Len(g)
  <2>1. ts \o g \in Seq(Hosts)
    OBVIOUS
  <2>2. Len(ts \o g) = Len(ts) + Len(g)
    OBVIOUS
  <2> QED
    BY <2>1, <2>2, Zenon
<1>6. Len(e) \in Nat /\ Len(e) >= 1
  <2>1. Len(ts) \in Nat /\ Len(g) \in Nat
    OBVIOUS
  <2> QED
    BY <1>5, <2>1
<1>7. ExpandTargets(ts) = FirstN(e, CanaryLimit)
  BY <1>4, <1>5 DEF ExpandTargets
<1>8. FirstN(e, CanaryLimit) \in Seq(Hosts) /\ Len(FirstN(e, CanaryLimit)) \in 1..CanaryLimit
  <2>1. PICK l : l = Len(FirstN(e, CanaryLimit))
    OBVIOUS
  <2>2. FirstN(e, CanaryLimit) \in Seq(Hosts) /\ l = IF Len(e) < CanaryLimit THEN Len(e) ELSE CanaryLimit
    BY <1>2, <2>1
  <2>3. l \in 1..CanaryLimit
    BY <1>1, <1>6, <2>2
  <2> QED
    BY <2>1, <2>2, <2>3
<1> QED
  BY <1>7, <1>8

(***************************************************************************)
(* The budget after a check, and after none.                               *)
(***************************************************************************)
LEMMA BudgetStep ==
  ASSUME BudgetInv, minute' = minute, recorded \in Nat,
         (WithinBudget(CallCost) /\ Recorded(CallCost)) \/ Unrecorded
  PROVE  BudgetInv' /\ recorded' \in Nat /\ recorded' >= recorded
<1>1. CASE Unrecorded
  BY <1>1 DEF Unrecorded, BudgetInv
<1>2. CASE WithinBudget(CallCost) /\ Recorded(CallCost)
  <2>1. CallCost \in Nat /\ RateLimit \in Nat /\ MaxCost \in Nat
    BY PlansAssumption
  <2>2. \A k : At(counts, k) \in Nat /\ At(costs, k) \in Nat
    BY DEF At, BudgetInv
  <2>3. PICK n \in Nat : n = At(counts, minute) + 1 /\ n <= RateLimit
    BY <1>2, <2>1, <2>2 DEF WithinBudget
  <2>4. counts' = Put(counts, minute, n)
    BY <1>2, <2>3 DEF Recorded
  <2>5. \A m \in DOMAIN counts' : counts'[m] \in Nat /\ counts'[m] <= RateLimit
    BY <2>3, <2>4 DEF Put, BudgetInv
  <2>6. \A x \in DOMAIN costs' : costs'[x] \in Nat /\ costs'[x] <= MaxCost
    <3>1. CASE CallCost = 0
      BY <3>1, <1>2 DEF Recorded, BudgetInv
    <3>2. CASE CallCost # 0
      <4>1. PICK x : x = Hour
        OBVIOUS
      <4>2. PICK c \in Nat : c = At(costs, x) + CallCost /\ c <= MaxCost
        BY <3>2, <1>2, <2>1, <2>2, <4>1 DEF WithinBudget
      <4>3. costs' = Put(costs, x, c)
        BY <3>2, <1>2, <2>1, <4>1, <4>2 DEF Recorded
      <4> QED
        BY <4>2, <4>3 DEF Put, BudgetInv
    <3> QED
      BY <3>1, <3>2
  <2> QED
    BY <1>2, <2>5, <2>6 DEF BudgetInv, Recorded
<1> QED
  BY <1>1, <1>2

(***************************************************************************)
(* The store at its capacity has a plan to give up.                        *)
(***************************************************************************)
LEMMA OldestStored ==
  ASSUME StoreInv, DOMAIN plans # {}
  PROVE  Oldest \in DOMAIN plans
<1> DEFINE Made == {plans[i].made : i \in DOMAIN plans}
<1>1. Made \subseteq Nat /\ Made # {}
  BY DEF StoreInv
<1>2. PICK m \in Made : \A n \in Made : ~(<<n, m>> \in OpToRel(<, Nat))
  BY <1>1, NatLessThanWellFounded, WFMin, Zenon
<1>3. \A n \in Made : m <= n
  <2> SUFFICES ASSUME NEW n \in Made PROVE m <= n
    OBVIOUS
  <2>1. n \in Nat /\ m \in Nat
    BY <1>1
  <2>2. <<n, m>> \notin OpToRel(<, Nat)
    BY <1>2, Zenon
  <2>3. ~(n < m)
    BY <2>1, <2>2, Zenon DEF OpToRel
  <2> QED
    BY <2>1, <2>3
<1>4. \E i \in DOMAIN plans : \A j \in DOMAIN plans : plans[i].made <= plans[j].made
  BY <1>3
<1> QED
  BY <1>4 DEF Oldest

LEMMA StoreStep ==
  ASSUME StoreInv, NEW id, NEW rec, plans' = Put(MakeRoom, id, rec), order' = order + 1,
         rec.made \in Nat, Len(rec.targets) \in 1..CanaryLimit, Len(rec.controls) \in 1..3,
         \A c \in DOMAIN rec.controls : rec.controls[c] # {}
  PROVE  StoreInv'
<1> DEFINE room == MakeRoom
<1>1. /\ IsFiniteSet(DOMAIN plans) /\ Cardinality(DOMAIN plans) \in Nat
      /\ Cardinality(DOMAIN plans) <= Capacity /\ Capacity \in Nat \ {0}
  BY PlansAssumption, FS_CardinalityType DEF StoreInv, StoreBounded
<1>2. /\ IsFiniteSet(DOMAIN room) /\ Cardinality(DOMAIN room) <= Capacity - 1
      /\ DOMAIN room \subseteq DOMAIN plans /\ \A i \in DOMAIN room : room[i] = plans[i]
  <2>1. CASE Cardinality(DOMAIN plans) >= Capacity
    <3>1. DOMAIN plans # {}
      BY <2>1, <1>1, FS_EmptySet
    <3>2. Oldest \in DOMAIN plans
      BY <3>1, OldestStored
    <3>3. room = [i \in DOMAIN plans \ {Oldest} |-> plans[i]]
      BY <2>1 DEF MakeRoom
    <3>4. IsFiniteSet(DOMAIN plans \ {Oldest})
          /\ Cardinality(DOMAIN plans \ {Oldest}) = Cardinality(DOMAIN plans) - 1
      BY <3>2, <1>1, FS_RemoveElement
    <3>5. DOMAIN room = DOMAIN plans \ {Oldest}
      BY <3>3
    <3> QED
      BY <3>3, <3>4, <3>5, <1>1
  <2>2. CASE ~(Cardinality(DOMAIN plans) >= Capacity)
    <3>1. room = plans
      BY <2>2 DEF MakeRoom
    <3> QED
      BY <2>2, <3>1, <1>1
  <2> QED
    BY <2>1, <2>2
<1> HIDE DEF room
<1>3. /\ DOMAIN plans' = DOMAIN room \cup {id}
      /\ \A i \in DOMAIN plans' : plans'[i] = IF i = id THEN rec ELSE room[i]
  BY DEF Put, room
<1>4. IsFiniteSet(DOMAIN room \cup {id}) /\ Cardinality(DOMAIN room) \in Nat
      /\ Cardinality(DOMAIN room \cup {id}) <= Cardinality(DOMAIN room) + 1
  <2>1. PICK D : D = DOMAIN room
    OBVIOUS
  <2>2. IsFiniteSet(D) /\ Cardinality(D) \in Nat
    BY <1>2, <2>1, FS_CardinalityType
  <2>3. IsFiniteSet(D \cup {id}) /\ Cardinality(D \cup {id}) =
            IF id \in D THEN Cardinality(D) ELSE Cardinality(D) + 1
    BY <2>2, FS_AddElement
  <2> QED
    BY <2>1, <2>2, <2>3
<1>5. IsFiniteSet(DOMAIN plans') /\ StoreBounded'
  <2>1. PICK n, c : n \in Nat /\ n = Cardinality(DOMAIN room) /\ c = Cardinality(DOMAIN plans')
    BY <1>4
  <2>2. c = Cardinality(DOMAIN room \cup {id}) /\ c \in Nat
    BY <1>3, <1>4, <2>1, FS_CardinalityType
  <2>3. c <= Capacity
    BY <1>1, <1>2, <1>4, <2>1, <2>2
  <2> QED
    BY <1>3, <1>4, <2>1, <2>3 DEF StoreBounded
<1>6. PlanUsable' /\ \A i \in DOMAIN plans' : plans'[i].made \in Nat
  BY <1>2, <1>3 DEF StoreInv, PlanUsable
<1> QED
  BY <1>5, <1>6 DEF StoreInv

(***************************************************************************)
(* The steps of the handlers, and of the budget's own goroutine.           *)
(***************************************************************************)
LEMMA ARequest ==
  ASSUME PlansInv, NEW h \in PlanHandlers, Busy(h)
  PROVE  /\ handling[h] \in Request /\ RequestOK(handling[h])
         /\ asked \in Nat /\ recorded \in Nat
         /\ handling[h].kind = "plan" /\ handling[h].stage \in {"ask", "charge", "tools"} =>
               Len(handling[h].controls) < Len(handling[h].intents)
  BY DEF PlansInv, RequestsInv, Busy, RequestOK, Usable, AdmittedInv

LEMMA PlanOf ==
  ASSUME PlansInv, NEW h \in PlanHandlers, NEW q \in Request \cup {Waiting}, Becomes(h, q),
         q # Waiting => RequestOK(q), asked' \in Nat, recorded' \in Nat, recorded' >= recorded,
         \/ /\ asked' = asked
            /\ \/ q = Waiting \/ ~Admitted(q) \/ recorded' >= recorded + 1
               \/ Busy(h) /\ Admitted(handling[h])
         \/ asked' = asked + 1 /\ (q = Waiting \/ ~Admitted(q)) /\ Busy(h) /\ Admitted(handling[h]),
         BudgetInv', UNCHANGED <<plans, order>>, ToolsAllowed'
  PROVE  PlansInv'
<1>1. AdmittedInv' /\ RequestsInv'
  BY AdmittedStep
<1>2. StoreInv'
  BY DEF PlansInv, StoreInv, PlanUsable, StoreBounded
<1> QED
  BY <1>1, <1>2 DEF PlansInv

LEMMA Zero == 0 \in 0..2
  OBVIOUS

LEMMA ReceiveRequestStep ==
  ASSUME PlansInv, NEW h \in PlanHandlers,
         \/ \E f \in Findings : ReceiveFinding(h, f)
         \/ \E s \in PolicyIntents : ReceiveIntents(h, s)
  PROVE  PlansInv'
<1>1. /\ minute \in Nat /\ asked \in Nat /\ recorded \in Nat /\ CanaryLimit \in Nat \ {0}
      /\ <<>> \in Seq(Artifacts) /\ Len(<<>>) = 0 /\ <<>> \in Seq(Tools) /\ <<>> \in Seq(Hosts)
  BY PlansAssumption DEF PlansInv, BudgetInv, AdmittedInv
<1>2. ASSUME NEW q, q \in Request, RequestOK(q), q.stage = "intent", Becomes(h, q),
             UNCHANGED <<minute, counts, costs, recorded, asked, ranTools, plans, order>>
      PROVE  PlansInv'
  <2>1. ~Admitted(q) /\ BudgetInv' /\ ToolsAllowed'
    BY <1>2 DEF Admitted, PlansInv, BudgetInv, ToolsAllowed
  <2> QED
    BY <1>1, <1>2, <2>1, PlanOf
<1>3. ASSUME NEW f \in Findings, ReceiveFinding(h, f) PROVE PlansInv'
  <2>1. PICK d : d = BuildPlanDraft(f)
    OBVIOUS
  <2>2. /\ d.targets \in Seq(Hosts) /\ Len(d.targets) = 1
        /\ d.intents \in Seq(IntentTypes) /\ Len(d.intents) = 1
        /\ d.mode \in {"enforce", "canary", "suggest", "observe", ""}
    BY <2>1, DraftUsable
  <2> DEFINE q == [stage |-> "intent", kind |-> "plan", targets |-> d.targets, mode |-> d.mode,
                   intents |-> d.intents, controls |-> <<>>, round |-> 0, id |-> minute,
                   calls |-> <<>>]
  <2>3. Becomes(h, q)
        /\ UNCHANGED <<minute, counts, costs, recorded, asked, ranTools, plans, order>>
    BY <1>3, <2>1 DEF ReceiveFinding
  <2>4. /\ q \in Request /\ q.stage = "intent" /\ q.kind = "plan" /\ q.targets = d.targets
        /\ q.intents = d.intents /\ q.controls = <<>>
    <3>1. PICK ts \in Seq(Hosts), is \in Seq(IntentTypes),
               m \in {"enforce", "canary", "suggest", "observe", ""} :
             ts = d.targets /\ is = d.intents /\ m = d.mode
      BY <2>2
    <3>2. PICK cs \in Seq(Artifacts), calls \in Seq(Tools), r \in 0..2, id \in Nat :
             cs = <<>> /\ calls = <<>> /\ r = 0 /\ id = minute
      BY <1>1, Zero, Zenon
    <3>3. q = [stage |-> "intent", kind |-> "plan", targets |-> ts, mode |-> m,
               intents |-> is, controls |-> cs, round |-> r, id |-> id, calls |-> calls]
      BY <3>1, <3>2
    <3> HIDE DEF q
    <3>4. q \in Request
      BY <3>3 DEF Request
    <3> QED
      BY <3>1, <3>2, <3>3, <3>4
  <2> HIDE DEF q
  <2>5. RequestOK(q)
    <3>1. Len(q.targets) = 1 /\ Len(q.intents) = 1 /\ Len(q.controls) = 0
      BY <1>1, <2>2, <2>4
    <3>2. Usable(q)
      BY <1>1, <2>4, <3>1 DEF Usable
    <3> QED
      BY <2>4, <3>1, <3>2 DEF RequestOK
  <2> QED
    BY <1>2, <2>3, <2>4, <2>5
<1>4. ASSUME NEW s \in PolicyIntents, ReceiveIntents(h, s) PROVE PlansInv'
  <2>1. s \in Seq(IntentTypes)
    BY IntentsAssumption
  <2> DEFINE q == [stage |-> "intent", kind |-> "policy", targets |-> <<>>, mode |-> "",
                   intents |-> s, controls |-> <<>>, round |-> 0, id |-> minute,
                   calls |-> <<>>]
  <2>2. Becomes(h, q)
        /\ UNCHANGED <<minute, counts, costs, recorded, asked, ranTools, plans, order>>
    BY <1>4 DEF ReceiveIntents
  <2>3. q \in Request /\ q.stage = "intent" /\ q.kind = "policy" /\ q.controls = <<>>
    BY <1>1, <2>1 DEF Request
  <2> HIDE DEF q
  <2>4. RequestOK(q)
    BY <1>1, <2>3 DEF RequestOK
  <2> QED
    BY <1>2, <2>2, <2>3, <2>4
<1> QED
  BY <1>3, <1>4

LEMMA StartAgentStep ==
  ASSUME PlansInv, NEW h \in PlanHandlers, StartAgent(h)
  PROVE  PlansInv'
<1> DEFINE q == handling[h]
<1>1. /\ Busy(h) /\ q.stage = "intent" /\ Len(q.controls) < Len(q.intents)
      /\ UNCHANGED <<minute, asked, ranTools, taken, plans, order>>
  BY DEF StartAgent
<1>2. q \in Request /\ RequestOK(q) /\ asked \in Nat /\ recorded \in Nat
  BY <1>1, ARequest
<1>3. ToolsAllowed' /\ asked' = asked
  BY <1>1 DEF PlansInv, ToolsAllowed
<1>4. BudgetInv' /\ recorded' \in Nat /\ recorded' >= recorded
  BY <1>1, <1>2, BudgetStep DEF PlansInv, StartAgent
<1>5. PICK n : Becomes(h, n) /\ \/ n = NextIntent(q, TRUE)
                                \/ /\ n = [q EXCEPT !.stage = "ask", !.round = 1]
                                   /\ recorded' = recorded + 1
  BY DEF StartAgent, Recorded
<1>6. CASE n = NextIntent(q, TRUE)
  <2>1. n \in Request /\ RequestOK(n) /\ ~Admitted(n)
    BY <1>1, <1>2, <1>6, NextIntentRequest
  <2> QED
    BY <1>1, <1>2, <1>3, <1>4, <1>5, <2>1, PlanOf
<1>7. CASE n = [q EXCEPT !.stage = "ask", !.round = 1] /\ recorded' = recorded + 1
  <2>1. PICK cs \in Seq(Tools) : cs = q.calls
    BY <1>2 DEF Request
  <2>2. n = [q EXCEPT !.stage = "ask", !.round = 1, !.calls = cs]
    BY <1>2, <1>7, <2>1 DEF Request
  <2>3. n \in Request /\ RequestOK(n)
    <3>1. PICK r \in 0..2 : r = 1
      OBVIOUS
    <3>2. n = [q EXCEPT !.stage = "ask", !.round = r, !.calls = cs]
      BY <2>2, <3>1
    <3> HIDE DEF q
    <3> QED
      BY <1>1, <1>2, <3>2, StagedRequest
  <2> QED
    BY <1>1, <1>2, <1>3, <1>4, <1>5, <1>7, <2>3, PlanOf
<1> QED
  BY <1>5, <1>6, <1>7

LEMMA AskModelStep ==
  ASSUME PlansInv, NEW h \in PlanHandlers, AskModel(h)
  PROVE  PlansInv'
<1> DEFINE q == handling[h]
<1>1. /\ Busy(h) /\ q.stage = "ask" /\ asked' = asked + 1
      /\ UNCHANGED <<minute, counts, costs, recorded, ranTools, taken, plans, order>>
  BY DEF AskModel
<1>2. /\ q \in Request /\ RequestOK(q) /\ asked \in Nat /\ recorded \in Nat
      /\ q.kind = "plan" => Len(q.controls) < Len(q.intents)
  BY <1>1, ARequest
<1>3. BudgetInv' /\ ToolsAllowed' /\ Admitted(handling[h])
  BY <1>1 DEF PlansInv, BudgetInv, ToolsAllowed, Admitted
<1>4. ASSUME NEW n, n \in Request, RequestOK(n), ~Admitted(n), Becomes(h, n) PROVE PlansInv'
  BY <1>1, <1>2, <1>3, <1>4, PlanOf
<1>5. CASE Becomes(h, NextIntent(q, TRUE))
  <2>1. PICK n : n = NextIntent(q, TRUE)
    OBVIOUS
  <2>2. n \in Request /\ RequestOK(n) /\ ~Admitted(n)
    BY <1>2, <2>1, NextIntentRequest
  <2> QED
    BY <1>4, <1>5, <2>1, <2>2
<1>6. ASSUME NEW calls \in {<<>>} \cup {<<t>> : t \in Tools},
             Becomes(h, [q EXCEPT !.stage = "charge", !.calls = calls])
      PROVE  PlansInv'
  <2>1. calls \in Seq(Tools)
    <3>1. CASE calls = <<>>
      BY <3>1
    <3>2. ASSUME NEW t \in Tools, calls = <<t>> PROVE calls \in Seq(Tools)
      BY <3>2
    <3> QED
      BY <3>1, <3>2
  <2>2. PICK r \in 0..2 : r = q.round
    BY <1>2 DEF Request
  <2>3. PICK n : n = [q EXCEPT !.stage = "charge", !.calls = calls]
    OBVIOUS
  <2>4. n = [q EXCEPT !.stage = "charge", !.round = r, !.calls = calls]
    BY <1>2, <2>2, <2>3 DEF Request
  <2>5. n \in Request /\ n.stage = "charge" /\ RequestOK(n)
    BY <1>2, <2>1, <2>4, StagedRequest, ZenonT(40)
  <2>6. ~Admitted(n)
    BY <2>5 DEF Admitted
  <2> QED
    BY <1>4, <1>6, <2>3, <2>5, <2>6
<1> QED
  BY <1>5, <1>6 DEF AskModel

LEMMA ChargeCallStep ==
  ASSUME PlansInv, NEW h \in PlanHandlers, ChargeCall(h)
  PROVE  PlansInv'
<1> DEFINE q == handling[h]
<1>1. /\ Busy(h) /\ q.stage = "charge"
      /\ UNCHANGED <<minute, asked, ranTools, taken, plans, order>>
  BY DEF ChargeCall
<1>2. /\ q \in Request /\ RequestOK(q) /\ asked \in Nat /\ recorded \in Nat
      /\ q.kind = "plan" => Len(q.controls) < Len(q.intents)
  BY <1>1, ARequest
<1>3. ToolsAllowed' /\ asked' = asked
  BY <1>1 DEF PlansInv, ToolsAllowed
<1>4. BudgetInv' /\ recorded' \in Nat /\ recorded' >= recorded
  BY <1>1, <1>2, BudgetStep DEF PlansInv, ChargeCall
<1>5. PICK n : Becomes(h, n) /\ \/ \E f \in BOOLEAN : n = NextIntent(Uncharged(q), f)
                                \/ n = [q EXCEPT !.stage = "tools"] /\ recorded' = recorded + 1
  BY DEF ChargeCall, ChargeRefused, Recorded
<1>6. ASSUME NEW f \in BOOLEAN, n = NextIntent(Uncharged(q), f) PROVE PlansInv'
  <2>1. PICK u : u = Uncharged(q)
    OBVIOUS
  <2>2. RequestOK(u) /\ (u.kind = "plan" => Len(u.controls) < Len(u.intents))
    BY <1>2, <2>1, UnchargedRequest
  <2>3. n \in Request /\ RequestOK(n) /\ ~Admitted(n)
    BY <1>6, <2>1, <2>2, NextIntentRequest
  <2> QED
    BY <1>1, <1>2, <1>3, <1>4, <1>5, <2>3, PlanOf
<1>7. CASE n = [q EXCEPT !.stage = "tools"] /\ recorded' = recorded + 1
  <2>1. PICK cs \in Seq(Tools), r \in 0..2 : cs = q.calls /\ r = q.round
    BY <1>2 DEF Request
  <2>2. n = [q EXCEPT !.stage = "tools", !.round = r, !.calls = cs]
    BY <1>2, <1>7, <2>1 DEF Request
  <2>3. n \in Request /\ RequestOK(n)
    BY <1>2, <2>2, StagedRequest
  <2> QED
    BY <1>1, <1>2, <1>3, <1>4, <1>5, <1>7, <2>3, PlanOf
<1> QED
  BY <1>5, <1>6, <1>7

LEMMA RunToolsStep ==
  ASSUME PlansInv, NEW h \in PlanHandlers, RunTools(h)
  PROVE  PlansInv'
<1> DEFINE q == handling[h]
<1>1. /\ Busy(h) /\ q.stage = "tools"
      /\ UNCHANGED <<minute, counts, costs, recorded, asked, taken, plans, order>>
  BY DEF RunTools
<1>2. /\ q \in Request /\ RequestOK(q) /\ asked \in Nat /\ recorded \in Nat
      /\ q.kind = "plan" => Len(q.controls) < Len(q.intents)
  BY <1>1, ARequest
<1>3. BudgetInv' /\ Admitted(handling[h])
  BY <1>1 DEF PlansInv, BudgetInv, Admitted
<1>4. ToolsAllowed'
  <2>1. PICK tool : ranTools' = IF IsToolAllowed("policywriter", tool)
                                THEN ranTools \cup {<<"policywriter", tool>>} ELSE ranTools
    BY DEF RunTools
  <2>2. IsToolAllowed("policywriter", tool) =>
           tool \in {"policy.compile", "ebpf.template_suggest", "registry.sign_store"}
    BY DEF IsToolAllowed, Allowlist
  <2> QED
    BY <2>1, <2>2 DEF PlansInv, ToolsAllowed
<1>5. PICK u : u = Uncharged(q)
  OBVIOUS
<1>6. PICK n : Becomes(h, n) /\ \/ n = Waiting \/ n = NextIntent(u, FALSE)
                                \/ n = [u EXCEPT !.stage = "ask", !.round = 2]
  BY <1>5 DEF RunTools
<1>7. RequestOK(u) /\ (u.kind = "plan" => Len(u.controls) < Len(u.intents)) /\ u \in Request
  BY <1>2, <1>5, UnchargedRequest DEF RequestOK
<1>8. n # Waiting => n \in Request /\ RequestOK(n)
  <2>1. CASE n = NextIntent(u, FALSE)
    BY <1>7, <2>1, NextIntentRequest
  <2>2. CASE n = [u EXCEPT !.stage = "ask", !.round = 2]
    <3>1. PICK cs \in Seq(Tools) : cs = u.calls
      BY <1>7 DEF Request
    <3>2. n = [u EXCEPT !.stage = "ask", !.round = 2, !.calls = cs]
      BY <1>7, <2>2, <3>1 DEF Request
    <3>3. PICK r \in 0..2 : r = 2
      OBVIOUS
    <3>4. n = [u EXCEPT !.stage = "ask", !.round = r, !.calls = cs]
      BY <3>2, <3>3
    <3> QED
      BY <1>7, <3>4, StagedRequest
  <2> QED
    BY <1>6, <2>1, <2>2
<1> QED
  BY <1>1, <1>2, <1>3, <1>4, <1>6, <1>8, PlanOf

LEMMA ExpandStep ==
  ASSUME PlansInv, NEW h \in PlanHandlers, ExpandOrAnswer(h)
  PROVE  PlansInv'
<1> DEFINE q == handling[h]
<1>1. /\ Busy(h) /\ q.stage = "intent" /\ Len(q.controls) = Len(q.intents)
      /\ UNCHANGED <<minute, counts, costs, recorded, asked, ranTools, taken, plans, order>>
  BY DEF ExpandOrAnswer
<1>2. q \in Request /\ RequestOK(q) /\ asked \in Nat /\ recorded \in Nat
  BY <1>1, ARequest
<1>3. BudgetInv' /\ ToolsAllowed'
  BY <1>1 DEF PlansInv, BudgetInv, ToolsAllowed
<1>4. PICK n : Becomes(h, n) /\
               \/ n = Waiting
               \/ q.kind = "plan" /\ n = [q EXCEPT !.stage = "store", !.targets = ExpandTargets(@)]
  BY <1>2 DEF ExpandOrAnswer, Request
<1>5. n # Waiting => n \in Request /\ RequestOK(n) /\ ~Admitted(n)
  <2> SUFFICES ASSUME n # Waiting PROVE n \in Request /\ RequestOK(n) /\ ~Admitted(n)
    OBVIOUS
  <2>1. q.targets \in Seq(Hosts) /\ Len(q.targets) >= 1
    <3>1. q.targets \in Seq(Hosts)
      BY <1>2 DEF Request
    <3>2. Len(q.targets) \in 1..CanaryLimit
      BY <1>2, <1>4 DEF RequestOK, Usable
    <3> QED
      BY <3>1, <3>2, PlansAssumption
  <2>2. PICK ts \in Seq(Hosts) : ts = ExpandTargets(q.targets) /\ Len(ts) \in 1..CanaryLimit
    BY <2>1, ExpandedTargets
  <2>3. n = [q EXCEPT !.stage = "store", !.targets = ts]
    BY <1>2, <1>4, <2>2 DEF Request
  <2>4. /\ n \in Request /\ n.stage = "store" /\ n.kind = q.kind /\ n.targets = ts
        /\ n.intents = q.intents /\ n.controls = q.controls
    BY <1>2, <2>3 DEF Request
  <2>5. RequestOK(n)
    BY <1>1, <1>2, <1>4, <2>2, <2>4 DEF RequestOK, Usable
  <2> QED
    BY <2>4, <2>5 DEF Admitted
<1>6. n \in Request \cup {Waiting}
  BY <1>5
<1> QED
  BY <1>1, <1>2, <1>3, <1>4, <1>5, <1>6, PlanOf

LEMMA StorePlanStep ==
  ASSUME PlansInv, NEW h \in PlanHandlers, StorePlan(h)
  PROVE  PlansInv'
<1> DEFINE q == handling[h]
<1>1. /\ Busy(h) /\ q.stage = "store" /\ Becomes(h, Waiting)
      /\ UNCHANGED <<minute, counts, costs, recorded, asked, ranTools, taken>>
  BY DEF StorePlan
<1>2. q \in Request /\ RequestOK(q) /\ asked \in Nat /\ recorded \in Nat
  BY <1>1, ARequest
<1>3. AdmittedInv' /\ RequestsInv'
  BY <1>1, <1>2, AdmittedStep
<1>4. BudgetInv' /\ ToolsAllowed'
  BY <1>1 DEF PlansInv, BudgetInv, ToolsAllowed
<1>5. StoreInv'
  <2>1. PICK rec : rec = [targets |-> q.targets, controls |-> q.controls, made |-> order]
    OBVIOUS
  <2>2. rec.targets = q.targets /\ rec.controls = q.controls /\ rec.made = order /\ order \in Nat
    BY <2>1 DEF PlansInv, StoreInv
  <2>3. plans' = Put(MakeRoom, q.id, rec) /\ order' = order + 1
    BY <2>1 DEF StorePlan
  <2>4. /\ Len(q.targets) \in 1..CanaryLimit /\ Len(q.controls) \in 1..3
        /\ DOMAIN q.controls = 1..Len(q.controls)
        /\ \A c \in 1..Len(q.controls) : q.controls[c] # {}
    <3>1. q.kind = "plan" /\ Usable(q) /\ \A c \in 1..Len(q.controls) : q.controls[c] # {}
      BY <1>1, <1>2 DEF RequestOK
    <3>2. q.controls \in Seq(Artifacts)
      BY <1>2 DEF Request
    <3>3. Len(q.targets) \in 1..CanaryLimit /\ Len(q.controls) \in 1..3
      BY <1>1, <3>1 DEF Usable
    <3> QED
      BY <3>1, <3>2, <3>3
  <2> QED
    BY <2>2, <2>3, <2>4, StoreStep DEF PlansInv
<1> QED
  BY <1>3, <1>4, <1>5 DEF PlansInv

LEMMA BudgetOnlyStep ==
  ASSUME PlansInv, CleanupBudget \/ PlanTick \/ UNCHANGED planVars
  PROVE  PlansInv'
<1>1. /\ UNCHANGED <<recorded, asked, ranTools, handling, plans, order>>
      /\ minute' \in Nat
      /\ \A m \in DOMAIN counts' : m \in DOMAIN counts /\ counts'[m] = counts[m]
      /\ \A x \in DOMAIN costs' : x \in DOMAIN costs /\ costs'[x] = costs[x]
  <2>1. CASE CleanupBudget
    BY <2>1 DEF CleanupBudget, PlansInv, BudgetInv
  <2>2. CASE PlanTick
    BY <2>2 DEF PlanTick, PlansInv, BudgetInv
  <2>3. CASE UNCHANGED planVars
    BY <2>3 DEF planVars, PlansInv, BudgetInv
  <2> QED
    BY <2>1, <2>2, <2>3
<1>2. BudgetInv'
  BY <1>1 DEF PlansInv, BudgetInv
<1>3. RequestsInv'
  BY <1>1 DEF PlansInv, RequestsInv, Busy
<1>4. Holders' = Holders
  BY <1>1 DEF Holders, Busy
<1>5. AdmittedInv'
  BY <1>1, <1>4 DEF PlansInv, AdmittedInv
<1>6. StoreInv' /\ ToolsAllowed'
  BY <1>1 DEF PlansInv, StoreInv, PlanUsable, StoreBounded, ToolsAllowed
<1> QED
  BY <1>2, <1>3, <1>5, <1>6 DEF PlansInv

(***************************************************************************)
(* With any number of handlers at once, models that answer anything and    *)
(* budgets that run out: spending stays within the limits, only admitted   *)
(* calls are made and granted tools run, and what is stored can be carried *)
(* out and stays within the capacity (http.go, runtime.go, budget.go,      *)
(* store/memory.go).                                                       *)
(***************************************************************************)
THEOREM PlansHold == PlansSpec => []PlansSound
<1>1. PlansInv /\ [PlansNext]_planVars => PlansInv'
  <2> SUFFICES ASSUME PlansInv, [PlansNext]_planVars PROVE PlansInv'
    OBVIOUS
  <2>1. ASSUME NEW h \in PlanHandlers,
               \/ \E f \in Findings : ReceiveFinding(h, f)
               \/ \E s \in PolicyIntents : ReceiveIntents(h, s)
        PROVE  PlansInv'
    BY <2>1, ReceiveRequestStep
  <2>2. ASSUME NEW h \in PlanHandlers,
               \/ StartAgent(h) \/ AskModel(h) \/ ChargeCall(h) \/ RunTools(h)
               \/ ExpandOrAnswer(h) \/ StorePlan(h)
        PROVE  PlansInv'
    BY <2>2, StartAgentStep, AskModelStep, ChargeCallStep, RunToolsStep, ExpandStep, StorePlanStep
  <2>3. CASE CleanupBudget \/ PlanTick \/ UNCHANGED planVars
    BY <2>3, BudgetOnlyStep
  <2> QED
    BY <2>1, <2>2, <2>3 DEF PlansNext
<1> QED
  BY <1>1, InitPlans, PlansInvSound, PTL DEF PlansSpec

-----------------------------------------------------------------------------
(***************************************************************************)
(* The agent harness.  The append that drops the oldest entries.           *)
(***************************************************************************)
LastOf(p, s, x, cap) ==
    /\ Len(p) = IF Len(s) + 1 > cap THEN cap ELSE Len(s) + 1
    /\ \A i \in 1..Len(p) :
          p[i] = Append(s, x)[IF Len(s) + 1 > cap THEN Len(s) + 1 - cap + i ELSE i]

LEMMA PushedSeq ==
  ASSUME NEW S, NEW s \in Seq(S), NEW x \in S, NEW cap \in Nat \ {0}
  PROVE  Pushed(s, x, cap) \in Seq(S) /\ LastOf(Pushed(s, x, cap), s, x, cap)
<1>1. PICK a \in Seq(S) : a = Append(s, x) /\ Len(a) = Len(s) + 1
  <2>1. Append(s, x) \in Seq(S) /\ Len(Append(s, x)) = Len(s) + 1
    OBVIOUS
  <2> QED
    BY <2>1, Zenon
<1>2. Len(s) \in Nat
  OBVIOUS
<1>3. Pushed(s, x, cap) = IF Len(a) > cap THEN SubSeq(a, Len(a) - cap + 1, Len(a)) ELSE a
  BY <1>1 DEF Pushed, Capped
<1>4. CASE Len(a) > cap
  <2>1. PICK m \in Nat, n \in Nat : m = Len(a) - cap + 1 /\ n = Len(a) /\ m >= 1 /\ m <= n
    <3>1. Len(a) - cap + 1 \in Nat /\ Len(a) \in Nat /\ Len(a) - cap + 1 >= 1
          /\ Len(a) - cap + 1 <= Len(a)
      BY <1>1, <1>2, <1>4
    <3> QED
      BY <3>1, Zenon
  <2>2. /\ SubSeq(a, m, n) \in Seq(S) /\ Len(SubSeq(a, m, n)) = n - m + 1
        /\ \A i \in 1..(n - m + 1) : SubSeq(a, m, n)[i] = a[m + i - 1]
    BY <2>1
  <2>3. Pushed(s, x, cap) = SubSeq(a, m, n)
    BY <1>3, <1>4, <2>1
  <2>4. n - m + 1 = cap /\ \A i \in 1..cap : m + i - 1 = Len(s) + 1 - cap + i
    BY <1>1, <1>2, <2>1
  <2> QED
    BY <1>1, <1>2, <1>4, <2>2, <2>3, <2>4, ZenonT(40) DEF LastOf
<1>5. CASE ~(Len(a) > cap)
  <2>1. Pushed(s, x, cap) = a
    BY <1>3, <1>5
  <2> QED
    BY <1>1, <1>2, <1>5, <2>1 DEF LastOf
<1> QED
  BY <1>4, <1>5

(***************************************************************************)
(* A run asks for the tools of its agent and for no other; until it ends,  *)
(* one of them is left, and when it ends its job ends with it.             *)
(***************************************************************************)
Named == NamedCandidates \cup {""}
Providers == ProviderIds \cup {"local", ""}
ToolNames == {ToolSummary, ToolPaths, ToolLookup}
Ended == {"completed", "failed"}
AuditActions == {"privacy_settings_update", "ai_default_provider", "ai_provider_upsert",
                 "ai_provider_test", "analyst_failed", "analyst", "ai_run_completed"}
Run == [id : Nat, agent : AskedAgents \cup {"endpoint_analyst"}, named : Named,
        via : {"jobs", "analyst"},
        pc : {"preview", "allow", "provider", "tools", "validate", "record", "audit"},
        redacted : BOOLEAN, ext : BOOLEAN, provider : Providers,
        plan : Seq(ToolNames), called : Seq(ToolNames), status : Ended \cup {"running"},
        job : Ended \cup {"running"}, evidence : SUBSET (NamedCandidates \cup ToolNames)]
JobEntry == [id : Nat, status : Ended]
RunEntry == [id : Nat, status : Ended, agent : AskedAgents \cup {"endpoint_analyst"},
             ext : BOOLEAN, called : Seq(ToolNames), consented : BOOLEAN]

RunOK(r) ==
    /\ r \in Run
    /\ r.plan = AgentTools(r.agent)
    /\ r.pc \in {"preview", "allow", "provider", "tools"} => Len(r.called) < Len(r.plan)
    /\ r.pc \in {"record", "audit"} => r.status \in Ended /\ r.job = r.status

RunsInv ==
    /\ harness \in [Requests -> Run \cup {NoRun}]
    /\ \A q \in Requests : harness[q] # NoRun => RunOK(harness[q])
    /\ runCount \in Nat /\ candidateIds \subseteq NamedCandidates
    /\ provider \in ProviderIds \cup {"local"}

(* Consent: a request in flight while external models are allowed has it,  *)
(* and so has one that read that they were.                                *)
ConsentInv ==
    /\ privacy \in [ext : BOOLEAN, redact : BOOLEAN] /\ consent \subseteq Requests
    /\ \A q \in Requests : harness[q] # NoRun =>
          (privacy.ext => q \in consent) /\ (harness[q].ext => q \in consent)

Paired(js, rs) ==
    /\ js \in Seq(JobEntry) /\ rs \in Seq(RunEntry) /\ Len(js) = Len(rs)
    /\ \A i \in 1..Len(js) : /\ js[i].id = rs[i].id /\ js[i].status = rs[i].status
                             /\ rs[i].ext => rs[i].consented

AuditInv == audit \in Seq(AuditActions) /\ AuditBounded

HarnessInv == RunsInv /\ ConsentInv /\ Paired(jobs, runs) /\ AuditInv

LEMMA HarnessInvSound == HarnessInv => HarnessSound
<1> SUFFICES ASSUME HarnessInv PROVE HarnessSound
  OBVIOUS
<1>1. /\ jobs \in Seq(JobEntry) /\ runs \in Seq(RunEntry)
      /\ DOMAIN jobs = 1..Len(jobs) /\ DOMAIN runs = DOMAIN jobs
      /\ \A i \in 1..Len(jobs) : jobs[i] \in JobEntry
      /\ \A i \in 1..Len(jobs) : jobs[i].id = runs[i].id /\ jobs[i].status = runs[i].status
  BY DEF HarnessInv, Paired
<1>2. HarnessSettles
  <2>1. \A i \in DOMAIN jobs : jobs[i].status \in {"completed", "failed"}
    BY <1>1 DEF JobEntry, Ended
  <2>2. [i \in DOMAIN jobs |-> jobs[i].id] = [i \in DOMAIN runs |-> runs[i].id]
    BY <1>1
  <2> QED
    BY <1>1, <2>1, <2>2 DEF HarnessSettles
<1>3. ExternalNeedsConsent
  BY <1>1 DEF HarnessInv, Paired, ExternalNeedsConsent
<1> QED
  BY <1>2, <1>3 DEF HarnessSound, HarnessInv, AuditInv

LEMMA InitHarness == AgentInit => HarnessInv
<1> SUFFICES ASSUME AgentInit PROVE HarnessInv
  OBVIOUS
<1>1. RunsInv
  BY DEF AgentInit, RunsInv
<1>2. ConsentInv
  BY DEF AgentInit, ConsentInv
<1>3. Paired(jobs, runs)
  BY DEF AgentInit, Paired
<1>4. AuditInv
  BY PlatformAgentsAssumption DEF AgentInit, AuditInv, AuditBounded
<1> QED
  BY <1>1, <1>2, <1>3, <1>4 DEF HarnessInv

LEMMA ToolsOfAgent == \A agent : AgentTools(agent) \in Seq(ToolNames)
<1>1. ToolSummary \in ToolNames /\ ToolPaths \in ToolNames /\ ToolLookup \in ToolNames
  BY DEF ToolNames
<1>2. /\ <<ToolSummary, ToolPaths, ToolLookup>> \in Seq(ToolNames)
      /\ <<ToolPaths, ToolLookup>> \in Seq(ToolNames) /\ <<ToolLookup>> \in Seq(ToolNames)
      /\ <<ToolSummary, ToolPaths>> \in Seq(ToolNames)
      /\ <<ToolPaths, ToolSummary>> \in Seq(ToolNames)
      /\ <<ToolSummary, ToolLookup>> \in Seq(ToolNames) /\ << >> \in Seq(ToolNames)
  BY <1>1
<1> QED
  BY <1>2 DEF AgentTools

(***************************************************************************)
(* One request goes on to the run r, the settings stay.                    *)
(***************************************************************************)
LEMMA RunStep ==
  ASSUME HarnessInv, NEW q \in Requests, NEW r \in Run \cup {NoRun},
         harness' = [harness EXCEPT ![q] = r], r # NoRun => RunOK(r),
         r # NoRun /\ harness[q] # NoRun /\ r.ext => harness[q].ext \/ privacy.ext,
         r # NoRun /\ harness[q] = NoRun =>
             ~r.ext /\ (privacy.ext => q \in consent') /\ runCount' \in Nat,
         consent' \in SUBSET Requests, \A k \in Requests \ {q} : k \in consent => k \in consent',
         harness[q] # NoRun => consent' = consent, runCount' \in Nat,
         UNCHANGED <<privacy, provider, candidateIds>>
  PROVE  RunsInv' /\ ConsentInv'
<1>1. /\ harness' \in [Requests -> Run \cup {NoRun}] /\ harness'[q] = r
      /\ \A k \in Requests \ {q} : harness'[k] = harness[k]
  BY DEF HarnessInv, RunsInv
<1>2. RunsInv'
  BY <1>1 DEF HarnessInv, RunsInv
<1>3. ConsentInv'
  <2> SUFFICES ASSUME NEW k \in Requests, harness'[k] # NoRun
               PROVE  (privacy.ext => k \in consent') /\ (harness'[k].ext => k \in consent')
    BY DEF HarnessInv, ConsentInv
  <2>1. CASE k # q
    BY <2>1, <1>1 DEF HarnessInv, ConsentInv
  <2>2. CASE k = q
    BY <2>2, <1>1 DEF HarnessInv, ConsentInv
  <2> QED
    BY <2>1, <2>2
<1> QED
  BY <1>2, <1>3

LEMMA PushedAudit ==
  ASSUME AuditInv, NEW what \in AuditActions, audit' = AppendAudit(audit, what)
  PROVE  AuditInv' /\ Len(audit') <= AuditCap
<1>1. AuditCap \in Nat \ {0} /\ audit \in Seq(AuditActions) /\ Len(audit) \in Nat
  BY PlatformAgentsAssumption DEF AuditInv
<1>2. /\ audit' \in Seq(AuditActions)
      /\ Len(audit') = IF Len(audit) + 1 > AuditCap THEN AuditCap ELSE Len(audit) + 1
  BY <1>1, PushedSeq DEF AppendAudit, LastOf
<1> QED
  BY <1>1, <1>2 DEF AuditInv, AuditBounded

(***************************************************************************)
(* The settings and the candidates, which no run changes.                  *)
(***************************************************************************)
LEMMA SettingsStep ==
  ASSUME HarnessInv,
         \/ \E ext, redact \in BOOLEAN : UpdatePrivacy(ext, redact)
         \/ \E p \in ProviderIds : ConfigureProvider(p)
         \/ \E what \in {"ai_provider_upsert", "ai_provider_test"} : ProviderAdmin(what)
         \/ \E c \in NamedCandidates : CandidatesChange(c)
         \/ UNCHANGED agentVars
  PROVE  HarnessInv'
<1>1. UNCHANGED <<harness, jobs, runs, runCount>>
  BY DEF UpdatePrivacy, ConfigureProvider, ProviderAdmin, CandidatesChange, agentVars
<1>2. candidateIds' \subseteq NamedCandidates /\ provider' \in ProviderIds \cup {"local"}
  BY DEF HarnessInv, RunsInv, UpdatePrivacy, ConfigureProvider, ProviderAdmin, CandidatesChange,
         agentVars
<1>3. RunsInv'
  BY <1>1, <1>2 DEF HarnessInv, RunsInv
<1>4. ConsentInv'
  <2>1. CASE UNCHANGED <<privacy, consent>>
    BY <2>1, <1>1 DEF HarnessInv, ConsentInv
  <2>2. ASSUME NEW ext \in BOOLEAN, NEW redact \in BOOLEAN, UpdatePrivacy(ext, redact)
        PROVE  ConsentInv'
    <3>1. /\ privacy' = [ext |-> ext, redact |-> redact]
          /\ consent' = IF ext THEN {q \in Requests : harness[q] # NoRun} \cup consent ELSE consent
      BY <2>2 DEF UpdatePrivacy
    <3>2. privacy' \in [ext : BOOLEAN, redact : BOOLEAN] /\ privacy'.ext = ext
      BY <3>1
    <3> QED
      BY <3>1, <3>2, <1>1 DEF HarnessInv, ConsentInv
  <2> QED
    BY <2>1, <2>2 DEF ConfigureProvider, ProviderAdmin, CandidatesChange, agentVars
<1>5. AuditInv'
  <2>1. CASE UNCHANGED audit
    BY <2>1 DEF HarnessInv, AuditInv, AuditBounded
  <2>2. CASE \E what \in AuditActions : audit' = AppendAudit(audit, what)
    BY <2>2, PushedAudit DEF HarnessInv
  <2> QED
    BY <2>1, <2>2 DEF UpdatePrivacy, ConfigureProvider, ProviderAdmin, CandidatesChange, agentVars,
                      AuditActions
<1>6. Paired(jobs', runs')
  BY <1>1 DEF HarnessInv
<1> QED
  BY <1>3, <1>4, <1>5, <1>6 DEF HarnessInv

(***************************************************************************)
(* The steps of a run.                                                     *)
(***************************************************************************)
LEMMA StartHarnessStep ==
  ASSUME HarnessInv, NEW q \in Requests, NEW agent \in AskedAgents \cup {"endpoint_analyst"},
         NEW named \in Named, NEW via \in {"jobs", "analyst"},
         StartHarness(q, agent, named, via)
  PROVE  HarnessInv'
<1>1. PICK n \in Nat, tools \in Seq(ToolNames) : n = runCount + 1 /\ tools = AgentTools(agent)
  BY ToolsOfAgent DEF HarnessInv, RunsInv
<1>2. PICK r : r = [id |-> n, agent |-> agent, named |-> named, via |-> via, pc |-> "preview",
                    redacted |-> FALSE, ext |-> FALSE, provider |-> "", plan |-> tools,
                    called |-> << >>, status |-> "running", job |-> "running", evidence |-> {}]
  OBVIOUS
<1>3. /\ harness[q] = NoRun /\ harness' = [harness EXCEPT ![q] = r] /\ runCount' = n
      /\ consent' = (IF privacy.ext THEN consent \cup {q} ELSE consent \ {q})
      /\ UNCHANGED <<opEvents, privacy, provider, candidateIds, jobs, runs, audit, settingCount>>
  BY <1>1, <1>2 DEF StartHarness, ToolsInOrder
<1>4. << >> \in Seq(ToolNames) /\ Len(<< >>) = 0
  OBVIOUS
<1>5. r \in Run
  <2>1. "" \in Providers
    BY DEF Providers
  <2> QED
    BY <1>2, <1>4, <2>1 DEF Run, Ended
<1>6. RunOK(r) /\ ~r.ext
  <2>1. tools # << >>
    BY <1>1, Zenon DEF StartHarness
  <2>2. Len(tools) > 0
    BY <2>1
  <2> QED
    BY <1>1, <1>2, <1>4, <1>5, <2>2 DEF RunOK
<1>7. consent' \in SUBSET Requests /\ \A k \in Requests \ {q} : k \in consent => k \in consent'
  BY <1>3 DEF HarnessInv, ConsentInv
<1>8. RunsInv' /\ ConsentInv'
  BY <1>1, <1>3, <1>5, <1>6, <1>7, RunStep
<1> QED
  BY <1>3, <1>8 DEF HarnessInv, AuditInv, AuditBounded

LEMMA OngoingStep ==
  ASSUME HarnessInv, NEW q \in Requests, harness[q] # NoRun, NEW r \in Run \cup {NoRun},
         harness' = [harness EXCEPT ![q] = r], r # NoRun => RunOK(r),
         r # NoRun /\ r.ext => harness[q].ext \/ privacy.ext,
         UNCHANGED <<privacy, provider, candidateIds, runCount, consent>>
  PROVE  RunsInv' /\ ConsentInv'
<1>1. consent' \in SUBSET Requests /\ runCount' \in Nat
  BY DEF HarnessInv, RunsInv, ConsentInv
<1> QED
  BY <1>1, RunStep

LEMMA ReadSettingsStep ==
  ASSUME HarnessInv, NEW q \in Requests, ReadSettings(q)
  PROVE  HarnessInv'
<1> DEFINE o == harness[q]
<1>1. /\ o # NoRun /\ o \in Run /\ RunOK(o)
      /\ privacy.ext \in BOOLEAN /\ privacy.redact \in BOOLEAN
      /\ provider \in Providers
      /\ UNCHANGED <<opEvents, privacy, provider, candidateIds, jobs, runs, audit, runCount,
                     settingCount, consent>>
  BY DEF ReadSettings, HarnessInv, RunsInv, ConsentInv, RunOK, Providers
<1>2. ASSUME NEW r, r \in Run, harness' = [harness EXCEPT ![q] = r], RunOK(r),
             r.ext => o.ext \/ privacy.ext
      PROVE  HarnessInv'
  <2>1. RunsInv' /\ ConsentInv'
    BY <1>1, <1>2, OngoingStep
  <2> QED
    BY <1>1, <2>1 DEF HarnessInv, AuditInv, AuditBounded
<1>3. CASE /\ o.pc = "preview"
           /\ harness' = [harness EXCEPT ![q] = [o EXCEPT !.redacted = privacy.redact, !.pc = "allow"]]
  <2>1. PICK b \in BOOLEAN : b = privacy.redact
    BY <1>1
  <2>2. PICK r : r = [o EXCEPT !.redacted = b, !.pc = "allow"]
    OBVIOUS
  <2>3. /\ r \in Run /\ r.pc = "allow" /\ r.ext = o.ext /\ r.plan = o.plan /\ r.agent = o.agent
        /\ r.called = o.called
    BY <1>1, <2>2 DEF Run
  <2>4. RunOK(r)
    BY <1>1, <1>3, <2>3 DEF RunOK
  <2> QED
    BY <1>2, <1>3, <2>1, <2>2, <2>3, <2>4
<1>4. CASE /\ o.pc = "allow"
           /\ harness' = [harness EXCEPT ![q] = [o EXCEPT !.ext = AllowExternalAI(privacy, provider),
                                                          !.pc = "provider"]]
  <2>1. PICK b \in BOOLEAN : b = privacy.ext /\ b = AllowExternalAI(privacy, provider)
    BY <1>1 DEF AllowExternalAI
  <2>2. PICK r : r = [o EXCEPT !.ext = b, !.pc = "provider"]
    OBVIOUS
  <2>3. /\ r \in Run /\ r.pc = "provider" /\ r.ext = b /\ r.plan = o.plan /\ r.agent = o.agent
        /\ r.called = o.called
    BY <1>1, <2>2 DEF Run
  <2>4. RunOK(r)
    BY <1>1, <1>4, <2>3 DEF RunOK
  <2> QED
    BY <1>2, <1>4, <2>1, <2>2, <2>3, <2>4
<1>5. CASE /\ o.pc = "provider"
           /\ harness' = [harness EXCEPT ![q] = [o EXCEPT !.provider = provider, !.pc = "tools"]]
  <2>1. PICK p \in Providers : p = provider
    BY <1>1
  <2>2. PICK r : r = [o EXCEPT !.provider = p, !.pc = "tools"]
    OBVIOUS
  <2>3. /\ r \in Run /\ r.pc = "tools" /\ r.ext = o.ext /\ r.plan = o.plan /\ r.agent = o.agent
        /\ r.called = o.called
    BY <1>1, <2>2 DEF Run
  <2>4. RunOK(r)
    BY <1>1, <1>5, <2>3 DEF RunOK
  <2> QED
    BY <1>2, <1>5, <2>1, <2>2, <2>3, <2>4
<1> QED
  BY <1>3, <1>4, <1>5 DEF ReadSettings

LEMMA InvokeToolStep ==
  ASSUME HarnessInv, NEW q \in Requests, InvokeTool(q)
  PROVE  HarnessInv'
<1> DEFINE o == harness[q]
<1>1. /\ o # NoRun /\ o.pc = "tools" /\ o \in Run /\ RunOK(o)
      /\ UNCHANGED <<opEvents, privacy, provider, candidateIds, jobs, runs, audit, runCount,
                     settingCount, consent>>
  BY DEF InvokeTool, HarnessInv, RunsInv, RunOK
<1>2. PICK k \in Nat, tool \in ToolNames :
          k = Len(o.called) + 1 /\ k <= Len(o.plan) /\ tool = o.plan[k]
  <2>1. o.called \in Seq(ToolNames) /\ o.plan \in Seq(ToolNames) /\ Len(o.called) < Len(o.plan)
    BY <1>1 DEF RunOK, Run
  <2>2. Len(o.called) + 1 \in Nat /\ Len(o.called) + 1 \in 1..Len(o.plan)
    BY <2>1
  <2>3. o.plan[Len(o.called) + 1] \in ToolNames
    BY <2>1, <2>2
  <2>4. Len(o.called) + 1 <= Len(o.plan)
    BY <2>1
  <2> QED
    BY <2>2, <2>3, <2>4, Zenon
<1>3. ToolAllowed(o.agent, tool)
  <2>1. k \in DOMAIN o.plan /\ o.plan = AgentTools(o.agent)
    BY <1>1, <1>2 DEF RunOK, Run
  <2> QED
    BY <1>2, <2>1 DEF ToolAllowed
<1>4. PICK cs \in Seq(ToolNames), ev \in SUBSET (NamedCandidates \cup ToolNames),
           pc \in {"validate", "tools"} :
         /\ harness' = [harness EXCEPT ![q] = [o EXCEPT !.called = cs, !.evidence = ev, !.pc = pc]]
         /\ cs = Append(o.called, tool) /\ (pc = "tools" => k # Len(o.plan))
  <2>1. Append(o.called, tool) \in Seq(ToolNames)
    BY <1>1 DEF Run
  <2>2. o.evidence \cup EvidenceFrom(tool, o.named) \in SUBSET (NamedCandidates \cup ToolNames)
    <3>1. o.evidence \in SUBSET (NamedCandidates \cup ToolNames) /\ o.named \in Named
      BY <1>1 DEF Run
    <3>2. candidateIds \subseteq NamedCandidates
      BY DEF HarnessInv, RunsInv
    <3>3. Lookup(o.named) \subseteq NamedCandidates
      BY <3>1, <3>2, Zenon DEF Lookup, Named
    <3>4. EvidenceFrom(tool, o.named) \subseteq NamedCandidates \cup ToolNames
      BY <3>3 DEF EvidenceFrom
    <3> QED
      BY <3>1, <3>4
  <2>3. PICK cs, ev, pc : /\ cs = Append(o.called, tool)
                          /\ ev = o.evidence \cup EvidenceFrom(tool, o.named)
                          /\ pc = IF k = Len(o.plan) THEN "validate" ELSE "tools"
    OBVIOUS
  <2>4. harness' = [harness EXCEPT ![q] = [o EXCEPT !.called = cs, !.evidence = ev, !.pc = pc]]
    <3>1. harness' = [harness EXCEPT ![q] =
             [o EXCEPT !.called = Append(@, tool), !.evidence = @ \cup EvidenceFrom(tool, o.named),
                       !.pc = IF k = Len(o.plan) THEN "validate" ELSE "tools"]]
      BY <1>2, <1>3 DEF InvokeTool
    <3>2. [o EXCEPT !.called = Append(@, tool), !.evidence = @ \cup EvidenceFrom(tool, o.named),
                    !.pc = IF k = Len(o.plan) THEN "validate" ELSE "tools"]
          = [o EXCEPT !.called = cs, !.evidence = ev, !.pc = pc]
      BY <1>1, <2>3 DEF Run
    <3> QED
      BY <3>1, <3>2
  <2> QED
    BY <2>1, <2>2, <2>3, <2>4
<1>5. PICK r : r = [o EXCEPT !.called = cs, !.evidence = ev, !.pc = pc]
  OBVIOUS
<1>6. /\ r \in Run /\ r.pc = pc /\ r.called = cs /\ r.plan = o.plan /\ r.agent = o.agent
      /\ r.ext = o.ext
  BY <1>1, <1>5 DEF Run
<1>7. RunOK(r)
  <2>1. Len(cs) = k /\ Len(o.plan) \in Nat
    BY <1>1, <1>2, <1>4 DEF Run
  <2> QED
    BY <1>1, <1>2, <1>4, <1>6, <2>1 DEF RunOK
<1>8. RunsInv' /\ ConsentInv'
  BY <1>1, <1>4, <1>5, <1>6, <1>7, OngoingStep
<1> QED
  BY <1>1, <1>8 DEF HarnessInv, AuditInv, AuditBounded

LEMMA ConcludeRunStep ==
  ASSUME HarnessInv, NEW q \in Requests, ConcludeRun(q)
  PROVE  HarnessInv'
<1> DEFINE o == harness[q]
<1>1. /\ o # NoRun /\ o.pc = "validate" /\ o \in Run /\ RunOK(o)
      /\ UNCHANGED <<opEvents, privacy, provider, candidateIds, jobs, runs, audit, runCount,
                     settingCount, consent>>
  BY DEF ConcludeRun, HarnessInv, RunsInv, RunOK
<1>2. PICK v \in Ended :
         harness' = [harness EXCEPT ![q].status = v, ![q].job = v, ![q].pc = "record"]
  BY DEF ConcludeRun, Ended
<1>3. PICK r : r = [o EXCEPT !.status = v, !.job = v, !.pc = "record"]
  OBVIOUS
<1>4. /\ r \in Run /\ r.pc = "record" /\ r.status = v /\ r.job = v /\ r.plan = o.plan
      /\ r.agent = o.agent /\ r.ext = o.ext
  BY <1>1, <1>3 DEF Run
<1>5. RunOK(r)
  BY <1>1, <1>4 DEF RunOK
<1>6. harness' = [harness EXCEPT ![q] = r]
  BY <1>1, <1>2, <1>3 DEF HarnessInv, RunsInv
<1>7. RunsInv' /\ ConsentInv'
  BY <1>1, <1>4, <1>5, <1>6, OngoingStep
<1> QED
  BY <1>1, <1>7 DEF HarnessInv, AuditInv, AuditBounded

(***************************************************************************)
(* The two lists grow and are trimmed together.                            *)
(***************************************************************************)
LEMMA PairPushed ==
  ASSUME NEW js, NEW rs, Paired(js, rs), NEW j \in JobEntry, NEW r \in RunEntry,
         j.id = r.id, j.status = r.status, r.ext => r.consented
  PROVE  Paired(Pushed(js, j, RunCap), Pushed(rs, r, RunCap))
<1>1. RunCap \in Nat \ {0} /\ js \in Seq(JobEntry) /\ rs \in Seq(RunEntry) /\ Len(js) = Len(rs)
  BY PlatformAgentsAssumption DEF Paired
<1>2. PICK n \in Nat : n = Len(js)
  BY <1>1
<1> DEFINE At2(i) == IF n + 1 > RunCap THEN n + 1 - RunCap + i ELSE i
           l == IF n + 1 > RunCap THEN RunCap ELSE n + 1
<1>3. PICK pj, pr : pj = Pushed(js, j, RunCap) /\ pr = Pushed(rs, r, RunCap)
  OBVIOUS
<1>4. pj \in Seq(JobEntry) /\ Len(pj) = l /\ \A i \in 1..l : pj[i] = Append(js, j)[At2(i)]
  <2>1. pj \in Seq(JobEntry) /\ LastOf(pj, js, j, RunCap)
    BY <1>1, <1>3, PushedSeq
  <2> QED
    BY <1>1, <1>2, <2>1 DEF LastOf
<1>5. pr \in Seq(RunEntry) /\ Len(pr) = l /\ \A i \in 1..l : pr[i] = Append(rs, r)[At2(i)]
  <2>1. pr \in Seq(RunEntry) /\ LastOf(pr, rs, r, RunCap)
    BY <1>1, <1>3, PushedSeq
  <2> QED
    BY <1>1, <1>2, <2>1 DEF LastOf
<1>6. \A i \in 1..l : At2(i) \in 1..(n + 1)
  BY <1>1
<1>7. \A m \in 1..(n + 1) : /\ Append(js, j)[m].id = Append(rs, r)[m].id
                            /\ Append(js, j)[m].status = Append(rs, r)[m].status
                            /\ Append(rs, r)[m].ext => Append(rs, r)[m].consented
  <2> SUFFICES ASSUME NEW m \in 1..(n + 1)
               PROVE  /\ Append(js, j)[m].id = Append(rs, r)[m].id
                      /\ Append(js, j)[m].status = Append(rs, r)[m].status
                      /\ Append(rs, r)[m].ext => Append(rs, r)[m].consented
    OBVIOUS
  <2>1. CASE m = n + 1
    <3>1. Append(js, j)[m] = j /\ Append(rs, r)[m] = r
      BY <1>1, <1>2, <2>1
    <3> QED
      BY <3>1
  <2>2. CASE m # n + 1
    <3>1. Append(js, j)[m] = js[m] /\ Append(rs, r)[m] = rs[m] /\ m \in 1..Len(js)
      BY <1>1, <1>2, <2>2
    <3> QED
      BY <3>1 DEF Paired
  <2> QED
    BY <2>1, <2>2
<1> HIDE DEF At2, l
<1>8. Paired(pj, pr)
  <2>1. Len(pj) = Len(pr) /\ pj \in Seq(JobEntry) /\ pr \in Seq(RunEntry)
    BY <1>4, <1>5
  <2>2. \A i \in 1..Len(pj) : pj[i].id = pr[i].id /\ pj[i].status = pr[i].status
                             /\ (pr[i].ext => pr[i].consented)
    BY <1>4, <1>5, <1>6, <1>7
  <2> QED
    BY <2>1, <2>2 DEF Paired
<1> QED
  BY <1>3, <1>8

LEMMA RecordRunStep ==
  ASSUME HarnessInv, NEW q \in Requests, RecordRun(q)
  PROVE  HarnessInv'
<1> DEFINE o == harness[q]
<1>1. /\ o # NoRun /\ o.pc = "record" /\ o \in Run /\ RunOK(o)
      /\ UNCHANGED <<opEvents, privacy, provider, candidateIds, audit, runCount, settingCount,
                     consent>>
  BY DEF RecordRun, HarnessInv, RunsInv, RunOK
<1>2. PICK r : /\ harness' = [harness EXCEPT ![q] = r]
               /\ r = IF o.via = "analyst" THEN [o EXCEPT !.pc = "audit"] ELSE NoRun
  BY DEF RecordRun
<1>3. r # NoRun => r \in Run /\ RunOK(r) /\ r.ext = o.ext
  <2> SUFFICES ASSUME r # NoRun PROVE r \in Run /\ RunOK(r) /\ r.ext = o.ext
    OBVIOUS
  <2>1. /\ r \in Run /\ r.pc = "audit" /\ r.status = o.status /\ r.job = o.job /\ r.plan = o.plan
        /\ r.agent = o.agent /\ r.ext = o.ext
    BY <1>1, <1>2 DEF Run
  <2> QED
    BY <1>1, <2>1 DEF RunOK
<1>4. RunsInv' /\ ConsentInv'
  BY <1>1, <1>2, <1>3, OngoingStep
<1>5. Paired(jobs', runs')
  <2>1. PICK b \in BOOLEAN : b = (q \in consent) /\ (o.ext => b)
    <3>1. o.ext => q \in consent
      BY <1>1 DEF HarnessInv, ConsentInv
    <3>2. (q \in consent) \in BOOLEAN
      OBVIOUS
    <3> QED
      BY <3>1, <3>2, Zenon
  <2>2. PICK j, e : /\ j = [id |-> o.id, status |-> o.job]
                    /\ e = [id |-> o.id, status |-> o.status, agent |-> o.agent, ext |-> o.ext,
                            called |-> o.called, consented |-> b]
    OBVIOUS
  <2>3. jobs' = Pushed(jobs, j, RunCap) /\ runs' = Pushed(runs, e, RunCap)
    BY <2>1, <2>2 DEF RecordRun
  <2>4. o.job \in Ended /\ o.status = o.job /\ o.id \in Nat /\ o.ext \in BOOLEAN
        /\ o.called \in Seq(ToolNames) /\ o.agent \in AskedAgents \cup {"endpoint_analyst"}
    BY <1>1 DEF RunOK, Run
  <2>5. j \in JobEntry /\ e \in RunEntry /\ j.id = e.id /\ j.status = e.status
        /\ (e.ext => e.consented)
    BY <2>1, <2>2, <2>4 DEF JobEntry, RunEntry
  <2>6. Paired(jobs, runs)
    BY DEF HarnessInv
  <2> QED
    BY <2>3, <2>5, <2>6, PairPushed
<1> QED
  BY <1>1, <1>4, <1>5 DEF HarnessInv, AuditInv, AuditBounded

LEMMA AuditAnalystStep ==
  ASSUME HarnessInv, NEW q \in Requests, AuditAnalyst(q)
  PROVE  HarnessInv'
<1>1. /\ harness[q] # NoRun /\ harness' = [harness EXCEPT ![q] = NoRun]
      /\ UNCHANGED <<opEvents, privacy, provider, candidateIds, jobs, runs, runCount, settingCount,
                     consent>>
  BY DEF AuditAnalyst
<1>2. RunsInv' /\ ConsentInv'
  BY <1>1, OngoingStep
<1>3. AuditCap \in Nat \ {0} /\ audit \in Seq(AuditActions) /\ Len(audit) \in Nat
  BY PlatformAgentsAssumption DEF HarnessInv, AuditInv
<1>4. AuditInv'
  <2>1. CASE audit' = AppendAudit(audit, "analyst_failed")
    <3>1. "analyst_failed" \in AuditActions
      BY DEF AuditActions
    <3> QED
      BY <2>1, <3>1, PushedAudit DEF HarnessInv
  <2>2. CASE audit' = Append(AppendAudit(audit, "analyst"), "ai_run_completed")
    <3>1. "analyst" \in AuditActions /\ "ai_run_completed" \in AuditActions
      BY DEF AuditActions
    <3>2. PICK a : a = AppendAudit(audit, "analyst")
      OBVIOUS
    <3>3. /\ a \in Seq(AuditActions)
          /\ Len(a) = IF Len(audit) + 1 > AuditCap THEN AuditCap ELSE Len(audit) + 1
      BY <1>3, <3>1, <3>2, PushedSeq DEF AppendAudit, LastOf
    <3>4. Append(a, "ai_run_completed") \in Seq(AuditActions)
          /\ Len(Append(a, "ai_run_completed")) = Len(a) + 1
      BY <3>1, <3>3
    <3> QED
      BY <1>3, <2>2, <3>2, <3>3, <3>4 DEF AuditInv, AuditBounded
  <2> QED
    BY <2>1, <2>2 DEF AuditAnalyst
<1> QED
  BY <1>1, <1>2, <1>4 DEF HarnessInv

(***************************************************************************)
(* Whatever settings and candidates change while runs are in flight, and   *)
(* however many of them: no job stays running, no run goes to an external  *)
(* model without consent, and the audit list keeps its limit (harness.go,  *)
(* platform_ai.go).                                                        *)
(***************************************************************************)
THEOREM HarnessHolds == AgentSpec => []HarnessSound
<1>1. HarnessInv /\ [AgentNext]_agentVars => HarnessInv'
  <2> SUFFICES ASSUME HarnessInv, [AgentNext]_agentVars PROVE HarnessInv'
    OBVIOUS
  <2>1. CASE \/ \E ext, redact \in BOOLEAN : UpdatePrivacy(ext, redact)
             \/ \E p \in ProviderIds : ConfigureProvider(p)
             \/ \E what \in {"ai_provider_upsert", "ai_provider_test"} : ProviderAdmin(what)
             \/ \E c \in NamedCandidates : CandidatesChange(c)
             \/ UNCHANGED agentVars
    BY <2>1, SettingsStep
  <2>2. ASSUME NEW q \in Requests, NEW agent \in AskedAgents, NEW named \in Named,
               StartHarness(q, agent, named, "jobs")
        PROVE  HarnessInv'
    BY <2>2, StartHarnessStep
  <2>3. ASSUME NEW q \in Requests, StartHarness(q, "endpoint_analyst", "", "analyst")
        PROVE  HarnessInv'
    <3>1. "" \in Named
      BY Zenon DEF Named
    <3> QED
      BY <2>3, <3>1, StartHarnessStep, Zenon
  <2>4. ASSUME NEW q \in Requests,
               \/ ReadSettings(q) \/ InvokeTool(q) \/ ConcludeRun(q) \/ RecordRun(q)
               \/ AuditAnalyst(q)
        PROVE  HarnessInv'
    BY <2>4, ReadSettingsStep, InvokeToolStep, ConcludeRunStep, RecordRunStep, AuditAnalystStep
  <2> QED
    BY <2>1, <2>2, <2>3, <2>4, Zenon DEF AgentNext, Named
<1> QED
  BY <1>1, InitHarness, HarnessInvSound, PTL DEF AgentSpec

-----------------------------------------------------------------------------
(***************************************************************************)
(* The configuration service and the manager that follows it.  What is in  *)
(* flight, on the bus, in the view or in a fetched snapshot is at most as  *)
(* new as the row, and says what the row says when it is as new.           *)
(***************************************************************************)
PutRec == [key : CfgKeys, value : Sendable, put : Nat]
RowRec == [value : Sendable, put : Nat]
Entry == [value : Sendable \cup {"zero", "default", "env"}, put : Nat]

CfgType ==
    /\ cfgDb \in [CfgKeys -> RowRec \cup {NoRow}]
    /\ cfgPut \in [CfgWorkers -> PutRec \cup {NoPut}]
    /\ cfgBus \in Seq(PutRec) /\ cfgMgr \in {"down", "loaded", "ready"}
    /\ cfgView \in [CfgKeys -> Entry] /\ cfgFetch \in [CfgKeys -> Entry] \cup {NoFetch}
    /\ cfgPuts \in Nat /\ cfgTold \in [CfgKeys -> Nat] /\ cfgMissed \subseteq CfgKeys

PutOK(p) == p.put <= RowPut(p.key) /\ (p.put = RowPut(p.key) => p.value = cfgDb[p.key].value)
EntryOK(k, e) ==
    /\ e.put <= RowPut(k)
    /\ cfgDb[k] # NoRow /\ cfgDb[k].value # "illtyped" /\ e.put = RowPut(k) =>
          e.value = ParsedOr(cfgDb[k].value, "default")

StoredInv ==
    /\ \A k \in CfgKeys : /\ RowPut(k) <= cfgPuts /\ cfgTold[k] <= RowPut(k)
                          /\ cfgDb[k] # NoRow => cfgDb[k].put > 0
                          /\ EntryOK(k, cfgView[k])
                          /\ cfgFetch # NoFetch => EntryOK(k, cfgFetch[k])
    /\ \A w \in CfgWorkers : cfgPut[w] # NoPut => PutOK(cfgPut[w]) /\ cfgPut[w].put > 0
    /\ \A i \in 1..Len(cfgBus) : PutOK(cfgBus[i]) /\ cfgBus[i].put > 0

(* The manager has heard of PUT m last for k, once the bus is applied.     *)
Heard(k, m) ==
    \/ \E i \in 1..Len(cfgBus) : /\ cfgBus[i].key = k /\ cfgBus[i].put = m
                                 /\ \A j \in (i + 1)..Len(cfgBus) : cfgBus[j].key # k
    \/ (\A j \in 1..Len(cfgBus) : cfgBus[j].key # k) /\ cfgView[k].put = m

Flying(w, k) == cfgPut[w] # NoPut /\ cfgPut[w].key = k

(* For a key it has not missed, the manager has heard of the newest row or *)
(* an announcement is still to come; before it subscribes, one newer than  *)
(* its snapshot.                                                           *)
FollowInv ==
    /\ cfgMgr # "ready" => cfgBus = << >> /\ cfgFetch = NoFetch
    /\ cfgMgr = "loaded" => \A k \in CfgKeys \ cfgMissed :
         \/ cfgView[k].put = RowPut(k)
         \/ \E w \in CfgWorkers : Flying(w, k) /\ cfgPut[w].put > cfgView[k].put
    /\ cfgMgr = "ready" => \A k \in CfgKeys : \E m \in Nat :
         Heard(k, m) /\ (k \in cfgMissed \/ m = RowPut(k) \/ \E w \in CfgWorkers : Flying(w, k))

ConfigInv == CfgType /\ StoredInv /\ FollowInv

LEMMA ConfigInvSound == ConfigInv => ConfigSound
<1> SUFFICES ASSUME ConfigInv PROVE ConfigSound
  OBVIOUS
<1>1. StoredBeforeAnnounced
  BY DEF ConfigInv, CfgType, StoredInv, PutOK, StoredBeforeAnnounced
<1>2. SettledAgrees
  <2> SUFFICES ASSUME cfgMgr = "ready", cfgBus = << >>, ~InFlight, NEW k \in CfgKeys \ cfgMissed,
                      cfgDb[k] # NoRow, cfgDb[k].value # "illtyped"
               PROVE  cfgView[k].value = ParsedOr(cfgDb[k].value, "default")
    BY DEF SettledAgrees
  <2>1. PICK m \in Nat : Heard(k, m) /\ (m = RowPut(k) \/ \E w \in CfgWorkers : Flying(w, k))
    BY DEF ConfigInv, FollowInv
  <2>2. m = RowPut(k)
    BY <2>1 DEF InFlight, Flying
  <2>3. cfgView[k].put = m
    BY <2>1 DEF Heard
  <2> QED
    BY <2>2, <2>3 DEF ConfigInv, StoredInv, EntryOK
<1> QED
  BY <1>1, <1>2 DEF ConfigSound

LEMMA InitConfig == ConfigInit => ConfigInv
<1> SUFFICES ASSUME ConfigInit PROVE ConfigInv
  OBVIOUS
<1>1. CfgType
  BY DEF ConfigInit, CfgType, Entry
<1>2. StoredInv
  BY DEF ConfigInit, StoredInv, EntryOK, RowPut
<1>3. FollowInv
  BY DEF ConfigInit, FollowInv
<1> QED
  BY <1>1, <1>2, <1>3 DEF ConfigInv

(***************************************************************************)
(* A PUT: its number is newer than all the manager can have heard of.      *)
(***************************************************************************)
LEMMA SetConfigStep ==
  ASSUME ConfigInv, NEW w \in CfgWorkers, NEW k \in CfgKeys, NEW v \in Sendable, SetConfig(w, k, v)
  PROVE  ConfigInv'
<1>1. PICK n \in Nat \ {0} : n = cfgPuts + 1 /\ cfgPuts \in Nat
  BY DEF ConfigInv, CfgType
<1>2. PICK row, p : row = [value |-> v, put |-> n] /\ p = [key |-> k, value |-> v, put |-> n]
  OBVIOUS
<1>3. /\ cfgPut[w] = NoPut /\ cfgPuts' = n /\ cfgDb' = [cfgDb EXCEPT ![k] = row]
      /\ cfgPut' = [cfgPut EXCEPT ![w] = p] /\ cfgMissed' = cfgMissed \ {k}
      /\ UNCHANGED <<cfgMgr, cfgView, cfgFetch, cfgRefreshes, cfgBus, cfgFaults, cfgTold>>
  BY <1>1, <1>2 DEF SetConfig, Upsert, mgrVars
<1>4. /\ row \in RowRec /\ row # NoRow /\ row.value = v /\ row.put = n
      /\ p \in PutRec /\ p # NoPut /\ p.key = k /\ p.value = v /\ p.put = n
  BY <1>2, ConfigNullAssumption DEF RowRec, PutRec
<1>5. CfgType'
  BY <1>3, <1>4 DEF ConfigInv, CfgType
<1>6. /\ cfgDb'[k] = row /\ \A x \in CfgKeys \ {k} : cfgDb'[x] = cfgDb[x]
      /\ cfgPut'[w] = p /\ \A x \in CfgWorkers \ {w} : cfgPut'[x] = cfgPut[x]
  BY <1>3 DEF ConfigInv, CfgType
<1>7. RowPut(k)' = n /\ RowPut(k) <= cfgPuts /\ \A x \in CfgKeys \ {k} : RowPut(x)' = RowPut(x)
  BY <1>4, <1>6 DEF RowPut, ConfigInv, StoredInv
<1>8. \A x \in CfgKeys : RowPut(x) \in Nat /\ RowPut(x) <= cfgPuts
  BY DEF RowPut, ConfigInv, StoredInv, CfgType, RowRec
<1>9. StoredInv'
  <2>1. ASSUME NEW x \in CfgKeys, NEW e \in Entry, EntryOK(x, e) PROVE EntryOK(x, e)'
    <3>1. CASE x = k
      BY <3>1, <2>1, <1>1, <1>7, <1>8 DEF EntryOK, Entry
    <3>2. CASE x # k
      BY <3>2, <2>1, <1>6, <1>7 DEF EntryOK
    <3> QED
      BY <3>1, <3>2
  <2>2. ASSUME NEW x \in PutRec, PutOK(x) PROVE PutOK(x)'
    <3>1. x.key \in CfgKeys /\ x.put \in Nat
      BY DEF PutRec
    <3>2. CASE x.key = k
      BY <3>1, <3>2, <2>2, <1>1, <1>7, <1>8 DEF PutOK
    <3>3. CASE x.key # k
      BY <3>1, <3>3, <2>2, <1>6, <1>7 DEF PutOK
    <3> QED
      BY <3>2, <3>3
  <2>3. ASSUME NEW x \in CfgKeys
        PROVE  /\ RowPut(x)' <= cfgPuts' /\ cfgTold'[x] <= RowPut(x)'
               /\ cfgDb'[x] # NoRow => cfgDb'[x].put > 0
    <3>1. cfgTold[x] \in Nat /\ cfgTold[x] <= RowPut(x) /\ (cfgDb[x] # NoRow => cfgDb[x].put > 0)
      BY DEF ConfigInv, StoredInv, CfgType
    <3>2. CASE x = k
      BY <3>1, <3>2, <1>1, <1>3, <1>4, <1>6, <1>7, <1>8
    <3>3. CASE x # k
      BY <3>1, <3>3, <1>1, <1>3, <1>6, <1>7, <1>8
    <3> QED
      BY <3>2, <3>3
  <2>4. ASSUME NEW x \in CfgKeys
        PROVE  EntryOK(x, cfgView[x])' /\ (cfgFetch # NoFetch => EntryOK(x, cfgFetch[x])')
    <3>1. PICK e \in Entry : e = cfgView[x] /\ EntryOK(x, e)
      BY DEF ConfigInv, StoredInv, CfgType
    <3>2. EntryOK(x, e)'
      BY <3>1, <2>1
    <3>3. EntryOK(x, cfgView[x])'
      BY <3>1, <3>2, <1>3 DEF EntryOK, RowPut
    <3>4. ASSUME cfgFetch # NoFetch PROVE EntryOK(x, cfgFetch[x])'
      <4>1. PICK g \in Entry : g = cfgFetch[x] /\ EntryOK(x, g)
        BY <3>4 DEF ConfigInv, StoredInv, CfgType
      <4>2. EntryOK(x, g)'
        BY <4>1, <2>1
      <4> QED
        BY <4>1, <4>2, <1>3 DEF EntryOK, RowPut
    <3> QED
      BY <3>3, <3>4
  <2>5. ASSUME NEW x \in CfgWorkers, cfgPut'[x] # NoPut PROVE PutOK(cfgPut[x])' /\ cfgPut'[x].put > 0
    <3>1. CASE x = w
      BY <3>1, <1>1, <1>4, <1>6, <1>7 DEF PutOK
    <3>2. CASE x # w
      <4>1. PICK y \in PutRec : y = cfgPut[x] /\ y = cfgPut'[x] /\ PutOK(y) /\ y.put > 0
        BY <3>2, <2>5, <1>6 DEF ConfigInv, StoredInv, CfgType
      <4>2. PutOK(y)'
        BY <4>1, <2>2
      <4> QED
        BY <4>1, <4>2 DEF PutOK, RowPut
    <3> QED
      BY <3>1, <3>2
  <2>6. ASSUME NEW i \in 1..Len(cfgBus') PROVE PutOK(cfgBus[i])' /\ cfgBus'[i].put > 0
    <3>1. PICK y \in PutRec : y = cfgBus[i] /\ y = cfgBus'[i] /\ PutOK(y) /\ y.put > 0
      BY <1>3 DEF ConfigInv, StoredInv, CfgType
    <3>2. PutOK(y)'
      BY <3>1, <2>2
    <3> QED
      BY <3>1, <3>2 DEF PutOK, RowPut
  <2> QED
    BY <2>3, <2>4, <2>5, <2>6, <1>3 DEF StoredInv
<1>10. FollowInv'
  <2>1. ASSUME NEW x \in CfgKeys \ cfgMissed', cfgMgr = "loaded"
        PROVE  \/ cfgView'[x].put = RowPut(x)'
               \/ \E z \in CfgWorkers : Flying(z, x)' /\ cfgPut'[z].put > cfgView'[x].put
    <3>1. CASE x = k
      <4>1. cfgView[k].put \in Nat /\ cfgView[k].put <= RowPut(k)
        BY DEF ConfigInv, StoredInv, EntryOK, CfgType, Entry
      <4>2. p.put > cfgView[k].put
        BY <4>1, <1>1, <1>4, <1>8
      <4> QED
        BY <3>1, <4>2, <1>3, <1>4, <1>6 DEF Flying
    <3>2. CASE x # k
      <4>1. \/ cfgView[x].put = RowPut(x)
            \/ \E z \in CfgWorkers : Flying(z, x) /\ cfgPut[z].put > cfgView[x].put
        BY <2>1, <3>2, <1>3 DEF ConfigInv, FollowInv
      <4> QED
        BY <3>2, <4>1, <1>3, <1>6, <1>7 DEF Flying
    <3> QED
      BY <3>1, <3>2
  <2>2. ASSUME NEW x \in CfgKeys, cfgMgr = "ready"
        PROVE  \E m \in Nat : /\ Heard(x, m)'
                              /\ x \in cfgMissed' \/ m = RowPut(x)' \/ \E z \in CfgWorkers : Flying(z, x)'
    <3>1. PICK m \in Nat : /\ Heard(x, m)
                           /\ x \in cfgMissed \/ m = RowPut(x) \/ \E z \in CfgWorkers : Flying(z, x)
      BY <2>2 DEF ConfigInv, FollowInv
    <3>2. Heard(x, m)'
      BY <3>1, <1>3 DEF Heard
    <3>3. x \in cfgMissed' \/ m = RowPut(x)' \/ \E z \in CfgWorkers : Flying(z, x)'
      <4>1. CASE x = k
        BY <4>1, <1>4, <1>6 DEF Flying
      <4>2. CASE x # k
        BY <4>2, <3>1, <1>3, <1>6, <1>7 DEF Flying
      <4> QED
        BY <4>1, <4>2
    <3> QED
      BY <3>2, <3>3
  <2> QED
    BY <2>1, <2>2, <1>3 DEF FollowInv, ConfigInv
<1> QED
  BY <1>5, <1>9, <1>10 DEF ConfigInv

(***************************************************************************)
(* A step that stores no row.                                              *)
(***************************************************************************)
LEMMA StoredStep ==
  ASSUME ConfigInv, CfgType', cfgDb' = cfgDb, cfgPuts' >= cfgPuts,
         \A k \in CfgKeys : cfgTold'[k] <= RowPut(k) /\ EntryOK(k, cfgView'[k]),
         cfgFetch' # NoFetch => \A k \in CfgKeys : EntryOK(k, cfgFetch'[k]),
         \A w \in CfgWorkers : cfgPut'[w] = cfgPut[w] \/ cfgPut'[w] = NoPut,
         \A i \in 1..Len(cfgBus') : PutOK(cfgBus'[i]) /\ cfgBus'[i].put > 0
  PROVE  StoredInv' /\ \A k \in CfgKeys : RowPut(k)' = RowPut(k)
<1>1. \A k : RowPut(k)' = RowPut(k)
  BY DEF RowPut
<1>2. \A k, e : EntryOK(k, e)' <=> EntryOK(k, e)
  BY <1>1 DEF EntryOK
<1>3. \A p : PutOK(p)' <=> PutOK(p)
  BY <1>1 DEF PutOK
<1>4. ASSUME NEW k \in CfgKeys
      PROVE  /\ RowPut(k)' <= cfgPuts' /\ cfgTold'[k] <= RowPut(k)'
             /\ cfgDb'[k] # NoRow => cfgDb'[k].put > 0
             /\ EntryOK(k, cfgView[k])'
             /\ cfgFetch' # NoFetch => EntryOK(k, cfgFetch[k])'
  <2>1. RowPut(k) \in Nat /\ RowPut(k) <= cfgPuts /\ cfgPuts \in Nat /\ cfgPuts' \in Nat
        /\ (cfgDb[k] # NoRow => cfgDb[k].put > 0)
    BY DEF ConfigInv, StoredInv, CfgType, RowPut, RowRec
  <2>2. RowPut(k)' <= cfgPuts' /\ cfgTold'[k] <= RowPut(k)' /\ (cfgDb'[k] # NoRow => cfgDb'[k].put > 0)
    BY <1>1, <2>1
  <2>3. PICK e : e = cfgView'[k] /\ EntryOK(k, e)
    OBVIOUS
  <2>4. EntryOK(k, cfgView[k])'
    BY <1>1, <2>3 DEF EntryOK
  <2>5. ASSUME cfgFetch' # NoFetch PROVE EntryOK(k, cfgFetch[k])'
    <3>1. PICK g : g = cfgFetch'[k] /\ EntryOK(k, g)
      BY <2>5
    <3> QED
      BY <1>1, <3>1 DEF EntryOK
  <2> QED
    BY <2>2, <2>4, <2>5
<1>5. ASSUME NEW w \in CfgWorkers, cfgPut'[w] # NoPut PROVE PutOK(cfgPut[w])' /\ cfgPut'[w].put > 0
  <2>1. PICK y : y = cfgPut'[w] /\ y = cfgPut[w] /\ PutOK(y) /\ y.put > 0
    BY <1>5 DEF ConfigInv, StoredInv
  <2> QED
    BY <1>1, <2>1 DEF PutOK
<1>6. ASSUME NEW i \in 1..Len(cfgBus') PROVE PutOK(cfgBus[i])' /\ cfgBus'[i].put > 0
  <2>1. PICK y : y = cfgBus'[i] /\ PutOK(y) /\ y.put > 0
    OBVIOUS
  <2> QED
    BY <1>1, <2>1 DEF PutOK
<1> QED
  BY <1>1, <1>4, <1>5, <1>6 DEF StoredInv

(***************************************************************************)
(* The end of a PUT that gives its announcement up, for any set of them.   *)
(***************************************************************************)
LEMMA GivenUpStep ==
  ASSUME ConfigInv, CfgType', UNCHANGED <<cfgDb, cfgMgr, cfgView, cfgFetch, cfgBus, cfgTold>>,
         cfgPuts' >= cfgPuts, cfgMissed \subseteq cfgMissed',
         \A w \in CfgWorkers : \/ cfgPut'[w] = cfgPut[w]
                               \/ cfgPut'[w] = NoPut /\ cfgPut[w].key \in cfgMissed'
  PROVE  ConfigInv'
<1>1. StoredInv' /\ \A k \in CfgKeys : RowPut(k)' = RowPut(k)
  <2>1. \A k \in CfgKeys : cfgTold'[k] <= RowPut(k) /\ EntryOK(k, cfgView'[k])
    BY DEF ConfigInv, StoredInv
  <2>2. cfgFetch' # NoFetch => \A k \in CfgKeys : EntryOK(k, cfgFetch'[k])
    BY DEF ConfigInv, StoredInv
  <2>3. \A i \in 1..Len(cfgBus') : PutOK(cfgBus'[i]) /\ cfgBus'[i].put > 0
    BY DEF ConfigInv, StoredInv
  <2> QED
    BY <2>1, <2>2, <2>3, StoredStep
<1>2. \A k, m : Heard(k, m)' <=> Heard(k, m)
  BY DEF Heard
<1>3. \A w \in CfgWorkers, k \in CfgKeys \ cfgMissed' :
         Flying(w, k) => Flying(w, k)' /\ cfgPut'[w] = cfgPut[w]
  BY DEF Flying
<1>4. FollowInv'
  <2>1. ASSUME NEW k \in CfgKeys \ cfgMissed', cfgMgr = "loaded"
        PROVE  \/ cfgView'[k].put = RowPut(k)'
               \/ \E w \in CfgWorkers : Flying(w, k)' /\ cfgPut'[w].put > cfgView'[k].put
    BY <2>1, <1>1, <1>3 DEF ConfigInv, FollowInv
  <2>2. ASSUME NEW k \in CfgKeys, cfgMgr = "ready"
        PROVE  \E m \in Nat : /\ Heard(k, m)'
                              /\ k \in cfgMissed' \/ m = RowPut(k)' \/ \E w \in CfgWorkers : Flying(w, k)'
    <3>1. PICK m \in Nat : /\ Heard(k, m)
                           /\ k \in cfgMissed \/ m = RowPut(k) \/ \E w \in CfgWorkers : Flying(w, k)
      BY <2>2 DEF ConfigInv, FollowInv
    <3> QED
      BY <3>1, <1>1, <1>2, <1>3
  <2> QED
    BY <2>1, <2>2 DEF FollowInv, ConfigInv
<1> QED
  BY <1>1, <1>4 DEF ConfigInv

LEMMA NotAnnouncedStep ==
  ASSUME ConfigInv,
         \/ \E w \in CfgWorkers : SetConfigFails(w) \/ PublishFails(w)
         \/ ConfigApiRestart
         \/ UNCHANGED cfgVars
  PROVE  ConfigInv'
<1>1. ASSUME NEW w \in CfgWorkers, SetConfigFails(w) PROVE ConfigInv'
  <2>1. UNCHANGED <<cfgDb, cfgMgr, cfgView, cfgFetch, cfgBus, cfgTold, cfgPut, cfgMissed>>
        /\ cfgPuts' = cfgPuts + 1 /\ cfgPuts \in Nat
    BY <1>1 DEF SetConfigFails, FailedPut, mgrVars, ConfigInv, CfgType
  <2>2. CfgType' /\ cfgPuts' >= cfgPuts
    BY <2>1 DEF ConfigInv, CfgType
  <2> QED
    BY <2>1, <2>2, GivenUpStep
<1>2. ASSUME NEW w \in CfgWorkers, PublishFails(w) PROVE ConfigInv'
  <2>1. /\ UNCHANGED <<cfgDb, cfgMgr, cfgView, cfgFetch, cfgBus, cfgTold, cfgPuts>>
        /\ cfgPut[w] # NoPut /\ cfgPut' = [cfgPut EXCEPT ![w] = NoPut]
        /\ cfgMissed' = cfgMissed \cup {cfgPut[w].key}
    BY <1>2 DEF PublishFails, mgrVars
  <2>2. cfgPut[w].key \in CfgKeys
    BY <2>1 DEF ConfigInv, CfgType, PutRec
  <2>3. CfgType' /\ cfgPuts' >= cfgPuts
    BY <2>1, <2>2 DEF ConfigInv, CfgType
  <2>4. \A x \in CfgWorkers : cfgPut'[x] = cfgPut[x] \/ (cfgPut'[x] = NoPut /\ cfgPut[x].key \in cfgMissed')
    BY <2>1 DEF ConfigInv, CfgType
  <2> QED
    BY <2>1, <2>3, <2>4, GivenUpStep
<1>3. CASE ConfigApiRestart
  <2>1. /\ UNCHANGED <<cfgDb, cfgMgr, cfgView, cfgFetch, cfgBus, cfgTold, cfgPuts>>
        /\ cfgPut' = [w \in CfgWorkers |-> NoPut]
        /\ cfgMissed' = cfgMissed \cup {cfgPut[w].key : w \in {x \in CfgWorkers : cfgPut[x] # NoPut}}
    BY <1>3 DEF ConfigApiRestart, mgrVars
  <2>2. \A w \in CfgWorkers : cfgPut[w] # NoPut => cfgPut[w].key \in CfgKeys
    BY DEF ConfigInv, CfgType, PutRec
  <2>3. CfgType' /\ cfgPuts' >= cfgPuts
    BY <2>1, <2>2 DEF ConfigInv, CfgType
  <2>4. \A x \in CfgWorkers : cfgPut'[x] = cfgPut[x] \/ (cfgPut'[x] = NoPut /\ cfgPut[x].key \in cfgMissed')
    BY <2>1
  <2> QED
    BY <2>1, <2>3, <2>4, GivenUpStep
<1>4. CASE UNCHANGED cfgVars
  <2>1. UNCHANGED <<cfgDb, cfgMgr, cfgView, cfgFetch, cfgBus, cfgTold, cfgPut, cfgPuts, cfgMissed>>
    BY <1>4 DEF cfgVars, putVars, mgrVars
  <2>2. CfgType' /\ cfgPuts' >= cfgPuts
    BY <2>1 DEF ConfigInv, CfgType
  <2> QED
    BY <2>1, <2>2, GivenUpStep
<1> QED
  BY <1>1, <1>2, <1>3, <1>4

LEMMA PublishStep ==
  ASSUME ConfigInv, NEW w \in CfgWorkers, PublishChange(w)
  PROVE  ConfigInv'
<1>1. PICK p \in PutRec : p = cfgPut[w] /\ p # NoPut /\ PutOK(p) /\ p.put > 0
  BY DEF PublishChange, ConfigInv, CfgType, StoredInv
<1>2. /\ cfgBus' = (IF cfgMgr = "ready" THEN Append(cfgBus, p) ELSE cfgBus)
      /\ cfgTold' = [cfgTold EXCEPT ![p.key] = IF p.put > @ THEN p.put ELSE @]
      /\ cfgMissed' = (IF Behind(p) THEN cfgMissed \cup {p.key} ELSE cfgMissed)
      /\ cfgPut' = [cfgPut EXCEPT ![w] = NoPut]
      /\ UNCHANGED <<cfgDb, cfgPuts, cfgMgr, cfgView, cfgFetch, cfgRefreshes, cfgFaults>>
  BY <1>1 DEF PublishChange, mgrVars
<1>3. p.key \in CfgKeys /\ p.put \in Nat /\ p.put <= RowPut(p.key)
  BY <1>1 DEF PutRec, PutOK
<1>4. CfgType'
  BY <1>1, <1>2, <1>3 DEF ConfigInv, CfgType
<1>5. /\ cfgPut'[w] = NoPut /\ \A x \in CfgWorkers \ {w} : cfgPut'[x] = cfgPut[x]
      /\ \A x \in CfgWorkers : cfgPut'[x] = cfgPut[x] \/ cfgPut'[x] = NoPut
  BY <1>2 DEF ConfigInv, CfgType
<1>6. cfgBus \in Seq(PutRec) /\ Len(cfgBus) \in Nat
  BY DEF ConfigInv, CfgType
<1>7. StoredInv' /\ \A k \in CfgKeys : RowPut(k)' = RowPut(k)
  <2>1. \A k \in CfgKeys : cfgTold'[k] <= RowPut(k)
    BY <1>2, <1>3 DEF ConfigInv, StoredInv, CfgType
  <2>2. \A i \in 1..Len(cfgBus') : PutOK(cfgBus'[i]) /\ cfgBus'[i].put > 0
    <3>1. CASE cfgMgr = "ready"
      <4>1. cfgBus' = Append(cfgBus, p)
        BY <3>1, <1>2
      <4>2. ASSUME NEW i \in 1..Len(cfgBus') PROVE PutOK(cfgBus'[i]) /\ cfgBus'[i].put > 0
        <5>1. cfgBus'[i] = p \/ (i \in 1..Len(cfgBus) /\ cfgBus'[i] = cfgBus[i])
          BY <4>1, <1>6
        <5> QED
          BY <5>1, <1>1 DEF ConfigInv, StoredInv
      <4> QED
        BY <4>2
    <3>2. CASE cfgMgr # "ready"
      BY <3>2, <1>2 DEF ConfigInv, StoredInv
    <3> QED
      BY <3>1, <3>2
  <2>3. /\ \A k \in CfgKeys : EntryOK(k, cfgView'[k])
        /\ cfgFetch' # NoFetch => \A k \in CfgKeys : EntryOK(k, cfgFetch'[k])
    BY <1>2 DEF ConfigInv, StoredInv
  <2>4. cfgPuts' >= cfgPuts
    BY <1>2 DEF ConfigInv, CfgType
  <2> QED
    BY <1>2, <1>4, <1>5, <2>1, <2>2, <2>3, <2>4, StoredStep
<1>8. FollowInv'
  <2>1. ASSUME NEW k \in CfgKeys \ cfgMissed', cfgMgr = "loaded"
        PROVE  \/ cfgView'[k].put = RowPut(k)'
               \/ \E x \in CfgWorkers : Flying(x, k)' /\ cfgPut'[x].put > cfgView'[k].put
    <3>1. \/ cfgView[k].put = RowPut(k)
          \/ \E x \in CfgWorkers : Flying(x, k) /\ cfgPut[x].put > cfgView[k].put
      BY <2>1, <1>2 DEF ConfigInv, FollowInv
    <3>2. ~(Flying(w, k) /\ cfgPut[w].put > cfgView[k].put)
      BY <2>1, <1>1, <1>2 DEF Behind, Flying
    <3> QED
      BY <3>1, <3>2, <1>2, <1>5, <1>7 DEF Flying
  <2>2. ASSUME NEW k \in CfgKeys, cfgMgr = "ready"
        PROVE  \E m \in Nat : /\ Heard(k, m)'
                              /\ k \in cfgMissed' \/ m = RowPut(k)' \/ \E x \in CfgWorkers : Flying(x, k)'
    <3>1. /\ cfgBus' = Append(cfgBus, p) /\ Len(cfgBus') = Len(cfgBus) + 1
          /\ cfgBus'[Len(cfgBus) + 1] = p
          /\ \A i \in 1..Len(cfgBus) : cfgBus'[i] = cfgBus[i]
      BY <2>2, <1>2, <1>6
    <3>2. CASE k = p.key
      <4>1. Heard(k, p.put)'
        <5>1. PICK n \in 1..Len(cfgBus') : n = Len(cfgBus) + 1 /\ n = Len(cfgBus')
          BY <3>1, <1>6
        <5>2. cfgBus'[n].key = k /\ cfgBus'[n].put = p.put
          BY <5>1, <3>1, <3>2
        <5>3. \A j \in (n + 1)..Len(cfgBus') : cfgBus'[j].key # k
          BY <5>1, <1>6
        <5> QED
          BY <5>2, <5>3 DEF Heard
      <4>2. k \in cfgMissed' \/ p.put = RowPut(k)' \/ \E x \in CfgWorkers : Flying(x, k)'
        <5>1. CASE Behind(p)
          BY <5>1, <3>2, <1>2
        <5>2. CASE ~Overtaken(p)
          <6>1. p.put = RowPut(k) \/ \E x \in CfgWorkers : /\ cfgPut[x] # NoPut /\ cfgPut[x].key = p.key
                                                            /\ cfgPut[x].put > p.put
            <7>1. RowPut(k) \in Nat
              BY DEF RowPut, ConfigInv, CfgType, RowRec
            <7> QED
              BY <7>1, <5>2, <3>2, <1>3 DEF Overtaken
          <6>2. ~(cfgPut[w].put > p.put)
            BY <1>1, <1>3
          <6> QED
            BY <6>1, <6>2, <3>2, <1>5, <1>7 DEF Flying
        <5> QED
          BY <5>1, <5>2, <2>2 DEF Behind
      <4> QED
        BY <4>1, <4>2, <1>3
    <3>3. CASE k # p.key
      <4>1. PICK m \in Nat : /\ Heard(k, m)
                             /\ k \in cfgMissed \/ m = RowPut(k) \/ \E x \in CfgWorkers : Flying(x, k)
        BY <2>2 DEF ConfigInv, FollowInv
      <4>2. Heard(k, m)'
        <5>1. CASE (\A j \in 1..Len(cfgBus) : cfgBus[j].key # k) /\ cfgView[k].put = m
          <6>1. \A j \in 1..Len(cfgBus') : cfgBus'[j].key # k
            BY <5>1, <3>1, <3>3, <1>6
          <6> QED
            BY <6>1, <5>1, <1>2 DEF Heard
        <5>2. ASSUME NEW i \in 1..Len(cfgBus), cfgBus[i].key = k, cfgBus[i].put = m,
                     \A j \in (i + 1)..Len(cfgBus) : cfgBus[j].key # k
              PROVE  Heard(k, m)'
          <6>1. i \in 1..Len(cfgBus') /\ cfgBus'[i].key = k /\ cfgBus'[i].put = m
            BY <5>2, <3>1, <1>6
          <6>2. \A j \in (i + 1)..Len(cfgBus') : cfgBus'[j].key # k
            BY <5>2, <3>1, <3>3, <1>6
          <6> QED
            BY <6>1, <6>2 DEF Heard
        <5> QED
          BY <4>1, <5>1, <5>2 DEF Heard
      <4>3. k \in cfgMissed' \/ m = RowPut(k)' \/ \E x \in CfgWorkers : Flying(x, k)'
        BY <4>1, <3>3, <1>1, <1>2, <1>5, <1>7 DEF Flying
      <4> QED
        BY <4>2, <4>3
    <3> QED
      BY <3>2, <3>3
  <2>3. cfgMgr' # "ready" => cfgBus' = << >> /\ cfgFetch' = NoFetch
    BY <1>2 DEF ConfigInv, FollowInv
  <2> QED
    BY <2>1, <2>2, <2>3, <1>2 DEF FollowInv
<1> QED
  BY <1>4, <1>7, <1>8 DEF ConfigInv

(***************************************************************************)
(* What a snapshot of the rows says.                                       *)
(***************************************************************************)
LEMMA SnapshotOK ==
  ASSUME ConfigInv
  PROVE  /\ GetSnapshot \in [CfgKeys -> Entry]
         /\ \A k \in CfgKeys : EntryOK(k, GetSnapshot[k]) /\ GetSnapshot[k].put = RowPut(k)
<1>1. ASSUME NEW k \in CfgKeys
      PROVE  /\ GetSnapshot[k] \in Entry /\ EntryOK(k, GetSnapshot[k])
             /\ GetSnapshot[k].put = RowPut(k)
  <2>1. PICK v, n : /\ v = IF cfgDb[k] = NoRow THEN "default" ELSE ParsedOr(cfgDb[k].value, "default")
                    /\ n = RowPut(k)
    OBVIOUS
  <2>2. GetSnapshot[k] = [value |-> v, put |-> n]
    BY <2>1 DEF GetSnapshot
  <2>3. n \in Nat
    BY <2>1 DEF RowPut, ConfigInv, CfgType, RowRec
  <2>4. v \in Sendable \cup {"zero", "default", "env"}
    BY <2>1 DEF ParsedOr, ConfigInv, CfgType, RowRec
  <2> QED
    BY <2>1, <2>2, <2>3, <2>4 DEF Entry, EntryOK
<1>2. GetSnapshot = [k \in CfgKeys |-> GetSnapshot[k]]
  BY DEF GetSnapshot
<1> QED
  BY <1>1, <1>2

LEMMA LoadStep ==
  ASSUME ConfigInv, LoadConfig
  PROVE  ConfigInv'
<1>1. /\ cfgMgr = "down" /\ cfgMgr' = "loaded"
      /\ \/ cfgView' = GetSnapshot /\ cfgMissed' = {}
         \/ cfgView' = [k \in CfgKeys |-> [value |-> "env", put |-> 0]] /\ cfgMissed' = CfgKeys
      /\ UNCHANGED <<cfgDb, cfgPut, cfgPuts, cfgFetch, cfgBus, cfgTold>>
  BY DEF LoadConfig, putVars
<1>2. cfgBus = << >> /\ cfgFetch = NoFetch
  BY <1>1 DEF ConfigInv, FollowInv
<1>3. cfgView' \in [CfgKeys -> Entry] /\ \A k \in CfgKeys : EntryOK(k, cfgView'[k])
  <2>1. CASE cfgView' = GetSnapshot
    BY <2>1, SnapshotOK
  <2>2. CASE cfgView' = [k \in CfgKeys |-> [value |-> "env", put |-> 0]]
    <3>1. cfgView' \in [CfgKeys -> Entry]
      BY <2>2 DEF Entry
    <3>2. ASSUME NEW k \in CfgKeys PROVE EntryOK(k, cfgView'[k])
      <4>1. cfgView'[k].put = 0
        BY <2>2
      <4>2. RowPut(k) \in Nat /\ (cfgDb[k] # NoRow => RowPut(k) > 0)
        BY DEF RowPut, ConfigInv, StoredInv, CfgType, RowRec
      <4> QED
        BY <4>1, <4>2 DEF EntryOK
    <3> QED
      BY <3>1, <3>2
  <2> QED
    BY <1>1, <2>1, <2>2
<1>4. CfgType'
  BY <1>1, <1>3 DEF ConfigInv, CfgType
<1>5. StoredInv' /\ \A k \in CfgKeys : RowPut(k)' = RowPut(k)
  <2>1. \A k \in CfgKeys : cfgTold'[k] <= RowPut(k) /\ EntryOK(k, cfgView'[k])
    BY <1>1, <1>3 DEF ConfigInv, StoredInv
  <2>2. cfgFetch' # NoFetch => \A k \in CfgKeys : EntryOK(k, cfgFetch'[k])
    BY <1>1, <1>2
  <2>3. \A i \in 1..Len(cfgBus') : PutOK(cfgBus'[i]) /\ cfgBus'[i].put > 0
    BY <1>1 DEF ConfigInv, StoredInv
  <2>4. cfgPuts' >= cfgPuts
    BY <1>1 DEF ConfigInv, CfgType
  <2> QED
    BY <1>1, <1>4, <2>1, <2>2, <2>3, <2>4, StoredStep
<1>6. \A k \in CfgKeys \ cfgMissed' : cfgView'[k].put = RowPut(k)'
  BY <1>1, <1>5, SnapshotOK
<1>7. FollowInv'
  BY <1>1, <1>2, <1>6 DEF FollowInv
<1> QED
  BY <1>4, <1>5, <1>7 DEF ConfigInv

LEMMA SubscribeStep ==
  ASSUME ConfigInv, SubscribeConfig
  PROVE  ConfigInv'
<1>1. /\ cfgMgr = "loaded" /\ cfgMgr' = "ready"
      /\ UNCHANGED <<cfgDb, cfgPut, cfgPuts, cfgView, cfgFetch, cfgBus, cfgTold, cfgMissed>>
  BY DEF SubscribeConfig, putVars
<1>2. cfgBus = << >> /\ cfgFetch = NoFetch
  BY <1>1 DEF ConfigInv, FollowInv
<1>3. CfgType'
  BY <1>1 DEF ConfigInv, CfgType
<1>4. StoredInv' /\ \A k \in CfgKeys : RowPut(k)' = RowPut(k)
  <2>1. \A k \in CfgKeys : cfgTold'[k] <= RowPut(k) /\ EntryOK(k, cfgView'[k])
    BY <1>1 DEF ConfigInv, StoredInv
  <2>2. cfgFetch' # NoFetch => \A k \in CfgKeys : EntryOK(k, cfgFetch'[k])
    BY <1>1, <1>2
  <2>3. \A i \in 1..Len(cfgBus') : PutOK(cfgBus'[i]) /\ cfgBus'[i].put > 0
    BY <1>1 DEF ConfigInv, StoredInv
  <2>4. cfgPuts' >= cfgPuts
    BY <1>1 DEF ConfigInv, CfgType
  <2> QED
    BY <1>1, <1>3, <2>1, <2>2, <2>3, <2>4, StoredStep
<1>5. ASSUME NEW k \in CfgKeys
      PROVE  \E m \in Nat : /\ Heard(k, m)'
                            /\ k \in cfgMissed' \/ m = RowPut(k)' \/ \E x \in CfgWorkers : Flying(x, k)'
  <2>1. PICK m \in Nat : m = cfgView[k].put /\ m = cfgView'[k].put
    BY <1>1 DEF ConfigInv, CfgType, Entry
  <2>2. Heard(k, m)'
    BY <1>1, <1>2, <2>1 DEF Heard
  <2>3. k \in cfgMissed \/ m = RowPut(k) \/ \E x \in CfgWorkers : Flying(x, k)
    BY <1>1, <2>1 DEF ConfigInv, FollowInv
  <2>4. k \in cfgMissed' \/ m = RowPut(k)' \/ \E x \in CfgWorkers : Flying(x, k)'
    BY <2>3, <1>1, <1>4 DEF Flying
  <2> QED
    BY <2>2, <2>4
<1>6. FollowInv'
  BY <1>1, <1>5 DEF FollowInv
<1> QED
  BY <1>3, <1>4, <1>6 DEF ConfigInv

LEMMA ApplyStep ==
  ASSUME ConfigInv, ApplyChange
  PROVE  ConfigInv'
<1>1. PICK c : c = Head(cfgBus)
  OBVIOUS
<1>2. /\ cfgMgr = "ready" /\ cfgBus # << >> /\ cfgBus' = Tail(cfgBus)
      /\ cfgView' = Applied(cfgView, c)
      /\ UNCHANGED <<cfgDb, cfgPut, cfgPuts, cfgMgr, cfgFetch, cfgTold, cfgMissed>>
  BY <1>1 DEF ApplyChange, putVars
<1>3. cfgBus \in Seq(PutRec) /\ Len(cfgBus) \in Nat \ {0} /\ c = cfgBus[1]
  BY <1>1, <1>2 DEF ConfigInv, CfgType
<1>4. /\ cfgBus' \in Seq(PutRec) /\ Len(cfgBus') = Len(cfgBus) - 1 /\ Len(cfgBus') \in Nat
      /\ \A i \in 1..Len(cfgBus') : i + 1 \in 1..Len(cfgBus) /\ cfgBus'[i] = cfgBus[i + 1]
  BY <1>2, <1>3
<1>5. c \in PutRec /\ c.key \in CfgKeys /\ c.put \in Nat /\ c.value \in Sendable /\ PutOK(c) /\ c.put > 0
  <2>1. c \in PutRec /\ 1 \in 1..Len(cfgBus)
    BY <1>3
  <2>2. PutOK(c) /\ c.put > 0
    BY <2>1, <1>3 DEF ConfigInv, StoredInv
  <2> QED
    BY <2>1, <2>2 DEF PutRec
<1>6. PICK e : e = [value |-> ParsedOr(c.value, cfgView[c.key].value), put |-> c.put]
  OBVIOUS
<1>7. e \in Entry /\ e.put = c.put /\ e.value = ParsedOr(c.value, cfgView[c.key].value)
  <2>1. ParsedOr(c.value, cfgView[c.key].value) \in Sendable \cup {"zero", "default", "env"}
    BY <1>5 DEF ParsedOr, ConfigInv, CfgType, Entry
  <2> QED
    BY <2>1, <1>5, <1>6 DEF Entry
<1>8. cfgView' = [cfgView EXCEPT ![c.key] = e]
  BY <1>2, <1>6 DEF Applied
<1>9. cfgView'[c.key] = e /\ \A k \in CfgKeys \ {c.key} : cfgView'[k] = cfgView[k]
  BY <1>5, <1>8 DEF ConfigInv, CfgType
<1>10. CfgType'
  BY <1>2, <1>4, <1>7, <1>8 DEF ConfigInv, CfgType
<1>11. EntryOK(c.key, e)
  BY <1>5, <1>7 DEF PutOK, EntryOK, ParsedOr
<1>12. StoredInv' /\ \A k \in CfgKeys : RowPut(k)' = RowPut(k)
  <2>1. ASSUME NEW k \in CfgKeys PROVE cfgTold'[k] <= RowPut(k) /\ EntryOK(k, cfgView'[k])
    BY <1>2, <1>9, <1>11 DEF ConfigInv, StoredInv
  <2>2. cfgFetch' # NoFetch => \A k \in CfgKeys : EntryOK(k, cfgFetch'[k])
    BY <1>2 DEF ConfigInv, StoredInv
  <2>3. \A i \in 1..Len(cfgBus') : PutOK(cfgBus'[i]) /\ cfgBus'[i].put > 0
    BY <1>4 DEF ConfigInv, StoredInv
  <2>4. cfgPuts' >= cfgPuts
    BY <1>2 DEF ConfigInv, CfgType
  <2> QED
    BY <1>2, <1>10, <2>1, <2>2, <2>3, <2>4, StoredStep
<1>13. ASSUME NEW k \in CfgKeys
       PROVE  \E m \in Nat : /\ Heard(k, m)'
                             /\ k \in cfgMissed' \/ m = RowPut(k)' \/ \E x \in CfgWorkers : Flying(x, k)'
  <2>1. PICK m \in Nat : /\ Heard(k, m)
                         /\ k \in cfgMissed \/ m = RowPut(k) \/ \E x \in CfgWorkers : Flying(x, k)
    BY <1>2 DEF ConfigInv, FollowInv
  <2>2. Heard(k, m)'
    <3>1. CASE (\A j \in 1..Len(cfgBus) : cfgBus[j].key # k) /\ cfgView[k].put = m
      <4>1. c.key # k /\ \A j \in 1..Len(cfgBus') : cfgBus'[j].key # k
        BY <3>1, <1>3, <1>4
      <4>2. cfgView'[k].put = m
        BY <3>1, <4>1, <1>9
      <4> QED
        BY <4>1, <4>2 DEF Heard
    <3>2. ASSUME NEW i \in 1..Len(cfgBus), cfgBus[i].key = k, cfgBus[i].put = m,
                 \A j \in (i + 1)..Len(cfgBus) : cfgBus[j].key # k
          PROVE  Heard(k, m)'
      <4>1. CASE i = 1
        <5>1. c.key = k /\ c.put = m
          BY <3>2, <4>1, <1>3
        <5>2. \A j \in 1..Len(cfgBus') : cfgBus'[j].key # k
          BY <3>2, <4>1, <1>3, <1>4
        <5>3. cfgView'[k].put = m
          BY <5>1, <1>7, <1>9
        <5> QED
          BY <5>2, <5>3 DEF Heard
      <4>2. CASE i # 1
        <5>0. PICK len \in Nat : Len(cfgBus) = len + 1 /\ Len(cfgBus') = len
          BY <1>3, <1>4
        <5>1. PICK n \in 1..Len(cfgBus') : n + 1 = i
          BY <4>2, <5>0
        <5>2. cfgBus'[n].key = k /\ cfgBus'[n].put = m
          BY <5>1, <3>2, <1>4
        <5>3. \A j \in (n + 1)..Len(cfgBus') : cfgBus'[j].key # k
          BY <5>1, <3>2, <1>3, <1>4
        <5> QED
          BY <5>2, <5>3 DEF Heard
      <4> QED
        BY <4>1, <4>2
    <3> QED
      BY <2>1, <3>1, <3>2 DEF Heard
  <2>3. k \in cfgMissed' \/ m = RowPut(k)' \/ \E x \in CfgWorkers : Flying(x, k)'
    BY <2>1, <1>2, <1>12 DEF Flying
  <2> QED
    BY <2>2, <2>3
<1>14. FollowInv'
  BY <1>2, <1>13 DEF FollowInv
<1> QED
  BY <1>10, <1>12, <1>14 DEF ConfigInv

LEMMA RefreshFetchStep ==
  ASSUME ConfigInv, RefreshFetch
  PROVE  ConfigInv'
<1>1. UNCHANGED <<cfgDb, cfgPut, cfgPuts, cfgMgr, cfgView, cfgBus, cfgTold, cfgMissed>>
  BY DEF RefreshFetch, putVars
<1>2. cfgMgr = "ready"
  BY DEF RefreshFetch
<1>3. cfgFetch' \in [CfgKeys -> Entry] /\ \A k \in CfgKeys : EntryOK(k, cfgFetch'[k])
  <2>1. cfgFetch' = GetSnapshot \/ cfgFetch' = cfgView
    BY DEF RefreshFetch
  <2> QED
    BY <2>1, SnapshotOK DEF ConfigInv, StoredInv, CfgType
<1>4. CfgType'
  BY <1>1, <1>3 DEF ConfigInv, CfgType
<1>5. StoredInv' /\ \A k \in CfgKeys : RowPut(k)' = RowPut(k)
  <2>1. \A k \in CfgKeys : cfgTold'[k] <= RowPut(k) /\ EntryOK(k, cfgView'[k])
    BY <1>1 DEF ConfigInv, StoredInv
  <2>2. \A i \in 1..Len(cfgBus') : PutOK(cfgBus'[i]) /\ cfgBus'[i].put > 0
    BY <1>1 DEF ConfigInv, StoredInv
  <2>3. cfgPuts' >= cfgPuts
    BY <1>1 DEF ConfigInv, CfgType
  <2> QED
    BY <1>1, <1>3, <1>4, <2>1, <2>2, <2>3, StoredStep
<1>6. \A k, m : Heard(k, m)' <=> Heard(k, m)
  BY <1>1 DEF Heard
<1>7. ASSUME NEW k \in CfgKeys
      PROVE  \E m \in Nat : /\ Heard(k, m)'
                            /\ k \in cfgMissed' \/ m = RowPut(k)' \/ \E x \in CfgWorkers : Flying(x, k)'
  <2>1. PICK m \in Nat : /\ Heard(k, m)
                         /\ k \in cfgMissed \/ m = RowPut(k) \/ \E x \in CfgWorkers : Flying(x, k)
    BY <1>2 DEF ConfigInv, FollowInv
  <2>2. k \in cfgMissed' \/ m = RowPut(k)' \/ \E x \in CfgWorkers : Flying(x, k)'
    BY <2>1, <1>1, <1>5 DEF Flying
  <2> QED
    BY <2>1, <2>2, <1>6
<1>8. FollowInv'
  BY <1>1, <1>2, <1>7 DEF FollowInv
<1> QED
  BY <1>4, <1>5, <1>8 DEF ConfigInv

(***************************************************************************)
(* A snapshot that is installed replaces what was applied since it was     *)
(* read: a key for which that was newer is missed from then on.            *)
(***************************************************************************)
LEMMA RefreshInstallStep ==
  ASSUME ConfigInv, RefreshInstall
  PROVE  ConfigInv'
<1>1. /\ cfgFetch # NoFetch /\ cfgView' = cfgFetch /\ cfgFetch' = NoFetch
      /\ cfgMissed' = cfgMissed \cup {k \in CfgKeys : cfgFetch[k].put < cfgView[k].put}
      /\ UNCHANGED <<cfgDb, cfgPut, cfgPuts, cfgMgr, cfgBus, cfgTold>>
  BY DEF RefreshInstall, putVars
<1>2. cfgMgr = "ready"
  BY <1>1 DEF ConfigInv, FollowInv
<1>3. CfgType'
  BY <1>1 DEF ConfigInv, CfgType
<1>4. StoredInv' /\ \A k \in CfgKeys : RowPut(k)' = RowPut(k)
  <2>1. \A k \in CfgKeys : cfgTold'[k] <= RowPut(k) /\ EntryOK(k, cfgView'[k])
    BY <1>1 DEF ConfigInv, StoredInv
  <2>2. \A i \in 1..Len(cfgBus') : PutOK(cfgBus'[i]) /\ cfgBus'[i].put > 0
    BY <1>1 DEF ConfigInv, StoredInv
  <2>3. cfgPuts' >= cfgPuts
    BY <1>1 DEF ConfigInv, CfgType
  <2> QED
    BY <1>1, <1>3, <2>1, <2>2, <2>3, StoredStep
<1>5. ASSUME NEW k \in CfgKeys
      PROVE  \E m \in Nat : /\ Heard(k, m)'
                            /\ k \in cfgMissed' \/ m = RowPut(k)' \/ \E x \in CfgWorkers : Flying(x, k)'
  <2>1. PICK m \in Nat : /\ Heard(k, m)
                         /\ k \in cfgMissed \/ m = RowPut(k) \/ \E x \in CfgWorkers : Flying(x, k)
    BY <1>2 DEF ConfigInv, FollowInv
  <2>2. CASE \E i \in 1..Len(cfgBus) : /\ cfgBus[i].key = k /\ cfgBus[i].put = m
                                       /\ \A j \in (i + 1)..Len(cfgBus) : cfgBus[j].key # k
    <3>1. Heard(k, m)'
      BY <2>2, <1>1 DEF Heard
    <3>2. k \in cfgMissed' \/ m = RowPut(k)' \/ \E x \in CfgWorkers : Flying(x, k)'
      BY <2>1, <1>1, <1>4 DEF Flying
    <3> QED
      BY <3>1, <3>2
  <2>3. CASE (\A j \in 1..Len(cfgBus) : cfgBus[j].key # k) /\ cfgView[k].put = m
    <3>1. PICK n \in Nat : n = cfgFetch[k].put /\ n <= RowPut(k)
      BY <1>1 DEF ConfigInv, StoredInv, EntryOK, CfgType, Entry
    <3>2. Heard(k, n)'
      BY <2>3, <3>1, <1>1 DEF Heard
    <3>3. RowPut(k) \in Nat
      BY DEF RowPut, ConfigInv, CfgType, RowRec
    <3>4. k \in cfgMissed' \/ n >= m
      BY <2>3, <3>1, <1>1
    <3>5. k \in cfgMissed' \/ n = RowPut(k)' \/ \E x \in CfgWorkers : Flying(x, k)'
      BY <2>1, <3>1, <3>3, <3>4, <1>1, <1>4 DEF Flying
    <3> QED
      BY <3>2, <3>5
  <2> QED
    BY <2>1, <2>2, <2>3 DEF Heard
<1>6. FollowInv'
  BY <1>1, <1>2, <1>5 DEF FollowInv
<1> QED
  BY <1>3, <1>4, <1>6 DEF ConfigInv

LEMMA ManagerRestartStep ==
  ASSUME ConfigInv, ManagerRestart
  PROVE  ConfigInv'
<1>1. /\ cfgMgr' = "down" /\ cfgBus' = << >> /\ cfgFetch' = NoFetch
      /\ UNCHANGED <<cfgDb, cfgPut, cfgPuts, cfgView, cfgTold, cfgMissed>>
  BY DEF ManagerRestart, putVars
<1>2. CfgType'
  BY <1>1 DEF ConfigInv, CfgType
<1>3. StoredInv'
  <2>1. \A k \in CfgKeys : cfgTold'[k] <= RowPut(k) /\ EntryOK(k, cfgView'[k])
    BY <1>1 DEF ConfigInv, StoredInv
  <2>2. \A i \in 1..Len(cfgBus') : PutOK(cfgBus'[i]) /\ cfgBus'[i].put > 0
    BY <1>1
  <2>3. cfgPuts' >= cfgPuts
    BY <1>1 DEF ConfigInv, CfgType
  <2> QED
    BY <1>1, <1>2, <2>1, <2>2, <2>3, StoredStep
<1>4. FollowInv'
  BY <1>1 DEF FollowInv
<1> QED
  BY <1>2, <1>3, <1>4 DEF ConfigInv

(***************************************************************************)
(* A configuration manager that has applied all it was sent holds what     *)
(* config-api serves, apart from the losses the model names, and is never  *)
(* told of a value that is not stored, for any number of concurrent PUTs,  *)
(* keys, restarts and failed queries (handleSetConfig, Initialize,         *)
(* handleConfigChange, Refresh).                                           *)
(***************************************************************************)
THEOREM ConfigHolds == ConfigSpec => []ConfigSound
<1>1. ConfigInv /\ [ConfigNext]_cfgVars => ConfigInv'
  <2> SUFFICES ASSUME ConfigInv, [ConfigNext]_cfgVars PROVE ConfigInv'
    OBVIOUS
  <2>1. ASSUME NEW w \in CfgWorkers, NEW k \in CfgKeys, NEW v \in Sendable, SetConfig(w, k, v)
        PROVE  ConfigInv'
    BY <2>1, SetConfigStep
  <2>2. ASSUME NEW w \in CfgWorkers, PublishChange(w) PROVE ConfigInv'
    BY <2>2, PublishStep
  <2>3. CASE \/ \E w \in CfgWorkers : SetConfigFails(w) \/ PublishFails(w)
             \/ ConfigApiRestart
             \/ UNCHANGED cfgVars
    BY <2>3, NotAnnouncedStep
  <2>4. CASE LoadConfig
    BY <2>4, LoadStep
  <2>5. CASE SubscribeConfig
    BY <2>5, SubscribeStep
  <2>6. CASE ApplyChange
    BY <2>6, ApplyStep
  <2>7. CASE RefreshFetch
    BY <2>7, RefreshFetchStep
  <2>8. CASE RefreshInstall
    BY <2>8, RefreshInstallStep
  <2>9. CASE ManagerRestart
    BY <2>9, ManagerRestartStep
  <2> QED
    BY <2>1, <2>2, <2>3, <2>4, <2>5, <2>6, <2>7, <2>8, <2>9 DEF ConfigNext
<1> QED
  BY InitConfig, ConfigInvSound, <1>1, PTL DEF ConfigSpec
-----------------------------------------------------------------------------
(***************************************************************************)
(* The guardrails.  The invariant follows a call from read to read: after  *)
(* each rule the mode is one that the desired mode may be lowered to, and  *)
(* only the last rule sets a size.  What the configuration is at each read *)
(* does not matter, only that it is one.                                   *)
(***************************************************************************)
USE GuardrailsAssumption

Lowered == req.at # "none" => req.mode \in NotAbove(req.desired)
SizeLast == req.at \in {"labels", "size"} => req.size = 0

GuardrailsInv == TypeOK /\ Lowered /\ SizeLast /\ CanaryFits

(***************************************************************************)
(* Each rule lowers a mode or leaves it, and lowering twice is lowering.   *)
(***************************************************************************)
LEMMA RulesLower ==
  ASSUME NEW mode \in Modes
  PROVE  /\ mode \in NotAbove(mode)
         /\ DowngradeForMaintenance(mode) \in NotAbove(mode)
         /\ CapForNeverBlock(mode) \in NotAbove(mode)
         /\ \A size : ApplySize(mode, size) \in NotAbove(mode)
         /\ NotAbove(mode) \subseteq Modes
  BY DEF Modes, NotAbove, DowngradeForMaintenance, CapForNeverBlock, ApplySize

LEMMA LowerTransitive ==
  ASSUME NEW a \in Modes, NEW b \in NotAbove(a), NEW c \in NotAbove(b)
  PROVE  c \in NotAbove(a)
  BY DEF Modes, NotAbove

(***************************************************************************)
(* calculateCanarySize stays within its bounds, or passes a negative       *)
(* maximum on; with rule 3 a canary has a size and nothing else has one.   *)
(***************************************************************************)
LEMMA SizeFits ==
  ASSUME NEW mode \in Modes, NEW num \in 0 .. MaxTargets, NEW max \in Int
  PROVE  LET size == CalculateCanarySize(mode, num, max)
         IN  /\ size \in Int
             /\ IF ApplySize(mode, size) = "canary"
                THEN /\ size # 0 /\ size <= num /\ size <= max
                     /\ size < 0 => size = max
                ELSE size = 0
  BY DEF CalculateCanarySize, ApplySize, Modes

(***************************************************************************)
(* The invariant holds at the start and every step preserves it.           *)
(***************************************************************************)
LEMMA TypedIsTyped ==
  ASSUME NEW rows \in Rows, NEW old \in Config
  PROVE  AsConfig(rows, old) \in Config
<1>1. Typed(rows.max, old.max) \in Maxes
  BY DEF Typed, Rows, Config
<1>2. Typed(rows.labels, old.labels) \in SUBSET Labels
  BY DEF Typed, Rows, Config
<1> QED
  BY <1>1, <1>2 DEF AsConfig, Config

LEMMA GuardrailsInitial == Init => GuardrailsInv
<1> SUFFICES ASSUME Init PROVE GuardrailsInv
  OBVIOUS
<1>1. req = NoCall /\ req.at = "none"
  BY DEF Init, NoCall
<1>2. TypeOK
  <2>1. /\ api \in Rows /\ puts = {} /\ pending = {} /\ unheard = {}
        /\ current \in Config /\ gconfig \in Config /\ typed \in Config
    BY TypedIsTyped DEF Init
  <2>2. inbox \in Seq(Message) /\ changes \in 0 .. MaxChanges
    BY DEF Init
  <2>3. live \in BOOLEAN /\ early \in BOOLEAN /\ raced \in BOOLEAN
    BY Zenon DEF Init
  <2> QED
    BY <1>1, <2>1, <2>2, <2>3 DEF Init, TypeOK
<1> QED
  BY <1>1, <1>2 DEF GuardrailsInv, Lowered, SizeLast, CanaryFits, Done

LEMMA GuardrailsStep == GuardrailsInv /\ [Next]_vars => GuardrailsInv'
<1> SUFFICES ASSUME GuardrailsInv, [Next]_vars PROVE GuardrailsInv'
  OBVIOUS
<1> USE DEF GuardrailsInv, TypeOK, Lowered, SizeLast, CanaryFits, Done
<1>1. ASSUME NEW rows \in Rows, ChangeConfig(rows) PROVE GuardrailsInv'
  <2>1. puts' \subseteq Message
    <3> DEFINE m == [n |-> changes + 1, row |-> rows,
                     key |-> IF rows.max = api.max THEN "labels" ELSE "max"]
    <3>1. m \in Message
      BY <1>1 DEF ChangeConfig, Message, Keys
    <3>2. puts' = puts \union {m}
      BY <1>1 DEF ChangeConfig
    <3> HIDE DEF m
    <3> QED
      BY <3>1, <3>2
  <2>2. typed' \in Config
    BY <1>1, TypedIsTyped DEF ChangeConfig
  <2>3. raced' \in BOOLEAN /\ early' \in BOOLEAN
    BY <1>1, Zenon DEF ChangeConfig
  <2> QED
    BY <1>1, <2>1, <2>2, <2>3 DEF ChangeConfig
<1>2. ASSUME NEW m \in puts, PublishConfig(m) \/ PublishConfigFails(m) PROVE GuardrailsInv'
  <2>1. m \in Message /\ m.key \in Keys
    BY DEF Message
  <2>2. puts' \subseteq Message /\ unheard' \subseteq Keys
    BY <1>2, <2>1 DEF PublishConfig, PublishConfigFails
  <2>3. inbox' \in Seq(Message)
    <3>1. inbox' = Append(inbox, m) \/ inbox' = inbox
      BY <1>2 DEF PublishConfig, PublishConfigFails
    <3> QED
      BY <2>1, <3>1
  <2> QED
    BY <1>2, <2>2, <2>3 DEF PublishConfig, PublishConfigFails
<1>3. CASE LoadFallback \/ LoadSnapshot \/ SubscribeToConfigChanges \/ SubscribeFails
           \/ HandOver \/ Attach
  <2>1. AsConfig(api, Defaults) \in Config
    BY TypedIsTyped
  <2> QED
    BY <1>3, <2>1
    DEF LoadFallback, LoadSnapshot, SubscribeToConfigChanges, SubscribeFails, HandOver, Attach,
        change
<1>4. CASE HandleConfigChange
  <2>1. Head(inbox) \in Message /\ Tail(inbox) \in Seq(Message)
    BY <1>4 DEF HandleConfigChange
  <2>2. ApplyConfigChange(current, Head(inbox)) \in Config
    <3> DEFINE row == Head(inbox).row
    <3>1. row \in Rows /\ current \in Config
      BY <2>1 DEF Message
    <3>2. Typed(row.max, current.max) \in Maxes /\ Typed(row.labels, current.labels) \in SUBSET Labels
      BY <3>1 DEF Typed, Rows, Config
    <3> QED
      BY <3>1, <3>2 DEF ApplyConfigChange, Config
  <2> QED
    BY <1>4, <2>1, <2>2 DEF HandleConfigChange, Message, Snapshot, change
<1>5. ASSUME NEW p \in pending, UpdateConfig(p) PROVE GuardrailsInv'
  BY <1>5 DEF UpdateConfig, Snapshot, change
<1>6. ASSUME NEW word \in Desires, NEW active \in WindowStates,
             NEW num \in 0 .. MaxTargets, NEW hosts \in SUBSET Labels,
             Begin(word, active, num, hosts)
      PROVE  GuardrailsInv'
  <2>1. ParseStrategy(word) \in Modes
    BY DEF ParseStrategy, Modes
  <2>2. active \in BOOLEAN
    BY Zenon DEF WindowStates
  <2>3. /\ DowngradeForMaintenance(ParseStrategy(word)) \in NotAbove(ParseStrategy(word))
        /\ DowngradeForMaintenance(ParseStrategy(word)) \in Modes
        /\ ParseStrategy(word) \in NotAbove(ParseStrategy(word))
    BY <2>1, RulesLower
  <2>4. req' \in Call
    BY <1>6, <2>1, <2>2, <2>3 DEF Begin, Call
  <2>5. Lowered' /\ SizeLast' /\ CanaryFits'
    BY <1>6, <2>3 DEF Begin
  <2> QED
    BY <1>6, <2>4, <2>5 DEF Begin, change
<1>7. CASE ReadLabels
  <2>1. req \in Call
    BY <1>7 DEF ReadLabels, NoCall
  <2>2. /\ CapForNeverBlock(req.mode) \in NotAbove(req.desired)
        /\ CapForNeverBlock(req.mode) \in Modes
    BY <1>7, <2>1, RulesLower, LowerTransitive DEF ReadLabels, Call
  <2> QED
    BY <1>7, <2>1, <2>2 DEF ReadLabels, Call, HasNeverBlockLabels, change
<1>8. CASE ReadMax
  <2> DEFINE size == CalculateCanarySize(req.mode, req.num, gconfig.max)
  <2>1. req \in Call /\ gconfig.max \in Int /\ gconfig.max \in Maxes
    BY <1>8 DEF ReadMax, NoCall, Config
  <2>2. /\ ApplySize(req.mode, size) \in NotAbove(req.desired)
        /\ ApplySize(req.mode, size) \in Modes
    BY <1>8, <2>1, RulesLower, LowerTransitive DEF ReadMax, Call
  <2>3. /\ size \in Int
        /\ IF ApplySize(req.mode, size) = "canary"
           THEN /\ size # 0 /\ size <= req.num /\ size <= gconfig.max
                /\ size < 0 => size = gconfig.max
           ELSE size = 0
    BY <2>1, SizeFits DEF Call
  <2>4. req' = [req EXCEPT !.at = "done", !.mode = ApplySize(req.mode, size), !.size = size,
                           !.max = gconfig.max]
    BY <1>8 DEF ReadMax
  <2> HIDE DEF size
  <2>5. req' \in Call
    BY <2>1, <2>2, <2>3, <2>4 DEF Call
  <2>6. Lowered' /\ SizeLast' /\ CanaryFits'
    BY <2>1, <2>2, <2>3, <2>4 DEF Call
  <2> QED
    BY <1>8, <2>5, <2>6 DEF ReadMax, change
<1>9. CASE UNCHANGED vars
  BY <1>9 DEF vars, change
<1> QED
  BY <1>1, <1>2, <1>3, <1>4, <1>5, <1>6, <1>7, <1>8, <1>9 DEF Next

(***************************************************************************)
(* No decision is stronger than what was asked for, whatever configuration *)
(* changes the two reads of one call see.                                  *)
(***************************************************************************)
THEOREM DecisionsNeverRaised == Spec => []NeverRaised
<1>1. GuardrailsInv => NeverRaised
  BY DEF GuardrailsInv, Lowered, NeverRaised, Done
<1> QED
  BY GuardrailsInitial, GuardrailsStep, <1>1, PTL DEF Spec

(***************************************************************************)
(* A canary decision has a size no larger than the bound it was made with  *)
(* and than its targets; it is negative only when that bound is.  No other *)
(* decision has a size.                                                    *)
(***************************************************************************)
THEOREM CanarySizesFit == Spec => []CanaryFits
<1>1. GuardrailsInv => CanaryFits
  BY DEF GuardrailsInv
<1> QED
  BY GuardrailsInitial, GuardrailsStep, <1>1, PTL DEF Spec

(***************************************************************************)
(* The two comparisons of isMaintenanceWindowActive are one cyclic         *)
(* interval, for every length of the day: also overnight, and empty when   *)
(* start is end.                                                           *)
(***************************************************************************)
THEOREM WindowCyclic == WindowIsCyclic
<1> SUFFICES ASSUME NEW start \in 0 .. Hours - 1, NEW end \in 0 .. Hours - 1,
                    NEW hour \in 0 .. Hours - 1
             PROVE  IsMaintenanceWindowActive(start, end, hour)
                       <=> FromStart(start, hour) < FromStart(start, end)
  BY DEF WindowIsCyclic, Cyclic
<1>1. ASSUME NEW h \in 0 .. Hours - 1
      PROVE  FromStart(start, h) = IF h >= start THEN h - start ELSE h + Hours - start
  <2>1. CASE h >= start
    <3>1. h + Hours - start = 1 * Hours + (h - start) /\ h - start \in 0 .. Hours - 1
      BY <2>1
    <3> QED
      BY <2>1, <3>1 DEF FromStart
  <2>2. CASE h < start
    <3>1. h + Hours - start \in 0 .. Hours - 1
      BY <2>2
    <3> QED
      BY <2>2, <3>1 DEF FromStart
  <2> QED
    BY <2>1, <2>2
<1> QED
  BY <1>1 DEF IsMaintenanceWindowActive
(***************************************************************************)
(* Whatever the two reads of the live configuration see (guardrails.go), a *)
(* decision is not above the desired one, its canary fits, and the         *)
(* maintenance window it looked at is a cyclic interval.                   *)
(***************************************************************************)
THEOREM DecisionsHold == Spec => []DecisionsSound
<1>1. GuardrailsInv => TypeOK
  BY DEF GuardrailsInv
<1>2. WindowIsCyclic
  BY WindowCyclic
<1> QED
  BY GuardrailsInitial, GuardrailsStep, <1>1, <1>2, DecisionsNeverRaised, CanarySizesFit, PTL
     DEF Spec, DecisionsSound

-----------------------------------------------------------------------------
(***************************************************************************)
(* A change on its way.  When no change came near another or the start,    *)
(* there is at most one: it is stored, and the manager's configuration is  *)
(* what it was before; or it is in the message, which makes the manager's  *)
(* configuration what was given; or in the notification; or everywhere.    *)
(***************************************************************************)
Started == boot \in {"attach", "run"}

\* The keys left behind once m is published.
StillUnheard(m) == IF Value(m) = IllTyped THEN unheard ELSE unheard \ {m.key}

OneChange ==
    /\ boot # "run" => puts = {} /\ inbox = <<>> /\ pending = {}
    /\ boot \in {"handOver", "attach", "run"} => live
    /\ boot # "load" /\ puts = {} /\ inbox = <<>> => Agree(current, unheard)
    /\ boot = "load" => typed = AsConfig(api, Defaults) /\ unheard = {}
    /\ AsConfig(api, typed) = typed
    /\ \A m \in puts : /\ puts = {m} /\ inbox = <<>> /\ pending = {}
                       /\ Agree(ApplyConfigChange(current, m), StillUnheard(m))
    /\ inbox # <<>> => /\ Tail(inbox) = <<>> /\ puts = {} /\ pending = {}
                       /\ Agree(ApplyConfigChange(current, Head(inbox)), unheard)
    /\ \A p \in pending : p.config = current
    /\ Started /\ inbox = <<>> /\ pending = {} => gconfig = current

SettleInv == ~early /\ ~raced => OneChange

(***************************************************************************)
(* A change of one key of the rows is what its message does to a           *)
(* configuration that agreed with the values given before.                 *)
(***************************************************************************)
LEMMA ChangeIsHeard ==
  ASSUME NEW was \in Rows, NEW rows \in Rows, rows.max = was.max \/ rows.labels = was.labels,
         NEW given \in Config, AsConfig(was, given) = given, NEW config \in Config,
         NEW missing, /\ "max" \notin missing => config.max = given.max
                      /\ "labels" \notin missing => config.labels = given.labels,
         NEW m \in Message, m.row = rows,
         m.key = IF rows.max = was.max THEN "labels" ELSE "max"
  PROVE  LET heard == IF Value(m) = IllTyped THEN missing ELSE missing \ {m.key}
             after == ApplyConfigChange(config, m)
         IN  /\ "max" \notin heard => after.max = AsConfig(rows, given).max
             /\ "labels" \notin heard => after.labels = AsConfig(rows, given).labels
<1> DEFINE after == ApplyConfigChange(config, m)
           heard == IF Value(m) = IllTyped THEN missing ELSE missing \ {m.key}
<1> SUFFICES /\ "max" \notin heard => after.max = AsConfig(rows, given).max
             /\ "labels" \notin heard => after.labels = AsConfig(rows, given).labels
  OBVIOUS
<1>1. /\ AsConfig(rows, given) = [max |-> Typed(rows.max, given.max),
                                  labels |-> Typed(rows.labels, given.labels)]
      /\ Typed(was.max, given.max) = given.max /\ Typed(was.labels, given.labels) = given.labels
  BY DEF AsConfig, Config
<1>2. CASE rows.max = was.max
  <2>1. m.key = "labels" /\ Value(m) = rows.labels
    BY <1>2 DEF Value
  <2>2. after.max = config.max /\ after.labels = Typed(rows.labels, config.labels)
    BY <2>1 DEF ApplyConfigChange, Config
  <2>3. /\ AsConfig(rows, given).max = given.max
        /\ AsConfig(rows, given).labels = Typed(rows.labels, given.labels)
    BY <1>1, <1>2
  <2> HIDE DEF after
  <2> QED
    BY <2>1, <2>2, <2>3 DEF Typed
<1>3. CASE rows.max # was.max
  <2>1. m.key = "max" /\ Value(m) = rows.max /\ rows.labels = was.labels
    BY <1>3 DEF Value
  <2>2. after.labels = config.labels /\ after.max = Typed(rows.max, config.max)
    BY <2>1 DEF ApplyConfigChange, Config
  <2>3. /\ AsConfig(rows, given).max = Typed(rows.max, given.max)
        /\ AsConfig(rows, given).labels = given.labels
    BY <1>1, <2>1
  <2> HIDE DEF after
  <2> QED
    BY <2>1, <2>2, <2>3 DEF Typed
<1> QED
  BY <1>2, <1>3

LEMMA NextSettle == GuardrailsInv /\ SettleInv /\ [Next]_vars => SettleInv'
<1> SUFFICES ASSUME GuardrailsInv, SettleInv, [Next]_vars, ~early', ~raced' PROVE OneChange'
  BY DEF SettleInv
<1>1. TypeOK
  BY DEF GuardrailsInv
<1>2. ASSUME NEW rows \in Rows, ChangeConfig(rows) PROVE OneChange'
  <2> PICK m : m = [n |-> changes + 1, row |-> rows,
                    key |-> IF rows.max = api.max THEN "labels" ELSE "max"]
    OBVIOUS
  <2>1. /\ boot = "run" /\ puts = {} /\ inbox = <<>> /\ pending = {} /\ live /\ OneChange
        /\ Agree(current, unheard) /\ gconfig = current /\ AsConfig(api, typed) = typed
    BY <1>2 DEF ChangeConfig, SettleInv, OneChange, Started
  <2>2. UNCHANGED <<boot, live, inbox, pending, current, gconfig, unheard>>
    BY <1>2 DEF ChangeConfig
  <2>3. puts' = {m} /\ api' = rows /\ typed' = AsConfig(rows, typed)
    <3>1. puts' = puts \union {[n |-> changes + 1, row |-> rows,
                                key |-> IF rows.max = api.max THEN "labels" ELSE "max"]}
      BY <1>2 DEF ChangeConfig
    <3> QED
      BY <1>2, <2>1, <3>1 DEF ChangeConfig
  <2>4. m \in Message /\ m.row = rows /\ m.key = IF rows.max = api.max THEN "labels" ELSE "max"
    BY <1>1, <1>2 DEF ChangeConfig, TypeOK, Message, Keys
  <2>5. rows.max = api.max \/ rows.labels = api.labels
    BY <1>2 DEF ChangeConfig
  <2>6. api \in Rows /\ typed \in Config /\ current \in Config
    BY <1>1 DEF TypeOK
  <2>7. Agree(ApplyConfigChange(current, m), StillUnheard(m))'
    <3>1. /\ "max" \notin unheard => current.max = typed.max
          /\ "labels" \notin unheard => current.labels = typed.labels
      BY <2>1 DEF Agree
    <3>2. LET heard == IF Value(m) = IllTyped THEN unheard ELSE unheard \ {m.key}
              after == ApplyConfigChange(current, m)
          IN  /\ "max" \notin heard => after.max = AsConfig(rows, typed).max
              /\ "labels" \notin heard => after.labels = AsConfig(rows, typed).labels
      BY <2>1, <2>4, <2>5, <2>6, <3>1, ChangeIsHeard
    <3>3. current' = current /\ unheard' = unheard
      BY <2>2
    <3> QED
      BY <2>3, <3>2, <3>3 DEF Agree, StillUnheard
  <2>8. AsConfig(api, typed)' = typed'
    BY <2>3, <2>6 DEF AsConfig, Typed, Config, Rows
  <2> QED
    BY <2>1, <2>2, <2>3, <2>7, <2>8 DEF OneChange, Started
<1>3. ASSUME ~ \E rows \in Rows : ChangeConfig(rows)
      PROVE  ~early /\ ~raced /\ OneChange /\ UNCHANGED <<api, typed>>
  BY <1>3
  DEF Next, SettleInv, vars, change, PublishConfig, PublishConfigFails, LoadFallback, LoadSnapshot,
      SubscribeToConfigChanges, SubscribeFails, HandOver, Attach, HandleConfigChange, UpdateConfig,
      Begin, ReadLabels, ReadMax
<1>4. ASSUME NEW m \in puts, PublishConfig(m) \/ PublishConfigFails(m),
             ~early, ~raced, OneChange, UNCHANGED <<api, typed>>
      PROVE  OneChange'
  <2>1. /\ puts = {m} /\ inbox = <<>> /\ pending = {} /\ live
        /\ Agree(ApplyConfigChange(current, m), StillUnheard(m)) /\ boot = "run"
    BY <1>4 DEF OneChange, TypeOK
  <2>2. UNCHANGED <<boot, live, pending, current, gconfig, api, typed>> /\ puts' = {}
    BY <1>4, <2>1 DEF PublishConfig, PublishConfigFails
  <2>3. gconfig' = current' /\ AsConfig(api, typed)' = typed'
    BY <1>4, <2>1, <2>2 DEF OneChange, Started, AsConfig, Typed
  <2>4. CASE PublishConfig(m)
    <3>1. inbox' = <<m>> /\ unheard' = StillUnheard(m)
      BY <2>1, <2>4 DEF PublishConfig, StillUnheard
    <3>2. Agree(ApplyConfigChange(current, m), unheard)'
      BY <2>1, <2>2, <3>1 DEF Agree, ApplyConfigChange, Typed
    <3>3. inbox' # <<>> /\ Head(inbox)' = m /\ Tail(inbox)' = <<>>
      BY <3>1
    <3> QED
      BY <2>1, <2>2, <2>3, <3>2, <3>3 DEF OneChange, ApplyConfigChange, Typed
  <2>5. CASE PublishConfigFails(m)
    <3>1. inbox' = <<>> /\ unheard' = unheard \cup {m.key}
      BY <2>1, <2>5 DEF PublishConfigFails
    <3>2. m \in Message /\ current \in Config
      BY <1>1 DEF TypeOK
    <3>3. Agree(current, unheard)'
      BY <2>1, <2>2, <3>1, <3>2
      DEF Agree, ApplyConfigChange, StillUnheard, Message, Keys, Config
    <3> QED
      BY <2>1, <2>2, <2>3, <3>1, <3>3 DEF OneChange
  <2> QED
    BY <1>4, <2>4, <2>5
<1>5. CASE LoadFallback \/ SubscribeFails
  BY <1>5 DEF LoadFallback, SubscribeFails
<1>6. ASSUME LoadSnapshot \/ SubscribeToConfigChanges \/ HandOver \/ Attach, OneChange,
             UNCHANGED <<api, typed>>
      PROVE  OneChange'
  <2>1. puts' = {} /\ inbox' = <<>> /\ pending' = {} /\ unheard' = unheard /\ boot # "run"
    BY <1>6 DEF LoadSnapshot, SubscribeToConfigChanges, HandOver, Attach, OneChange, change
  <2>2. AsConfig(api, typed)' = typed' /\ AsConfig(api, typed) = typed
    BY <1>6 DEF OneChange, AsConfig, Typed
  <2>3. CASE LoadSnapshot
    <3>1. current' = typed' /\ boot' = "subscribe"
      BY <1>6, <2>3 DEF LoadSnapshot, OneChange
    <3> QED
      BY <2>1, <2>2, <3>1 DEF OneChange, Started, Agree
  <2>4. CASE SubscribeToConfigChanges \/ HandOver \/ Attach
    <3>1. current' = current /\ boot # "load" /\ boot' # "load"
          /\ Agree(current, unheard) /\ Agree(current, unheard)'
      BY <1>6, <2>1, <2>4
      DEF SubscribeToConfigChanges, HandOver, Attach, OneChange, Agree
    <3>2. (boot' \in {"handOver", "attach", "run"} => live') /\ (Started' => gconfig' = current')
      BY <1>6, <2>1, <2>4 DEF SubscribeToConfigChanges, HandOver, Attach, OneChange, Started
    <3> QED
      BY <2>1, <2>2, <3>1, <3>2 DEF OneChange, Started
  <2> QED
    BY <1>6, <2>3, <2>4
<1>7. ASSUME HandleConfigChange, OneChange, UNCHANGED <<api, typed>> PROVE OneChange'
  <2>1. /\ Tail(inbox) = <<>> /\ puts = {} /\ pending = {} /\ inbox # <<>>
        /\ Agree(ApplyConfigChange(current, Head(inbox)), unheard) /\ boot = "run" /\ live
    BY <1>1, <1>7 DEF HandleConfigChange, OneChange, TypeOK
  <2>2. /\ current' = ApplyConfigChange(current, Head(inbox)) /\ inbox' = <<>>
        /\ UNCHANGED <<boot, live, unheard, puts, gconfig>>
        /\ pending' = {[n |-> Head(inbox).n, config |-> current']}
    BY <1>7, <2>1 DEF HandleConfigChange, change
  <2>3. Agree(current, unheard)'
    BY <1>7, <2>1, <2>2 DEF Agree
  <2>4. pending' # {} /\ \A p \in pending' : p.config = current'
    BY <2>2
  <2>5. AsConfig(api, typed)' = typed'
    BY <1>7 DEF OneChange, AsConfig, Typed
  <2> QED
    BY <2>1, <2>2, <2>3, <2>4, <2>5 DEF OneChange
<1>8. ASSUME NEW p \in pending, UpdateConfig(p), OneChange, UNCHANGED <<api, typed>>
      PROVE  OneChange'
  <2>1. UNCHANGED <<live, boot, current, inbox, puts, unheard>> /\ gconfig' = current'
        /\ pending' \subseteq pending
    BY <1>8 DEF UpdateConfig, OneChange, change
  <2>2. boot = "run" /\ inbox = <<>> /\ puts = {}
    BY <1>8 DEF OneChange
  <2>3. AsConfig(api, typed)' = typed' /\ Agree(current, unheard)'
    BY <1>8, <2>1, <2>2 DEF OneChange, AsConfig, Typed, Agree
  <2> QED
    BY <1>8, <2>1, <2>2, <2>3 DEF OneChange
<1>9. CASE \/ \E word \in Desires, active \in WindowStates,
                 num \in 0 .. MaxTargets, hosts \in SUBSET Labels : Begin(word, active, num, hosts)
           \/ ReadLabels \/ ReadMax \/ UNCHANGED vars
  <2>1. UNCHANGED <<api, puts, typed, unheard, live, inbox, boot, current, pending, gconfig, early,
                    raced>>
    BY <1>9 DEF Begin, ReadLabels, ReadMax, vars, change
  <2> QED
    BY <2>1 DEF SettleInv, OneChange, Started, ApplyConfigChange, Agree, StillUnheard, AsConfig, Typed
<1> QED
  BY <1>2, <1>3, <1>4, <1>5, <1>6, <1>7, <1>8, <1>9 DEF Next

(***************************************************************************)
(* Changes that do not come close to each other or to a start, and are     *)
(* published, all reach the guardrails, and a value of the wrong type      *)
(* changes nothing there: handleConfigChange applies one key to a copy, if *)
(* it can read the value, and the goroutine of the change hands over that  *)
(* copy (manager.go).  A key whose change could not be published is left   *)
(* behind until its next change, and the other key is not affected.        *)
(***************************************************************************)
THEOREM ChangesSettle == Spec => []SerialSettles
<1>1. Init => SettleInv
  <2> SUFFICES ASSUME Init PROVE OneChange
    BY DEF SettleInv
  <2>1. typed = AsConfig(api, Defaults) /\ api \in Rows
    BY DEF Init
  <2>2. AsConfig(api, typed) = typed
    BY <2>1 DEF AsConfig, Typed
  <2> QED
    BY <2>1, <2>2 DEF Init, OneChange, Started
<1>2. SettleInv => SerialSettles
  BY DEF SettleInv, OneChange, Started, SerialSettles, Quiet, Agree
<1> QED
  BY GuardrailsInitial, GuardrailsStep, <1>1, <1>2, NextSettle, PTL DEF Spec

-----------------------------------------------------------------------------
(***************************************************************************)
(* The segmenter.  Sums over a finite set: a function with the recursion   *)
(* of SumsOf, why there is one, and that the order of the keys, which the  *)
(* recursion chooses, does not matter.                                     *)
(***************************************************************************)
Sums(g, f, keys) ==
    /\ g = [S \in SUBSET keys |-> g[S]]
    /\ g[{}] = 0
    /\ \A S \in SUBSET keys : S # {} => g[S] = f[SomeOf(S)] + g[S \ {SomeOf(S)}]

(* The subsets of a set of at most n elements.                             *)
SmallSets(keys, n) == {S \in SUBSET keys : Cardinality(S) <= n}

LEMMA SmallSetsGrow ==
  ASSUME NEW keys, IsFiniteSet(keys), NEW n \in Nat
  PROVE  /\ SmallSets(keys, 0) = {{}}
         /\ SmallSets(keys, n) \subseteq SmallSets(keys, n + 1)
         /\ \A S \in SmallSets(keys, n + 1) : S # {} => S \ {SomeOf(S)} \in SmallSets(keys, n)
         /\ SmallSets(keys, Cardinality(keys)) = SUBSET keys
<1>1. ASSUME NEW S \in SUBSET keys
      PROVE  IsFiniteSet(S) /\ Cardinality(S) \in Nat /\ Cardinality(S) <= Cardinality(keys)
  BY FS_Subset, FS_CardinalityType
<1>2. SmallSets(keys, 0) = {{}}
  <2>1. \A S \in SUBSET keys : Cardinality(S) <= 0 <=> S = {}
    BY <1>1, FS_EmptySet
  <2> QED
    BY <2>1 DEF SmallSets
<1>3. SmallSets(keys, n) \subseteq SmallSets(keys, n + 1)
  BY <1>1 DEF SmallSets
<1>4. ASSUME NEW S \in SmallSets(keys, n + 1), S # {}
      PROVE  S \ {SomeOf(S)} \in SmallSets(keys, n)
  <2>1. S \in SUBSET keys /\ Cardinality(S) <= n + 1 /\ SomeOf(S) \in S
    BY <1>4 DEF SmallSets, SomeOf
  <2>2. Cardinality(S \ {SomeOf(S)}) = Cardinality(S) - 1
    BY <2>1, <1>1, FS_RemoveElement
  <2> QED
    BY <2>1, <2>2, <1>1 DEF SmallSets
<1>5. SmallSets(keys, Cardinality(keys)) = SUBSET keys
  BY <1>1 DEF SmallSets
<1> QED
  BY <1>2, <1>3, <1>4, <1>5

SumsUpTo(g, f, keys, n) ==
    /\ g[{}] = 0
    /\ \A S \in SmallSets(keys, n) : S # {} => g[S] = f[SomeOf(S)] + g[S \ {SomeOf(S)}]

LEMMA SumsExist ==
  ASSUME NEW f, NEW keys, IsFiniteSet(keys)
  PROVE  \E g : Sums(g, f, keys)
<1> DEFINE T == {n \in Nat : \E g : SumsUpTo(g, f, keys, n)
                                    /\ g = [S \in SmallSets(keys, n) |-> g[S]]}
<1>1. 0 \in T
  <2>1. PICK g : g = [S \in SmallSets(keys, 0) |-> 0]
    OBVIOUS
  <2>2. SumsUpTo(g, f, keys, 0) /\ g = [S \in SmallSets(keys, 0) |-> g[S]]
    BY <2>1, SmallSetsGrow DEF SumsUpTo
  <2> QED
    BY <2>2
<1>2. ASSUME NEW n \in Nat, n \in T PROVE n + 1 \in T
  <2>1. PICK g : SumsUpTo(g, f, keys, n) /\ g = [S \in SmallSets(keys, n) |-> g[S]]
    BY <1>2
  <2>2. PICK h : h = [S \in SmallSets(keys, n + 1) |->
                        IF S = {} THEN 0 ELSE f[SomeOf(S)] + g[S \ {SomeOf(S)}]]
    OBVIOUS
  <2>3. {} \in SmallSets(keys, n)
    BY FS_EmptySet DEF SmallSets
  <2>4. \A S \in SmallSets(keys, n) : h[S] = g[S]
    BY <2>1, <2>2, <2>3, SmallSetsGrow DEF SumsUpTo
  <2>5. SumsUpTo(h, f, keys, n + 1)
    BY <2>2, <2>3, <2>4, SmallSetsGrow DEF SumsUpTo
  <2>6. h = [S \in SmallSets(keys, n + 1) |-> h[S]]
    BY <2>2
  <2> QED
    BY <2>5, <2>6
<1>3. Cardinality(keys) \in T
  <2> HIDE DEF T
  <2> QED
    BY <1>1, <1>2, SetInduction, FS_CardinalityType
<1>4. SmallSets(keys, Cardinality(keys)) = SUBSET keys
  BY SmallSetsGrow
<1>5. PICK g : /\ SumsUpTo(g, f, keys, Cardinality(keys))
               /\ g = [S \in SmallSets(keys, Cardinality(keys)) |-> g[S]]
  BY <1>3
<1>6. g = [S \in SUBSET keys |-> g[S]]
  BY <1>4, <1>5, Zenon
<1>7. Sums(g, f, keys)
  BY <1>4, <1>5, <1>6 DEF SumsUpTo, Sums
<1> QED
  BY <1>7

LEMMA SumsUnfold ==
  ASSUME NEW f, NEW keys, IsFiniteSet(keys)
  PROVE  Sums(SumsOf(f, keys), f, keys)
<1>1. PICK g : Sums(g, f, keys)
  BY SumsExist
<1>2. g = [S \in SUBSET keys |-> IF S = {} THEN 0 ELSE f[SomeOf(S)] + g[S \ {SomeOf(S)}]]
  BY <1>1 DEF Sums
<1>3. SumsOf(f, keys) =
        [S \in SUBSET keys |-> IF S = {} THEN 0
                               ELSE f[SomeOf(S)] + SumsOf(f, keys)[S \ {SomeOf(S)}]]
  BY <1>2, Zenon DEF SumsOf
<1>4. PICK h : h = SumsOf(f, keys)
  OBVIOUS
<1>5. h = [S \in SUBSET keys |-> IF S = {} THEN 0 ELSE f[SomeOf(S)] + h[S \ {SomeOf(S)}]]
  BY <1>3, <1>4, Zenon
<1>6. Sums(h, f, keys)
  BY <1>5 DEF Sums
<1> QED
  BY <1>4, <1>6

(* The values that are summed.                                             *)
Amounts(f, keys) == \A k \in keys : f[k] \in Nat

(* Any element may be taken out first.                                     *)
LEMMA SumsSplit ==
  ASSUME NEW g, NEW f, NEW keys, IsFiniteSet(keys), Sums(g, f, keys), Amounts(f, keys)
  PROVE  \A S \in SUBSET keys : /\ g[S] \in Nat
                                /\ \A k \in S : g[S] = f[k] + g[S \ {k}]
<1> DEFINE Good(S) == g[S] \in Nat /\ \A k \in S : g[S] = f[k] + g[S \ {k}]
           T == {n \in Nat : \A S \in SmallSets(keys, n) : Good(S)}
<1>1. 0 \in T
  <2>1. Good({})
    BY DEF Sums
  <2>2. \A S \in SmallSets(keys, 0) : S = {}
    BY SmallSetsGrow
  <2>3. \A S \in SmallSets(keys, 0) : Good(S)
    BY <2>1, <2>2, Zenon
  <2> QED
    BY <2>3
<1>2. ASSUME NEW n \in Nat, n \in T PROVE n + 1 \in T
  <2>1. ASSUME NEW S \in SmallSets(keys, n + 1) PROVE Good(S)
    <3>1. CASE S = {}
      BY <3>1 DEF Sums
    <3>2. CASE S # {}
      <4>1. PICK c, R : c = SomeOf(S) /\ R = S \ {c}
        OBVIOUS
      <4>2. S \in SUBSET keys /\ c \in S /\ f[c] \in Nat
        BY <3>2, <4>1 DEF SmallSets, SomeOf, Amounts
      <4>3. R \in SmallSets(keys, n) /\ R \in SUBSET keys
        BY <3>2, <4>1, <4>2, SmallSetsGrow
      <4>4. Good(R)
        BY <1>2, <4>3
      <4>5. g[S] = f[c] + g[R]
        BY <3>2, <4>1, <4>2 DEF Sums
      <4>6. ASSUME NEW k \in S PROVE g[S] = f[k] + g[S \ {k}]
        <5>1. CASE k = c
          BY <5>1, <4>1, <4>5
        <5>2. CASE k # c
          <6>1. PICK P, Q : P = S \ {k} /\ Q = P \ {SomeOf(P)}
            OBVIOUS
          <6>2. c \in P /\ P \in SUBSET keys /\ k \in keys
            BY <5>2, <4>2, <6>1
          <6>3. P \in SmallSets(keys, n)
            <7>1. IsFiniteSet(S) /\ Cardinality(S) \in Nat /\ Cardinality(S) <= n + 1
              BY <4>2, FS_Subset, FS_CardinalityType DEF SmallSets
            <7>2. Cardinality(P) = Cardinality(S) - 1
              BY <7>1, <6>1, FS_RemoveElement
            <7> QED
              BY <7>1, <7>2, <6>2 DEF SmallSets
          <6>4. Good(P)
            BY <1>2, <6>3
          <6>5. g[P] = f[c] + g[P \ {c}]
            BY <6>2, <6>4
          <6>6. k \in R /\ R \ {k} = P \ {c}
            BY <5>2, <4>1, <6>1
          <6>7. g[R] = f[k] + g[P \ {c}]
            BY <6>6, <4>4
          <6>8. g[P \ {c}] \in Nat
            <7>1. P \ {c} \in SmallSets(keys, n)
              BY <6>2, <6>3, FS_Subset, FS_RemoveElement, FS_CardinalityType DEF SmallSets
            <7> QED
              BY <7>1, <1>2
          <6>9. f[k] \in Nat
            BY <6>2 DEF Amounts
          <6> HIDE DEF Good
          <6> QED
            BY <4>2, <4>5, <6>1, <6>5, <6>7, <6>8, <6>9
        <5> QED
          BY <5>1, <5>2
      <4>7. g[S] \in Nat
        BY <4>2, <4>4, <4>5
      <4> QED
        BY <4>6, <4>7
    <3> QED
      BY <3>1, <3>2
  <2> QED
    BY <2>1
<1>3. Cardinality(keys) \in T
  <2> HIDE DEF T
  <2> QED
    BY <1>1, <1>2, SetInduction, FS_CardinalityType
<1>4. \A S \in SUBSET keys : Good(S)
  <2> HIDE DEF Good
  <2> QED
    BY <1>3, SmallSetsGrow
<1> QED
  BY <1>4

(* A total depends on the values under its keys only.                      *)
LEMMA SumsAgree ==
  ASSUME NEW f, NEW keys, IsFiniteSet(keys),
         NEW h, NEW more, IsFiniteSet(more),
         NEW common \in SUBSET (keys \cap more), \A k \in common : f[k] = h[k]
  PROVE  SumsOf(f, keys)[common] = SumsOf(h, more)[common]
<1>1. PICK a, b : a = SumsOf(f, keys) /\ b = SumsOf(h, more)
  OBVIOUS
<1>2. Sums(a, f, keys) /\ Sums(b, h, more)
  BY <1>1, SumsUnfold
<1>3. IsFiniteSet(common)
  BY FS_Subset
<1> DEFINE T == {n \in Nat : \A S \in SmallSets(common, n) : a[S] = b[S]}
<1>4. 0 \in T
  <2>1. \A S \in SmallSets(common, 0) : S = {}
    BY <1>3, SmallSetsGrow
  <2> QED
    BY <2>1, <1>2 DEF Sums
<1>5. ASSUME NEW n \in Nat, n \in T PROVE n + 1 \in T
  <2>1. ASSUME NEW S \in SmallSets(common, n + 1) PROVE a[S] = b[S]
    <3>1. CASE S = {}
      BY <3>1, <1>2 DEF Sums
    <3>2. CASE S # {}
      <4>1. PICK c, R : c = SomeOf(S) /\ R = S \ {c}
        OBVIOUS
      <4>2. S \in SUBSET keys /\ S \in SUBSET more /\ c \in common
        BY <3>2, <4>1 DEF SmallSets, SomeOf
      <4>3. a[S] = f[c] + a[R] /\ b[S] = h[c] + b[R]
        BY <3>2, <4>1, <4>2, <1>2 DEF Sums
      <4>4. R \in SmallSets(common, n)
        BY <3>2, <4>1, <1>3, SmallSetsGrow
      <4>5. a[R] = b[R]
        BY <4>4, <1>5
      <4> QED
        BY <4>2, <4>3, <4>5
    <3> QED
      BY <3>1, <3>2
  <2> QED
    BY <2>1
<1>6. Cardinality(common) \in T
  <2> HIDE DEF T
  <2> QED
    BY <1>3, <1>4, <1>5, SetInduction, FS_CardinalityType
<1>7. a[common] = b[common]
  BY <1>3, <1>6, SmallSetsGrow
<1> QED
  BY <1>1, <1>7

LEMMA TotalAgrees ==
  ASSUME NEW keys, IsFiniteSet(keys), NEW f, NEW h,
         \A k \in keys : f[k] \in Nat /\ f[k] = h[k]
  PROVE  TotalOf(f, keys) = TotalOf(h, keys) /\ TotalOf(f, keys) \in Nat
<1>1. \A k \in keys : f[k] \in Nat /\ h[k] \in Nat /\ f[k] = h[k]
  OBVIOUS
<1>2. keys \in SUBSET (keys \cap keys)
  OBVIOUS
<1>3. TotalOf(f, keys) = TotalOf(h, keys)
  BY <1>1, <1>2, SumsAgree DEF TotalOf
<1>4. PICK a : a = SumsOf(f, keys)
  OBVIOUS
<1>5. Sums(a, f, keys)
  BY <1>4, SumsUnfold
<1>6. a[keys] \in Nat
  BY <1>1, <1>5, SumsSplit DEF Amounts
<1> QED
  BY <1>3, <1>4, <1>6 DEF TotalOf

LEMMA TotalSplit ==
  ASSUME NEW keys, IsFiniteSet(keys), NEW f, Amounts(f, keys), NEW c \in keys
  PROVE  TotalOf(f, keys) = f[c] + TotalOf(f, keys \ {c})
<1>1. PICK a : a = SumsOf(f, keys)
  OBVIOUS
<1>2. Sums(a, f, keys)
  BY <1>1, SumsUnfold
<1>3. a[keys] = f[c] + a[keys \ {c}]
  <2>1. keys \in SUBSET keys
    OBVIOUS
  <2> QED
    BY <1>2, <2>1, SumsSplit
<1>4. PICK rest : rest = keys \ {c}
  OBVIOUS
<1>5. IsFiniteSet(rest) /\ rest \in SUBSET (keys \cap rest)
  BY <1>4, FS_Subset
<1>6. SumsOf(f, keys)[rest] = SumsOf(f, rest)[rest]
  BY <1>5, SumsAgree
<1> QED
  BY <1>1, <1>3, <1>4, <1>6 DEF TotalOf

LEMMA TotalEmpty ==
  ASSUME NEW f
  PROVE  TotalOf(f, {}) = 0
<1>1. IsFiniteSet({})
  BY FS_EmptySet
<1>2. PICK a : a = SumsOf(f, {})
  OBVIOUS
<1>3. Sums(a, f, {})
  BY <1>1, <1>2, SumsUnfold
<1> QED
  BY <1>2, <1>3 DEF TotalOf, Sums

(***************************************************************************)
(* The connections of a list of flows.                                     *)
(***************************************************************************)
ConnRecord == [volume : Nat, first : Nat, last : Nat, risk : {"high", "medium", "low"}]

Bytes(flows) == [i \in DOMAIN flows |-> flows[i].bytes]

(* The first n flows are in the connections, whatever keys are looked at.  *)
FlowsAmong(flows, n, K) == {i \in 1..n : ConnKey(flows[i]) \in K}
Carries(conns, flows, n) ==
    /\ conns \in [DOMAIN conns -> ConnRecord]
    /\ DOMAIN conns = {ConnKey(flows[i]) : i \in 1..n}
    /\ IsFiniteSet(DOMAIN conns)
    /\ \A K : TotalOf(Volumes(conns), DOMAIN conns \cap K)
                = TotalOf(Bytes(flows), FlowsAmong(flows, n, K))

LEMMA CarriesNothing ==
  ASSUME NEW flows
  PROVE  Carries([k \in {} |-> 0], flows, 0)
<1>1. PICK e : e = [k \in {} |-> 0]
  OBVIOUS
<1>2. DOMAIN e = {} /\ e \in [{} -> ConnRecord] /\ 1..0 = {}
  BY <1>1
<1>3. \A K : DOMAIN e \cap K = {} /\ FlowsAmong(flows, 0, K) = {}
  BY <1>2 DEF FlowsAmong
<1>4. \A K : TotalOf(Volumes(e), DOMAIN e \cap K) = TotalOf(Bytes(flows), FlowsAmong(flows, 0, K))
  BY <1>3, TotalEmpty
<1>5. DOMAIN e = {ConnKey(flows[i]) : i \in 1..0}
  BY <1>2
<1>6. Carries(e, flows, 0)
  BY <1>2, <1>4, <1>5, FS_EmptySet, Zenon DEF Carries
<1> QED
  BY <1>1, <1>6

(* What AddFlow does to the table.                                         *)
VolumeAt(conns, q) == IF q \in DOMAIN conns THEN conns[q].volume ELSE 0
Enters(new, conns, q, bytes) ==
    /\ new \in [DOMAIN new -> ConnRecord]
    /\ DOMAIN new = DOMAIN conns \cup {q}
    /\ \A k \in DOMAIN conns \ {q} : new[k] = conns[k]
    /\ new[q].volume = VolumeAt(conns, q) + bytes
    /\ VolumeAt(conns, q) \in Nat

LEMMA FlowAdded ==
  ASSUME NEW conns, NEW flows, NEW n, Carries(conns, flows, n), NEW flow \in FlowRecord
  PROVE  Enters(AddFlow(conns, flow), conns, ConnKey(flow), flow.bytes)
<1> USE DEF VolumeAt, Enters
<1>0. conns \in [DOMAIN conns -> ConnRecord]
  BY DEF Carries
<1>1. PICK new, q : new = AddFlow(conns, flow) /\ q = ConnKey(flow)
  OBVIOUS
<1>2. flow.bytes \in Nat /\ flow.at \in Nat
  BY DEF FlowRecord
<1>3. CASE q \in DOMAIN conns
  <2>1. conns[q] \in ConnRecord
    BY <1>0, <1>3
  <2>2. /\ Merged(conns[q], flow) \in ConnRecord
        /\ Merged(conns[q], flow).volume = conns[q].volume + flow.bytes
    <3>1. PICK r : r = conns[q]
      OBVIOUS
    <3>2. PICK v \in Nat, f \in Nat, l \in Nat, k \in {"high", "medium", "low"} :
            r = [volume |-> v, first |-> f, last |-> l, risk |-> k]
      BY <2>1, <3>1 DEF ConnRecord
    <3>3. r.volume = v
      BY <3>2
    <3>4. PICK u, t : u = v + flow.bytes /\ t = flow.at
      OBVIOUS
    <3>5. Merged(r, flow) = [r EXCEPT !.volume = u, !.last = t]
      BY <3>3, <3>4 DEF Merged
    <3>6. Merged(r, flow) = [volume |-> u, first |-> f, last |-> t, risk |-> k]
      BY <3>2, <3>5
    <3> QED
      BY <1>2, <3>1, <3>3, <3>4, <3>6 DEF ConnRecord
  <2>3. new = [conns EXCEPT ![q] = Merged(conns[q], flow)]
    BY <1>1, <1>3 DEF AddFlow
  <2>4. conns[q].volume \in Nat
    BY <2>1 DEF ConnRecord
  <2>5. /\ new \in [DOMAIN new -> ConnRecord]
        /\ DOMAIN new = DOMAIN conns \cup {q}
        /\ \A k \in DOMAIN conns \ {q} : new[k] = conns[k]
        /\ new[q].volume = conns[q].volume + flow.bytes
    BY <1>0, <1>3, <2>2, <2>3
  <2> QED
    BY <1>1, <1>3, <2>4, <2>5
<1>4. CASE q \notin DOMAIN conns
  <2>1. PICK r : r = [volume |-> flow.bytes, first |-> flow.at, last |-> flow.at,
                      risk |-> ConnectionRisk(flow)]
    OBVIOUS
  <2>2. ConnectionRisk(flow) \in {"high", "medium", "low"}
    BY DEF ConnectionRisk
  <2>3. r \in ConnRecord /\ r.volume = 0 + flow.bytes
    BY <1>2, <2>1, <2>2 DEF ConnRecord
  <2>4. new = [k \in DOMAIN conns \cup {q} |-> IF k = q THEN r ELSE conns[k]]
    BY <1>1, <1>4, <2>1 DEF AddFlow
  <2>5. /\ new \in [DOMAIN new -> ConnRecord]
        /\ DOMAIN new = DOMAIN conns \cup {q}
        /\ \A k \in DOMAIN conns \ {q} : new[k] = conns[k]
        /\ new[q].volume = 0 + flow.bytes
    BY <1>0, <2>3, <2>4
  <2> QED
    BY <1>1, <1>4, <2>5
<1> QED
  BY <1>3, <1>4

LEMMA FlowCarried ==
  ASSUME NEW flows \in Seq(FlowRecord), NEW n \in Nat, n < Len(flows),
         NEW conns, Carries(conns, flows, n)
  PROVE  Carries(AddFlow(conns, flows[n + 1]), flows, n + 1)
<1>1. PICK new, q, flow, was :
        /\ flow = flows[n + 1]
        /\ new = AddFlow(conns, flow)
        /\ q = ConnKey(flow)
        /\ was = VolumeAt(conns, q)
  OBVIOUS
<1>2. flow \in FlowRecord /\ flow.bytes \in Nat /\ DOMAIN flows = 1..Len(flows) /\ Len(flows) \in Nat
  <2>1. n + 1 \in 1..Len(flows) /\ DOMAIN flows = 1..Len(flows) /\ Len(flows) \in Nat
    OBVIOUS
  <2>2. flow \in FlowRecord
    BY <1>1, <2>1
  <2> QED
    BY <2>1, <2>2 DEF FlowRecord
<1>3. conns \in [DOMAIN conns -> ConnRecord]
  BY DEF Carries
<1>4. /\ new \in [DOMAIN new -> ConnRecord]
      /\ DOMAIN new = DOMAIN conns \cup {q}
      /\ \A k \in DOMAIN conns \ {q} : new[k] = conns[k]
      /\ new[q].volume = was + flow.bytes
      /\ was \in Nat
  <2>1. Enters(AddFlow(conns, flow), conns, ConnKey(flow), flow.bytes)
    BY <1>2, FlowAdded
  <2>2. Enters(new, conns, q, flow.bytes)
    BY <1>1, <2>1
  <2> QED
    BY <1>1, <2>2 DEF Enters
<1>5. DOMAIN new = {ConnKey(flows[i]) : i \in 1..(n + 1)}
  <2>1. DOMAIN conns = {ConnKey(flows[i]) : i \in 1..n}
    BY DEF Carries
  <2>2. 1..(n + 1) = 1..n \cup {n + 1}
    OBVIOUS
  <2> QED
    BY <1>1, <1>4, <2>1, <2>2
<1>6. ASSUME NEW K
      PROVE  TotalOf(Volumes(new), DOMAIN new \cap K)
               = TotalOf(Bytes(flows), FlowsAmong(flows, n + 1, K))
  <2>1. PICK b, v, w, old, is, in, out :
          /\ b = Bytes(flows) /\ v = Volumes(conns) /\ w = Volumes(new)
          /\ old = FlowsAmong(flows, n, K) /\ is = FlowsAmong(flows, n + 1, K)
          /\ in = DOMAIN conns \cap K /\ out = DOMAIN new \cap K
    OBVIOUS
  <2>2. TotalOf(v, in) = TotalOf(b, old)
    BY <2>1 DEF Carries
  <2>3. IsFiniteSet(in) /\ IsFiniteSet(out) /\ IsFiniteSet(is) /\ IsFiniteSet(old)
    <3>1. IsFiniteSet(1..n) /\ IsFiniteSet(1..(n + 1))
      <4>1. 1 \in Int /\ n \in Int /\ n + 1 \in Int
        OBVIOUS
      <4>2. IsFiniteSet(1..n)
        BY <4>1, FS_Interval
      <4>3. IsFiniteSet(1..(n + 1))
        BY <4>1, FS_Interval
      <4> QED
        BY <4>2, <4>3
    <3>2. IsFiniteSet(DOMAIN conns)
      BY DEF Carries
    <3>3. IsFiniteSet(DOMAIN conns \cup {q})
      BY <3>2, FS_AddElement
    <3>4. IsFiniteSet(DOMAIN new)
      BY <1>4, <3>3
    <3> QED
      BY <2>1, <3>1, <3>2, <3>4, FS_Subset DEF FlowsAmong
  <2>4. Amounts(v, in) /\ Amounts(w, out)
    BY <1>3, <1>4, <2>1 DEF Amounts, Volumes, ConnRecord
  <2>5. Amounts(b, is) /\ b[n + 1] = flow.bytes
    <3>1. is \subseteq 1..Len(flows) /\ n + 1 \in 1..Len(flows)
      BY <1>2, <2>1 DEF FlowsAmong
    <3>2. \A i \in 1..Len(flows) : flows[i] \in FlowRecord /\ b[i] = flows[i].bytes
      BY <1>2, <2>1 DEF Bytes
    <3>3. \A i \in 1..Len(flows) : b[i] \in Nat
      BY <3>2 DEF FlowRecord
    <3> QED
      BY <1>1, <3>1, <3>2, <3>3 DEF Amounts
  <2>6. CASE q \notin K
    <3>1. in = out /\ is = old
      BY <1>1, <1>4, <2>1, <2>6 DEF FlowsAmong
    <3>2. \A k \in in : v[k] \in Nat /\ v[k] = w[k]
      BY <1>4, <2>1, <2>4, <2>6, <3>1 DEF Amounts, Volumes
    <3>3. TotalOf(v, in) = TotalOf(w, in)
      BY <2>3, <3>2, TotalAgrees
    <3> QED
      BY <2>1, <2>2, <3>1, <3>3
  <2>7. CASE q \in K
    <3>1. n + 1 \in is /\ is \ {n + 1} = old /\ q \in out /\ out \ {q} = in \ {q}
      BY <1>1, <1>4, <2>1, <2>7 DEF FlowsAmong
    <3>2. TotalOf(b, is) = flow.bytes + TotalOf(b, old)
      BY <2>3, <2>5, <3>1, TotalSplit
    <3>3. w[q] = was + flow.bytes
      BY <1>4, <2>1, <3>1 DEF Volumes
    <3>4. TotalOf(w, out) = w[q] + TotalOf(w, in \ {q})
      BY <2>3, <2>4, <3>1, TotalSplit
    <3>5. \A k \in in \ {q} : v[k] \in Nat /\ v[k] = w[k]
      BY <1>4, <2>1, <2>4 DEF Amounts, Volumes
    <3>6. IsFiniteSet(in \ {q})
      BY <2>3, FS_Subset
    <3>7. TotalOf(v, in \ {q}) = TotalOf(w, in \ {q}) /\ TotalOf(v, in \ {q}) \in Nat
      BY <3>5, <3>6, TotalAgrees
    <3>8. TotalOf(v, in) = was + TotalOf(v, in \ {q})
      <4>1. CASE q \in DOMAIN conns
        <5>1. q \in in /\ v[q] = was
          BY <4>1, <1>1, <2>1, <2>7 DEF Volumes, VolumeAt
        <5>2. TotalOf(v, in) = v[q] + TotalOf(v, in \ {q})
          BY <5>1, <2>3, <2>4, TotalSplit
        <5> QED
          BY <5>1, <5>2
      <4>2. CASE q \notin DOMAIN conns
        <5>1. in \ {q} = in /\ was = 0
          BY <4>2, <1>1, <2>1 DEF VolumeAt
        <5>2. TotalOf(v, in \ {q}) = TotalOf(v, in)
          BY <5>1
        <5> QED
          BY <5>1, <5>2, <3>7
      <4> QED
        BY <4>1, <4>2
    <3> QED
      BY <1>2, <1>4, <2>1, <2>2, <3>2, <3>3, <3>4, <3>7, <3>8
  <2> QED
    BY <2>6, <2>7
<1>7. Carries(new, flows, n + 1)
  <2>1. IsFiniteSet(DOMAIN conns \cup {q})
    BY FS_AddElement DEF Carries
  <2>2. IsFiniteSet(DOMAIN new)
    BY <1>4, <2>1
  <2> QED
    BY <1>4, <1>5, <1>6, <2>2, Zenon DEF Carries
<1> QED
  BY <1>1, <1>7

(* A function with the recursion of ConnectionsUpTo.                       *)
Connects(f, flows, n) ==
    /\ f = [i \in 0..n |-> f[i]]
    /\ f[0] = [k \in {} |-> 0]
    /\ \A i \in 1..n : f[i] = AddFlow(f[i - 1], flows[i])

LEMMA ConnectionsExist ==
  ASSUME NEW flows, Len(flows) \in Nat
  PROVE  \E f : Connects(f, flows, Len(flows))
<1> DEFINE T == {n \in Nat : \E f : Connects(f, flows, n)}
<1>1. 0 \in T
  <2>1. PICK f : f = [i \in 0..0 |-> [k \in {} |-> 0]]
    OBVIOUS
  <2>2. Connects(f, flows, 0)
    BY <2>1 DEF Connects
  <2> QED
    BY <2>2
<1>2. ASSUME NEW n \in Nat, n \in T PROVE n + 1 \in T
  <2>1. PICK f : Connects(f, flows, n)
    BY <1>2
  <2>2. PICK v : v = AddFlow(f[n], flows[n + 1])
    OBVIOUS
  <2>3. PICK g : g = [i \in 0..(n + 1) |-> IF i = n + 1 THEN v ELSE f[i]]
    OBVIOUS
  <2>4. g[n + 1] = v /\ \A i \in 0..n : g[i] = f[i]
    BY <2>3
  <2>5. g[0] = [k \in {} |-> 0]
    BY <2>1, <2>4 DEF Connects
  <2>6. ASSUME NEW i \in 1..(n + 1) PROVE g[i] = AddFlow(g[i - 1], flows[i])
    <3>1. CASE i = n + 1
      <4>1. i - 1 = n /\ g[i - 1] = f[n]
        BY <3>1, <2>4
      <4> QED
        BY <3>1, <4>1, <2>2, <2>4
    <3>2. CASE i \in 1..n
      <4>1. i - 1 \in 0..n /\ g[i - 1] = f[i - 1] /\ g[i] = f[i]
        BY <3>2, <2>4
      <4> QED
        BY <3>2, <4>1, <2>1 DEF Connects
    <3> QED
      BY <3>1, <3>2
  <2>7. g = [i \in 0..(n + 1) |-> g[i]]
    BY <2>3
  <2>8. Connects(g, flows, n + 1)
    BY <2>5, <2>6, <2>7, Zenon DEF Connects
  <2> QED
    BY <2>8
<1>3. Len(flows) \in T
  <2> HIDE DEF T
  <2> QED
    BY <1>1, <1>2, SetInduction
<1> QED
  BY <1>3

LEMMA ConnectionsUnfold ==
  ASSUME NEW flows, Len(flows) \in Nat
  PROVE  Connects(ConnectionsUpTo(flows), flows, Len(flows))
<1>1. PICK g : Connects(g, flows, Len(flows))
  BY ConnectionsExist
<1>2. g = [i \in 0..Len(flows) |-> IF i = 0 THEN [k \in {} |-> 0] ELSE AddFlow(g[i - 1], flows[i])]
  <2>1. \A i \in 0..Len(flows) : i # 0 => i \in 1..Len(flows)
    OBVIOUS
  <2> QED
    BY <1>1, <2>1 DEF Connects
<1>3. ConnectionsUpTo(flows) =
        [i \in 0..Len(flows) |-> IF i = 0 THEN [k \in {} |-> 0]
                                 ELSE AddFlow(ConnectionsUpTo(flows)[i - 1], flows[i])]
  BY <1>2, Zenon DEF ConnectionsUpTo
<1>4. PICK f : f = ConnectionsUpTo(flows)
  OBVIOUS
<1>5. f = [i \in 0..Len(flows) |-> IF i = 0 THEN [k \in {} |-> 0] ELSE AddFlow(f[i - 1], flows[i])]
  BY <1>3, <1>4, Zenon
<1>6. f = [i \in 0..Len(flows) |-> f[i]]
  BY <1>5
<1>7. 0 \in 0..Len(flows) /\ f[0] = [k \in {} |-> 0]
  BY <1>5
<1>8. ASSUME NEW i \in 1..Len(flows) PROVE f[i] = AddFlow(f[i - 1], flows[i])
  <2>1. i \in 0..Len(flows) /\ i # 0
    OBVIOUS
  <2> QED
    BY <2>1, <1>5
<1>9. Connects(f, flows, Len(flows))
  BY <1>6, <1>7, <1>8, Zenon DEF Connects
<1> QED
  BY <1>4, <1>9

LEMMA ConnectionsCarry ==
  ASSUME NEW flows \in Seq(FlowRecord)
  PROVE  Carries(Connections(flows), flows, Len(flows))
<1>1. PICK f, len : f = ConnectionsUpTo(flows) /\ len = Len(flows)
  OBVIOUS
<1>2. len \in Nat /\ Connects(f, flows, len)
  BY <1>1, ConnectionsUnfold
<1> DEFINE T == {n \in Nat : n <= len => Carries(f[n], flows, n)}
<1>3. 0 \in T
  BY <1>2, CarriesNothing DEF Connects
<1>4. ASSUME NEW n \in Nat, n \in T PROVE n + 1 \in T
  <2>1. ASSUME n + 1 <= len PROVE Carries(f[n + 1], flows, n + 1)
    <3>1. n < Len(flows) /\ n + 1 \in 1..len /\ (n + 1) - 1 = n
      BY <1>1, <1>2, <2>1
    <3>2. Carries(f[n], flows, n)
      BY <1>2, <1>4, <2>1
    <3>3. f[n + 1] = AddFlow(f[n], flows[n + 1])
      BY <1>2, <3>1 DEF Connects
    <3> QED
      BY <3>1, <3>2, <3>3, FlowCarried
  <2> QED
    BY <2>1
<1>5. len \in T
  <2> HIDE DEF T
  <2> QED
    BY <1>2, <1>3, <1>4, SetInduction
<1> QED
  BY <1>1, <1>2, <1>5 DEF Connections

(* Every byte of the flows is in the connections, and a host's traffic is  *)
(* that of the flows from it or to it.                                     *)
LEMMA NoTrafficLost ==
  ASSUME NEW flows \in Seq(FlowRecord), NEW conns, conns = Connections(flows), NEW h
  PROVE  /\ TotalOf(Volumes(conns), DOMAIN conns) = TotalOf(Bytes(flows), DOMAIN flows)
         /\ HostTraffic(conns, h)
              = TotalOf(Bytes(flows), {i \in DOMAIN flows : h \in {flows[i].src, flows[i].dst}})
<1>1. Carries(conns, flows, Len(flows)) /\ DOMAIN flows = 1..Len(flows)
  BY ConnectionsCarry
<1>2. \A k \in DOMAIN conns : \E i \in 1..Len(flows) : k = ConnKey(flows[i])
  BY <1>1 DEF Carries
<1>3. \A i \in 1..Len(flows) : ConnKey(flows[i]) \in DOMAIN conns
  BY <1>1 DEF Carries
<1>4. ASSUME NEW K
      PROVE  TotalOf(Volumes(conns), DOMAIN conns \cap K)
               = TotalOf(Bytes(flows), FlowsAmong(flows, Len(flows), K))
  BY <1>1 DEF Carries
<1>5. TotalOf(Volumes(conns), DOMAIN conns) = TotalOf(Bytes(flows), DOMAIN flows)
  <2>1. DOMAIN conns \cap DOMAIN conns = DOMAIN conns
    OBVIOUS
  <2>2. FlowsAmong(flows, Len(flows), DOMAIN conns) = DOMAIN flows
    BY <1>1, <1>3 DEF FlowsAmong
  <2> QED
    BY <1>4, <2>1, <2>2
<1>6. HostTraffic(conns, h)
        = TotalOf(Bytes(flows), {i \in DOMAIN flows : h \in {flows[i].src, flows[i].dst}})
  <2>1. PICK K : K = {k \in DOMAIN conns : k[1] = h \/ k[2] = h}
    OBVIOUS
  <2>2. DOMAIN conns \cap K = K
    BY <2>1
  <2>3. FlowsAmong(flows, Len(flows), K)
          = {i \in DOMAIN flows : h \in {flows[i].src, flows[i].dst}}
    BY <1>1, <1>3, <2>1 DEF FlowsAmong, ConnKey
  <2>4. HostTraffic(conns, h) = TotalOf(Volumes(conns), DOMAIN conns \cap K)
    BY <2>1, <2>2 DEF HostTraffic
  <2> QED
    BY <1>4, <2>3, <2>4
<1> QED
  BY <1>5, <1>6

(***************************************************************************)
(* The hosts of a request: the last record of an id is the one that stays. *)
(***************************************************************************)
LastRecord(hosts, h, j) ==
    /\ j \in DOMAIN hosts
    /\ hosts[j].id = h
    /\ \A k \in (j + 1)..Len(hosts) : hosts[k].id # h

LEMMA LastExists ==
  ASSUME NEW hosts \in Seq(HostRecord), NEW h, \E j \in DOMAIN hosts : hosts[j].id = h
  PROVE  \E j : LastRecord(hosts, h, j)
<1>1. DOMAIN hosts = 1..Len(hosts) /\ Len(hosts) \in Nat
  OBVIOUS
<1> DEFINE T == {n \in Nat : (\E j \in 1..n : hosts[j].id = h) =>
                    \E j \in 1..n : hosts[j].id = h /\ \A k \in (j + 1)..n : hosts[k].id # h}
<1>2. 0 \in T
  OBVIOUS
<1>3. ASSUME NEW n \in Nat, n \in T PROVE n + 1 \in T
  <2>1. CASE hosts[n + 1].id = h
    <3>1. n + 1 \in 1..(n + 1) /\ ((n + 1) + 1)..(n + 1) = {}
      OBVIOUS
    <3> QED
      BY <2>1, <3>1
  <2>2. CASE hosts[n + 1].id # h
    <3>1. ASSUME NEW i \in 1..(n + 1), hosts[i].id = h
          PROVE  \E j \in 1..(n + 1) : hosts[j].id = h /\ \A k \in (j + 1)..(n + 1) : hosts[k].id # h
      <4>1. i \in 1..n
        BY <2>2, <3>1
      <4>2. PICK j \in 1..n : hosts[j].id = h /\ \A k \in (j + 1)..n : hosts[k].id # h
        BY <1>3, <3>1, <4>1
      <4>3. \A k \in (j + 1)..(n + 1) : k \in (j + 1)..n \/ k = n + 1
        OBVIOUS
      <4> QED
        BY <2>2, <4>2, <4>3
    <3> QED
      BY <3>1
  <2> QED
    BY <2>1, <2>2
<1>4. Len(hosts) \in T
  <2> HIDE DEF T
  <2> QED
    BY <1>1, <1>2, <1>3, SetInduction
<1>5. PICK j \in 1..Len(hosts) : /\ hosts[j].id = h
                                 /\ \A k \in (j + 1)..Len(hosts) : hosts[k].id # h
  BY <1>1, <1>4
<1> QED
  BY <1>1, <1>5 DEF LastRecord

Ids(hosts) == {hosts[j].id : j \in DOMAIN hosts}

LEMMA TableIsLast ==
  ASSUME NEW hosts \in Seq(HostRecord)
  PROVE  /\ DOMAIN HostTable(hosts) = Ids(hosts)
         /\ IsFiniteSet(Ids(hosts))
         /\ \A h \in Ids(hosts) : \E j : LastRecord(hosts, h, j) /\ HostTable(hosts)[h] = hosts[j]
<1>1. DOMAIN hosts = 1..Len(hosts) /\ Len(hosts) \in Nat
  OBVIOUS
<1>2. DOMAIN HostTable(hosts) = Ids(hosts)
  BY DEF HostTable, Ids
<1>3. IsFiniteSet(Ids(hosts))
  <2>1. PICK g : g = [i \in 1..Len(hosts) |-> hosts[i].id]
    OBVIOUS
  <2>2. g \in Surjection(1..Len(hosts), Ids(hosts))
    BY <1>1, <2>1 DEF Surjection, Ids
  <2> QED
    BY <1>1, <2>2, FS_Interval, FS_Surjection
<1>4. ASSUME NEW h \in Ids(hosts)
      PROVE  \E j : LastRecord(hosts, h, j) /\ HostTable(hosts)[h] = hosts[j]
  <2>1. PICK c : c = CHOOSE j \in DOMAIN hosts :
                       /\ hosts[j].id = h /\ \A k \in (j + 1)..Len(hosts) : hosts[k].id # h
    OBVIOUS
  <2>2. \E j \in DOMAIN hosts : /\ hosts[j].id = h
                                /\ \A k \in (j + 1)..Len(hosts) : hosts[k].id # h
    <3>1. \E j \in DOMAIN hosts : hosts[j].id = h
      BY DEF Ids
    <3>2. PICK j : LastRecord(hosts, h, j)
      BY <3>1, LastExists
    <3> QED
      BY <3>2, Zenon DEF LastRecord
  <2>3. LastRecord(hosts, h, c)
    BY <2>1, <2>2 DEF LastRecord
  <2>4. HostTable(hosts)[h] = hosts[c]
    BY <2>1 DEF HostTable, Ids
  <2> QED
    BY <2>3, <2>4
<1> QED
  BY <1>2, <1>3, <1>4

LEMMA LastIsGiven ==
  ASSUME segReq.hosts \in Seq(HostRecord), NEW h \in Ids(segReq.hosts)
  PROVE  HostTable(segReq.hosts)[h] = LastGiven(h)
<1>1. PICK hosts : hosts = segReq.hosts
  OBVIOUS
<1>2. hosts \in Seq(HostRecord) /\ h \in Ids(hosts) /\ DOMAIN hosts = 1..Len(hosts) /\ Len(hosts) \in Nat
  BY <1>1
<1>3. PICK j : LastRecord(hosts, h, j) /\ HostTable(hosts)[h] = hosts[j]
  BY <1>2, TableIsLast
<1>4. \A k \in DOMAIN hosts : hosts[k].id = h => k <= j
  BY <1>2, <1>3 DEF LastRecord
<1> DEFINE Is(x) == /\ x.id = h
                    /\ \E i \in DOMAIN hosts : /\ hosts[i] = x
                         /\ \A k \in DOMAIN hosts : hosts[k].id = h => k <= i
<1>5. hosts[j] \in Elements(hosts) /\ Is(hosts[j])
  BY <1>3, <1>4 DEF LastRecord, Elements
<1>6. ASSUME NEW x, Is(x) PROVE x = hosts[j]
  <2>1. PICK i \in DOMAIN hosts : hosts[i] = x /\ \A k \in DOMAIN hosts : hosts[k].id = h => k <= i
    BY <1>6
  <2>2. i <= j /\ j <= i /\ i \in Nat /\ j \in Nat
    BY <1>2, <1>3, <1>4, <1>6, <2>1 DEF LastRecord
  <2> QED
    BY <2>1, <2>2
<1>7. LastGiven(h) = CHOOSE x \in Elements(hosts) : Is(x)
  BY <1>1 DEF LastGiven
<1>8. LastGiven(h) = hosts[j]
  <2> HIDE DEF Is
  <2> QED
    BY <1>5, <1>6, <1>7
<1> QED
  BY <1>1, <1>3, <1>8

(***************************************************************************)
(* The segments.                                                           *)
(***************************************************************************)
(* A host of the topology has one segment besides the DMZ.                 *)
Placed(segs, h) == Cardinality({s \in segs : s.name # <<"dmz">> /\ h \in s.hosts}) = 1

LEMMA PlacedOnce ==
  ASSUME NEW segs, NEW h, NEW one,
         \A s \in segs : (s.name # <<"dmz">> /\ h \in s.hosts) <=> s = one, one \in segs
  PROVE  Placed(segs, h)
<1>1. {s \in segs : s.name # <<"dmz">> /\ h \in s.hosts} = {one}
  OBVIOUS
<1> QED
  BY <1>1, FS_Singleton DEF Placed

Levels == {"high", "medium", "low"}
Assessed(hosts) == \A h \in DOMAIN hosts : hosts[h].criticality \in Levels

LEMMA MicroSegments ==
  ASSUME NEW top, Assessed(top.hosts)
  PROVE  LET segs == Microsegmentation(top) IN
         /\ IsFiniteSet(segs)
         /\ DOMAIN top.hosts # {} => segs # {}
         /\ \A h \in DOMAIN top.hosts :
               /\ Placed(segs, h)
               /\ (\E s \in segs : s.name = <<"dmz">> /\ h \in s.hosts)
                     <=> top.hosts[h].trust = "low"
<1>1. PICK hosts, segs : hosts = top.hosts /\ segs = Microsegmentation(top)
  OBVIOUS
<1> DEFINE Of(c) == Segment(<<"criticality", c>>, {h \in DOMAIN hosts : hosts[h].criticality = c})
           used == {hosts[h].criticality : h \in DOMAIN hosts}
           low == {h \in DOMAIN hosts : hosts[h].trust = "low"}
           dmz == Segment(<<"dmz">>, low)
<1>2. segs = {Of(c) : c \in used} \cup (IF low = {} THEN {} ELSE {dmz})
  BY <1>1 DEF Microsegmentation
<1>3. used \subseteq Levels
  BY <1>1 DEF Assessed
<1>4. IsFiniteSet(segs)
  <2>1. PICK a, b, c, d : a = Of("high") /\ b = Of("medium") /\ c = Of("low") /\ d = dmz
    OBVIOUS
  <2>2. segs \subseteq (({d} \cup {a}) \cup {b}) \cup {c}
    <3>1. \A e \in used : e = "high" \/ e = "medium" \/ e = "low"
      BY <1>3 DEF Levels
    <3>2. \A e \in used : Of(e) \in {a, b, c}
      BY <2>1, <3>1
    <3> HIDE DEF Of, dmz
    <3> QED
      BY <1>2, <2>1, <3>2
  <2>3. IsFiniteSet({d} \cup {a})
    BY FS_Singleton, FS_AddElement
  <2>4. IsFiniteSet(({d} \cup {a}) \cup {b})
    BY <2>3, FS_AddElement
  <2>5. IsFiniteSet((({d} \cup {a}) \cup {b}) \cup {c})
    BY <2>4, FS_AddElement
  <2> QED
    BY <2>2, <2>5, FS_Subset
<1>5. ASSUME NEW h \in DOMAIN hosts PROVE segs # {}
  <2>1. Of(hosts[h].criticality) \in segs
    BY <1>2
  <2> QED
    BY <2>1, Zenon
<1>6. \A c : Of(c).name # <<"dmz">> /\ \A h : h \in Of(c).hosts <=> (h \in DOMAIN hosts /\ hosts[h].criticality = c)
  BY DEF Segment
<1>7. dmz.name = <<"dmz">> /\ dmz.hosts = low
  BY DEF Segment
<1>8. ASSUME NEW h \in DOMAIN hosts
      PROVE  /\ Placed(segs, h)
             /\ (\E s \in segs : s.name = <<"dmz">> /\ h \in s.hosts) <=> hosts[h].trust = "low"
  <2>1. PICK one : one = Of(hosts[h].criticality)
    OBVIOUS
  <2>2. one \in segs
    BY <1>2, <2>1
  <2>3. \A s \in segs : s = dmz \/ \E c \in used : s = Of(c)
    BY <1>2
  <2>4. \A s \in segs : (s.name # <<"dmz">> /\ h \in s.hosts) <=> s = one
    <3> HIDE DEF Of, dmz
    <3> QED
      BY <1>6, <1>7, <2>1, <2>3
  <2>5. Placed(segs, h)
    BY <2>2, <2>4, PlacedOnce
  <2>6. dmz \in segs <=> low # {}
    <3>1. \A c \in used : Of(c) # dmz
      <4> HIDE DEF Of, dmz
      <4> QED
        BY <1>6, <1>7
    <3> HIDE DEF Of, dmz
    <3> QED
      BY <1>2, <3>1
  <2>7. (\E s \in segs : s.name = <<"dmz">> /\ h \in s.hosts) <=> h \in low
    <3> HIDE DEF Of, dmz
    <3> QED
      BY <1>6, <1>7, <2>3, <2>6
  <2> QED
    BY <2>5, <2>7
<1> QED
  BY <1>1, <1>4, <1>5, <1>8

LEMMA ZeroTrustSegments ==
  ASSUME NEW top, IsFiniteSet(DOMAIN top.hosts)
  PROVE  /\ IsFiniteSet(ZeroTrust(top))
         /\ DOMAIN top.hosts # {} => ZeroTrust(top) # {}
         /\ \A h \in DOMAIN top.hosts : Placed(ZeroTrust(top), h)
<1>1. PICK ids, segs : ids = DOMAIN top.hosts /\ segs = ZeroTrust(top)
  OBVIOUS
<1> DEFINE Of(h) == Segment(<<"host", h>>, {h})
<1>2. segs = {Of(h) : h \in ids}
  BY <1>1 DEF ZeroTrust
<1>3. IsFiniteSet(segs)
  <2>1. PICK g : g = [h \in ids |-> Of(h)]
    OBVIOUS
  <2>2. g \in Surjection(ids, segs)
    <3> HIDE DEF Of
    <3> QED
      BY <1>2, <2>1 DEF Surjection
  <2> QED
    BY <1>1, <2>2, FS_Surjection
<1>4. ids # {} => segs # {}
  BY <1>2
<1>5. \A h : Of(h).name # <<"dmz">> /\ Of(h).hosts = {h}
  BY DEF Segment
<1>6. ASSUME NEW h \in ids PROVE Placed(segs, h)
  <2>1. PICK one : one = Of(h)
    OBVIOUS
  <2>2. one \in segs
    BY <1>2, <2>1
  <2>3. \A s \in segs : (s.name # <<"dmz">> /\ h \in s.hosts) <=> s = one
    <3> HIDE DEF Of
    <3> QED
      BY <1>2, <1>5, <2>1
  <2> QED
    BY <2>2, <2>3, PlacedOnce
<1> QED
  BY <1>1, <1>3, <1>4, <1>6

(***************************************************************************)
(* The proposals and their order.                                          *)
(***************************************************************************)
Offered(top) ==
    {Proposal("microsegmentation", Microsegmentation(top)), Proposal("zero_trust", ZeroTrust(top)),
     Proposal("", {})}
Placeholder(goals) == Elements(goals) \cap {"compliance", "performance"} # {}

LEMMA ProposalsOffered ==
  ASSUME NEW top, NEW goals, NEW ps, ps = GenerateProposals(top, goals)
  PROVE  /\ ps \in Seq(Offered(top))
         /\ Placeholder(goals) => \E i \in DOMAIN ps : ps[i] = Proposal("", {})
         /\ ~ Placeholder(goals) =>
              \A i \in DOMAIN ps : ps[i] \in {Proposal("microsegmentation", Microsegmentation(top)),
                                              Proposal("zero_trust", ZeroTrust(top))}
<1>1. PICK m, z, e : /\ m = Proposal("microsegmentation", Microsegmentation(top))
                     /\ z = Proposal("zero_trust", ZeroTrust(top))
                     /\ e = Proposal("", {})
  OBVIOUS
<1>2. PICK x, y, w : /\ x = IF "reduce_lateral_movement" \in Elements(goals) THEN <<m, z>> ELSE << >>
                     /\ y = IF "compliance" \in Elements(goals) THEN <<e>> ELSE << >>
                     /\ w = IF "performance" \in Elements(goals) THEN <<e>> ELSE << >>
  OBVIOUS
<1>3. ps = (x \o y) \o w
  BY <1>1, <1>2 DEF GenerateProposals
<1>4. x = <<m, z>> \/ x = << >>
  BY <1>2
<1>5. x \in Seq({m, z})
  <2>1. <<m, z>> \in Seq({m, z}) /\ << >> \in Seq({m, z})
    OBVIOUS
  <2> QED
    BY <1>4, <2>1
<1>6. x \in Seq({m, z, e}) /\ y \in Seq({m, z, e}) /\ w \in Seq({m, z, e})
  <2>1. /\ <<m, z>> \in Seq({m, z, e})
        /\ << >> \in Seq({m, z, e})
        /\ <<e>> \in Seq({m, z, e})
    OBVIOUS
  <2> QED
    BY <1>2, <2>1
<1>7. ps \in Seq({m, z, e})
  BY <1>3, <1>6
<1>8. ASSUME Placeholder(goals) PROVE \E i \in DOMAIN ps : ps[i] = e
  <2>1. CASE "compliance" \in Elements(goals)
    <3>1. y = <<e>>
      BY <1>2, <2>1
    <3>2. Len(x) + 1 \in DOMAIN ps /\ ps[Len(x) + 1] = e
      BY <1>3, <1>6, <3>1
    <3> QED
      BY <3>2
  <2>2. CASE "performance" \in Elements(goals)
    <3>1. w = <<e>>
      BY <1>2, <2>2
    <3>2. Len(x \o y) + 1 \in DOMAIN ps /\ ps[Len(x \o y) + 1] = e
      BY <1>3, <1>6, <3>1
    <3> QED
      BY <3>2
  <2> QED
    BY <1>8, <2>1, <2>2 DEF Placeholder
<1>9. ASSUME ~ Placeholder(goals) PROVE \A i \in DOMAIN ps : ps[i] \in {m, z}
  <2>1. y = << >> /\ w = << >>
    BY <1>2, <1>9 DEF Placeholder
  <2>2. ps = x
    BY <1>3, <1>5, <2>1
  <2> QED
    BY <1>5, <2>2
<1> QED
  BY <1>1, <1>7, <1>8, <1>9 DEF Offered

(* Sorting permutes, and never leaves a better one behind.                 *)
LEMMA RankedPermutes ==
  ASSUME NEW ps, NEW s \in Ranked(ps)
  PROVE  /\ DOMAIN s = DOMAIN ps
         /\ \A i \in DOMAIN ps : \E j \in DOMAIN ps : s[i] = ps[j]
         /\ \A j \in DOMAIN ps : \E i \in DOMAIN ps : s[i] = ps[j]
         /\ \A i, j \in DOMAIN ps : i < j => ~ Better(s[j], s[i])
<1>1. PICK f \in Orders(DOMAIN ps) : s = [i \in DOMAIN ps |-> ps[f[i]]]
  BY DEF Ranked
<1>2. f \in [DOMAIN ps -> DOMAIN ps] /\ \A x \in DOMAIN ps : \E y \in DOMAIN ps : f[y] = x
  BY <1>1 DEF Orders
<1>3. \A i, j \in DOMAIN ps : i < j => ~ Better(s[j], s[i])
  BY DEF Ranked
<1> QED
  BY <1>1, <1>2, <1>3

(***************************************************************************)
(* The answer to a request is one of the sorted lists of proposals made of *)
(* the topology of that request.                                           *)
(***************************************************************************)
SegRequests == [hosts : SegHosts \ {<< >>}, flows : SegFlows, goals : SegGoals]
Answers(ask, ps) ==
    /\ ps \in Ranked(GenerateProposals(AnalyzeTopology(ask), ask.goals))
    /\ segReply = [topology |-> AnalyzeTopology(ask), proposals |-> ps]
SegInv == Proposed => segReq \in SegRequests /\ \E ps : Answers(segReq, ps)

LEMMA SegInvHolds == SegSpec => []SegInv
<1>1. SegInit => SegInv
  BY DEF SegInit, SegInv, Proposed
<1>2. SegInv /\ [SegNext]_segVars => SegInv'
  <2> SUFFICES ASSUME SegInv, [SegNext]_segVars PROVE SegInv'
    OBVIOUS
  <2>1. ASSUME NEW h \in SegHosts, NEW f \in SegFlows, NEW g \in SegGoals,
               ProposeSegmentation([hosts |-> h, flows |-> f, goals |-> g])
        PROVE  SegInv'
    <3>1. PICK ask : ask = [hosts |-> h, flows |-> f, goals |-> g]
      OBVIOUS
    <3>2. ask.hosts = h /\ ask.flows = f /\ ask.goals = g
      BY <3>1
    <3>3. ProposeSegmentation(ask)
      BY <2>1, <3>1
    <3>4. CASE h = << >> \/ g = << >>
      BY <3>2, <3>3, <3>4 DEF ProposeSegmentation, SegInv, Proposed
    <3>5. CASE ~ (h = << >> \/ g = << >>)
      <4>1. PICK top : top = AnalyzeTopology(ask)
        OBVIOUS
      <4>2. PICK ps \in Ranked(GenerateProposals(top, ask.goals)) :
              segReply' = [topology |-> top, proposals |-> ps]
        BY <3>2, <3>3, <3>5, <4>1, Zenon DEF ProposeSegmentation
      <4>3. segReq' = ask /\ ask \in SegRequests
        BY <3>1, <3>3, <3>5 DEF ProposeSegmentation, SegRequests
      <4>4. Answers(ask, ps)'
        BY <4>1, <4>2, Zenon DEF Answers
      <4> QED
        BY <4>3, <4>4 DEF SegInv
    <3> QED
      BY <3>4, <3>5
  <2>2. ASSUME NEW p, CreateSegmentationPlan(p) PROVE SegInv'
    <3>1. DOMAIN segReply' = {"plan", "steps", "policies"}
      BY <2>2 DEF CreateSegmentationPlan
    <3>2. "proposals" \notin DOMAIN segReply'
      BY <3>1
    <3> QED
      BY <3>2 DEF SegInv, Proposed
  <2>3. CASE UNCHANGED segVars
    BY <2>3 DEF segVars, SegInv, Proposed, Answers
  <2> QED
    BY <2>1, <2>2, <2>3 DEF SegNext
<1> QED
  BY <1>1, <1>2, PTL DEF SegSpec

(* What is known of an answer: a request, its topology and the proposals.  *)
LEMMA AnswerKnown ==
  ASSUME SegInv, Proposed
  PROVE  \E ps : /\ Answers(segReq, ps)
                 /\ segReply.topology = AnalyzeTopology(segReq) /\ segReply.proposals = ps
                 /\ segReq.hosts \in Seq(HostRecord) /\ segReq.hosts # << >>
                 /\ segReq.flows \in Seq(FlowRecord)
<1>1. segReq \in SegRequests
  BY DEF SegInv
<1>2. PICK ps : Answers(segReq, ps)
  BY DEF SegInv
<1>3. segReply.topology = AnalyzeTopology(segReq) /\ segReply.proposals = ps
  BY <1>2 DEF Answers
<1>4. /\ segReq.hosts \in Seq(HostRecord) /\ segReq.hosts # << >>
      /\ segReq.flows \in Seq(FlowRecord)
  BY <1>1, SegAssumption DEF SegRequests
<1> QED
  BY <1>2, <1>3, <1>4

LEMMA TrafficIsConserved ==
  ASSUME SegInv
  PROVE  TrafficConserved
<1> SUFFICES ASSUME Proposed
             PROVE  /\ TotalOf(Volumes(segReply.topology.conns), DOMAIN segReply.topology.conns)
                         = TotalOf(Bytes(segReq.flows), DOMAIN segReq.flows)
                    /\ \A h \in DOMAIN segReply.topology.hosts :
                         segReply.topology.hosts[h].traffic =
                             TotalOf(Bytes(segReq.flows),
                                     {i \in DOMAIN segReq.flows :
                                         h \in {segReq.flows[i].src, segReq.flows[i].dst}})
  BY Zenon DEF TrafficConserved, Bytes
<1>1. segReply.topology = AnalyzeTopology(segReq) /\ segReq.flows \in Seq(FlowRecord)
  BY AnswerKnown
<1>2. PICK conns, flows : conns = Connections(segReq.flows) /\ flows = segReq.flows
  OBVIOUS
<1>3. segReply.topology.conns = conns
  BY <1>1, <1>2 DEF AnalyzeTopology
<1>4. TotalOf(Volumes(conns), DOMAIN conns) = TotalOf(Bytes(flows), DOMAIN flows)
  BY <1>1, <1>2, NoTrafficLost
<1>5. ASSUME NEW h \in DOMAIN segReply.topology.hosts
      PROVE  segReply.topology.hosts[h].traffic =
                 TotalOf(Bytes(flows), {i \in DOMAIN flows : h \in {flows[i].src, flows[i].dst}})
  <2>1. segReply.topology.hosts[h].traffic = HostTraffic(conns, h)
    BY <1>1, <1>2 DEF AnalyzeTopology
  <2> QED
    BY <1>1, <1>2, <2>1, NoTrafficLost
<1> QED
  BY <1>2, <1>3, <1>4, <1>5

LEMMA TopologyOfHosts ==
  ASSUME NEW ask, ask.hosts \in Seq(HostRecord), ask.hosts # << >>, NEW top, top = AnalyzeTopology(ask)
  PROVE  /\ DOMAIN top.hosts = Ids(ask.hosts) /\ IsFiniteSet(DOMAIN top.hosts)
         /\ DOMAIN top.hosts # {}
         /\ Assessed(top.hosts)
         /\ \A h \in DOMAIN top.hosts :
               top.hosts[h].trust = AssessTrustLevel(HostTable(ask.hosts)[h])
<1>1. PICK table, conns : table = HostTable(ask.hosts) /\ conns = Connections(ask.flows)
  OBVIOUS
<1>2. top.hosts = [h \in DOMAIN table |->
                     [criticality |-> AssessCriticality(table[h]),
                      trust |-> AssessTrustLevel(table[h]),
                      inbound |-> CountConnections(conns, h, 2),
                      outbound |-> CountConnections(conns, h, 1),
                      traffic |-> HostTraffic(conns, h)]]
  BY <1>1 DEF AnalyzeTopology
<1>3. DOMAIN top.hosts = Ids(ask.hosts) /\ IsFiniteSet(DOMAIN top.hosts)
  BY <1>1, <1>2, TableIsLast
<1>4. DOMAIN top.hosts # {}
  <2>1. 1 \in DOMAIN ask.hosts
    OBVIOUS
  <2>2. ask.hosts[1].id \in Ids(ask.hosts)
    BY <2>1 DEF Ids
  <2> QED
    BY <1>3, <2>2
<1>5. \A x : AssessCriticality(x) \in Levels
  BY DEF AssessCriticality, Levels
<1>6. \A h \in DOMAIN top.hosts : /\ top.hosts[h].criticality = AssessCriticality(table[h])
                                  /\ top.hosts[h].trust = AssessTrustLevel(table[h])
  BY <1>2
<1> QED
  BY <1>1, <1>3, <1>4, <1>5, <1>6 DEF Assessed

LEMMA HostsAreSegmented ==
  ASSUME SegInv
  PROVE  EveryHostSegmented
<1> DEFINE External(h) == "external" \in Words(LastGiven(h)) /\ "trusted" \notin Words(LastGiven(h))
<1>a. {x.id : x \in Elements(segReq.hosts)} = Ids(segReq.hosts)
  BY DEF Elements, Ids
<1> SUFFICES ASSUME Proposed, NEW i \in DOMAIN segReply.proposals,
                    segReply.proposals[i].segments # {}, NEW h \in Ids(segReq.hosts)
             PROVE  /\ Placed(segReply.proposals[i].segments, h)
                    /\ segReply.proposals[i].strategy = "microsegmentation" =>
                         ((\E s \in segReply.proposals[i].segments :
                              s.name = <<"dmz">> /\ h \in s.hosts) <=> External(h))
  BY <1>a, Zenon DEF EveryHostSegmented, Placed
<1>b. PICK segs : segs = segReply.proposals[i].segments
  OBVIOUS
<1>1. PICK ps : /\ Answers(segReq, ps) /\ segReply.proposals = ps
                /\ segReq.hosts \in Seq(HostRecord) /\ segReq.hosts # << >>
  BY AnswerKnown
<1>2. PICK top, all : top = AnalyzeTopology(segReq) /\ all = GenerateProposals(top, segReq.goals)
  OBVIOUS
<1>3. ps \in Ranked(all) /\ i \in DOMAIN ps /\ segs = ps[i].segments
  BY <1>1, <1>2, <1>b DEF Answers
<1>4. /\ DOMAIN top.hosts = Ids(segReq.hosts) /\ IsFiniteSet(DOMAIN top.hosts)
      /\ Assessed(top.hosts)
      /\ top.hosts[h].trust = AssessTrustLevel(HostTable(segReq.hosts)[h])
  BY <1>1, <1>2, TopologyOfHosts
<1>5. ps[i] \in Offered(top)
  <2>1. PICK j \in DOMAIN all : ps[i] = all[j]
    BY <1>3, RankedPermutes
  <2>2. all \in Seq(Offered(top))
    BY <1>2, ProposalsOffered
  <2> QED
    BY <2>1, <2>2
<1>6. CASE ps[i] = Proposal("microsegmentation", Microsegmentation(top))
  <2>1. segs = Microsegmentation(top)
    BY <1>3, <1>6 DEF Proposal
  <2>2. /\ Placed(segs, h)
        /\ (\E s \in segs : s.name = <<"dmz">> /\ h \in s.hosts) <=> top.hosts[h].trust = "low"
    BY <1>4, <2>1, MicroSegments
  <2>3. HostTable(segReq.hosts)[h] = LastGiven(h)
    BY <1>1, LastIsGiven
  <2>4. \A x : AssessTrustLevel(x) = "low" <=> "external" \in Words(x) /\ "trusted" \notin Words(x)
    BY DEF AssessTrustLevel
  <2>5. top.hosts[h].trust = "low" <=> External(h)
    BY <1>4, <2>3, <2>4
  <2> QED
    BY <1>b, <2>2, <2>5
<1>7. CASE ps[i] = Proposal("zero_trust", ZeroTrust(top))
  <2>1. segs = ZeroTrust(top) /\ ps[i].strategy = "zero_trust"
    BY <1>3, <1>7 DEF Proposal
  <2>2. Placed(segs, h)
    BY <1>4, <2>1, ZeroTrustSegments
  <2> QED
    BY <1>1, <1>b, <2>1, <2>2
<1>8. ps[i] # Proposal("", {})
  <2>1. Proposal("", {}).segments = {}
    BY DEF Proposal
  <2> QED
    BY <1>3, <1>b, <2>1
<1> QED
  BY <1>5, <1>6, <1>7, <1>8 DEF Offered

LEMMA PlaceholdersRankFirst ==
  ASSUME SegInv
  PROVE  PlaceholderRanksFirst
<1> SUFFICES ASSUME Proposed, segReply.proposals # << >>
             PROVE  Head(segReply.proposals).segments = {} <=> Placeholder(segReq.goals)
  BY DEF PlaceholderRanksFirst, Placeholder
<1>1. PICK ps : /\ Answers(segReq, ps) /\ segReply.proposals = ps
                /\ segReq.hosts \in Seq(HostRecord) /\ segReq.hosts # << >>
  BY AnswerKnown
<1>2. PICK top, all : top = AnalyzeTopology(segReq) /\ all = GenerateProposals(top, segReq.goals)
  OBVIOUS
<1>3. ps \in Ranked(all) /\ ps # << >>
  BY <1>1, <1>2 DEF Answers
<1>4. IsFiniteSet(DOMAIN top.hosts) /\ DOMAIN top.hosts # {} /\ Assessed(top.hosts)
  BY <1>1, <1>2, TopologyOfHosts
<1>5. all \in Seq(Offered(top)) /\ DOMAIN all = 1..Len(all) /\ Len(all) \in Nat
  <2>1. all \in Seq(Offered(top))
    BY <1>2, ProposalsOffered
  <2> QED
    BY <2>1
<1>6. /\ DOMAIN ps = DOMAIN all
      /\ \A i \in DOMAIN all : \E j \in DOMAIN all : ps[i] = all[j]
      /\ \A j \in DOMAIN all : \E i \in DOMAIN all : ps[i] = all[j]
      /\ \A i, j \in DOMAIN all : i < j => ~ Better(ps[j], ps[i])
  BY <1>3, RankedPermutes
<1>7. PICK m, z, e : /\ m = Proposal("microsegmentation", Microsegmentation(top))
                     /\ z = Proposal("zero_trust", ZeroTrust(top))
                     /\ e = Proposal("", {})
  OBVIOUS
<1>8. /\ IsFiniteSet(m.segments) /\ m.segments # {}
      /\ IsFiniteSet(z.segments) /\ z.segments # {}
      /\ e.segments = {}
  BY <1>4, <1>7, MicroSegments, ZeroTrustSegments DEF Proposal
<1>9. \A i \in DOMAIN all : ps[i] \in {m, z, e}
  <2>1. Offered(top) = {m, z, e}
    BY <1>7 DEF Offered
  <2>2. \A j \in DOMAIN all : all[j] \in {m, z, e}
    BY <1>5, <2>1
  <2> QED
    BY <1>6, <2>2
<1>10. ps \in Seq({m, z, e}) /\ 1 \in DOMAIN all /\ Head(ps) = ps[1]
  <2>1. ps = [i \in DOMAIN all |-> ps[i]]
    BY <1>3 DEF Ranked
  <2>2. ps \in Seq({m, z, e})
    BY <1>5, <1>9, <2>1
  <2> QED
    BY <1>3, <1>6, <2>2
<1>11. ASSUME Placeholder(segReq.goals) PROVE ps[1].segments = {}
  <2>1. PICK j \in DOMAIN all : all[j] = e
    BY <1>2, <1>7, <1>11, ProposalsOffered
  <2>2. PICK i \in DOMAIN all : ps[i] = e
    BY <1>6, <2>1
  <2>3. CASE i = 1
    BY <1>8, <2>2, <2>3
  <2>4. CASE i # 1
    <3>1. ~ Better(ps[i], ps[1])
      <4>1. 1 < i
        BY <1>5, <2>4
      <4> QED
        BY <1>6, <1>10, <4>1
    <3>2. Cardinality(e.segments) = 0
      BY <1>8, FS_EmptySet
    <3>3. ps[1] \in {m, z, e}
      BY <1>9, <1>10
    <3>4. ASSUME ps[1].segments # {} PROVE FALSE
      <4>1. IsFiniteSet(ps[1].segments)
        BY <1>8, <3>3, FS_EmptySet
      <4>2. Cardinality(ps[1].segments) \in Nat /\ Cardinality(ps[1].segments) # 0
        BY <3>4, <4>1, FS_EmptySet, FS_CardinalityType
      <4> QED
        BY <2>2, <3>1, <3>2, <4>2 DEF Better
    <3> QED
      BY <3>4
  <2> QED
    BY <2>3, <2>4
<1>12. ASSUME ~ Placeholder(segReq.goals) PROVE ps[1].segments # {}
  <2>1. \A j \in DOMAIN all : all[j] \in {m, z}
    BY <1>2, <1>7, <1>12, ProposalsOffered
  <2>2. ps[1] \in {m, z}
    BY <1>6, <1>10, <2>1
  <2> QED
    BY <1>8, <2>2
<1> QED
  BY <1>1, <1>10, <1>11, <1>12

(***************************************************************************)
(* The answers of the segmenter, for requests of any hosts, flows and      *)
(* goals: every host of the request has its segment, no byte is lost in    *)
(* the connections, and proposals without segments are ranked first.       *)
(***************************************************************************)
THEOREM SegmentationIsSound == SegSpec => []SegmentsSound
<1>1. SegInv => SegmentsSound
  BY HostsAreSegmented, TrafficIsConserved, PlaceholdersRankFirst DEF SegmentsSound
<1> QED
  BY <1>1, SegInvHolds, PTL
=============================================================================
