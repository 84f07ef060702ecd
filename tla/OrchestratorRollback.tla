------------------------ MODULE OrchestratorRollback ------------------------
(***************************************************************************)
(* The two rollback services of the orchestrator: RollbackManager          *)
(* (src/backend/orchestrator/internal/rollout/rollback.go) and             *)
(* RollbackHandler (decision/rollback_handler.go).                         *)
(*                                                                         *)
(* Both keep a table of operations by ID and run each operation in a       *)
(* goroutine, with one goroutine per target.  The manager reports every    *)
(* status through the table, the handler its last one through its own      *)
(* pointer.  IDs are made from the plan and the second, so two operations  *)
(* may have the same one.                                                  *)
(***************************************************************************)
EXTENDS Integers, Sequences

CONSTANTS OpIds,       \* IDs operations may get
          TargetCounts,\* numbers of targets a manager's operation may have
          RollbackBatch, \* targets of a gradual batch (3 in the code)
          MaxOps       \* bound on operations

ASSUME RollbackAssumption ==
    RollbackBatch \in Nat \ {0} /\ MaxOps \in Nat /\ TargetCounts \subseteq Nat

VARIABLES ops,        \* operations, by order of creation
          listed,     \* activeRollbacks: <<service, ID>> -> operation
          reused      \* history: <<service, ID>> given to two operations

opVars == <<ops, listed, reused>>

Strategies == {"immediate", "gradual", "selective", "canary"}
Settled == {"completed", "failed"}

RollbackInit == ops = <<>> /\ listed = <<>> /\ reused = {}

Slot(o) == <<ops[o].service, ops[o].id>>
PutAt(f, k, v) == [x \in DOMAIN f \cup {k} |-> IF x = k THEN v ELSE f[x]]

(* getActiveDeploymentsForPlan: the handler knows two placeholders. *)
Deployments == <<"active", "failed">>

(* executeSelectiveRollback of the handler takes the failed ones alone. *)
SelectedDeployments == SelectSeq(Deployments, LAMBDA d : d \in {"failed", "rollback"})

TargetsOf(service, strategy, n) ==
    IF service = "manager" THEN n
    ELSE Len(IF strategy = "selective" THEN SelectedDeployments ELSE Deployments)

(* InitiateRollback of either service.  A strategy the manager does not    *)
(* know leaves the operation in the table with nobody to run it.           *)
InitiateRollback(service, id, strategy, n) ==
    LET o == Len(ops) + 1
        known == strategy # "canary" \/ service = "handler"
    IN  /\ Len(ops) < MaxOps
        /\ ops' = Append(ops, [service |-> service, id |-> id, strategy |-> strategy,
                     status |-> "initiated", ended |-> FALSE,
                     target |-> [i \in 1..TargetsOf(service, strategy, n) |-> "pending"],
                     phase |-> IF known THEN "spawned" ELSE "refused"])
        /\ listed' = PutAt(listed, <<service, id>>, o)
        /\ reused' = IF \E p \in DOMAIN ops : Slot(p) = <<service, id>>
                     THEN reused \cup {<<service, id>>} ELSE reused

(* updateRollbackStatus and updateOperationStatus go by ID: they reach the *)
(* operation of the table, which may be another one.                       *)
ByTable(o) == IF Slot(o) \in DOMAIN listed THEN {listed[Slot(o)]} ELSE {}

SetField(all, whom, field, value) ==
    [p \in DOMAIN all |-> IF p \in whom THEN [all[p] EXCEPT ![field] = value] ELSE all[p]]

SetPhase(all, o, phase) == [all EXCEPT ![o].phase = phase]

StartRunning(o) ==
    /\ ops[o].phase = "spawned"
    /\ ops' = SetPhase(SetField(ops, ByTable(o), "status", "in_progress"), o, "running")
    /\ UNCHANGED <<listed, reused>>

BatchOf(i) == (i - 1) \div RollbackBatch

SettledAnyway(o, i) == TRUE

EarlierSucceeded(o, i) ==
    ops[o].strategy = "gradual" =>
        \A j \in DOMAIN ops[o].target : BatchOf(j) < BatchOf(i) => ops[o].target[j] = "completed"

(* wg.Wait between the batches of a gradual rollback. *)
EarlierSettled(o, i) ==
    ops[o].strategy = "gradual" =>
        \A j \in DOMAIN ops[o].target : BatchOf(j) < BatchOf(i) => ops[o].target[j] \in Settled

SpawnTarget(o, i) ==
    /\ ops[o].phase = "running" /\ ops[o].strategy # "canary"
    /\ ops[o].target[i] = "pending" /\ EarlierSettled(o, i)
    /\ ops' = [ops EXCEPT ![o].target[i] = "rolling_back"]
    /\ UNCHANGED <<listed, reused>>

(* rollbackTarget of the manager: publishing the action works or fails. *)
RollbackTarget(o, i) ==
    /\ ops[o].service = "manager" /\ ops[o].target[i] = "rolling_back"
    /\ \E result \in Settled : ops' = [ops EXCEPT ![o].target[i] = result]
    /\ UNCHANGED <<listed, reused>>

(* rollbackDeployment of the handler only waits. *)
RollbackDeployment(o, i) ==
    /\ ops[o].service = "handler" /\ ops[o].target[i] = "rolling_back"
    /\ ops' = [ops EXCEPT ![o].target[i] = "completed"]
    /\ UNCHANGED <<listed, reused>>

AllSuccess(o) == \A i \in DOMAIN ops[o].target : ops[o].target[i] = "completed"

(* What the last status is written to. *)
Reported(o) == IF ops[o].service = "manager" THEN ByTable(o) ELSE {o}

Outcome(o) == IF ops[o].strategy # "canary" /\ AllSuccess(o) THEN "completed" ELSE "failed"

(* wg.Wait is over, or the handler does not know the strategy. *)
Conclude(o) ==
    /\ ops[o].phase = "running"
    /\ ops[o].strategy = "canary" \/ \A i \in DOMAIN ops[o].target : ops[o].target[i] \in Settled
    /\ ops' = SetPhase(SetField(ops, Reported(o), "status", Outcome(o)), o, "ending")
    /\ UNCHANGED <<listed, reused>>

(* setRollbackEndTime, or the deferred function of the handler. *)
SetEndTime(o) ==
    /\ ops[o].phase = "ending"
    /\ ops' = SetPhase(SetField(ops, Reported(o), "ended", TRUE), o, "done")
    /\ UNCHANGED <<listed, reused>>

Removable(o) == ops[o].status = "completed" /\ ops[o].ended

(* CleanupCompletedRollbacks, CleanupCompletedOperations: the ones old     *)
(* enough, whichever these are.                                            *)
CleanupRollbacks(old) ==
    LET out == {k \in DOMAIN listed : listed[k] \in old /\ Removable(listed[k])}
    IN  /\ out # {}
        /\ listed' = [k \in DOMAIN listed \ out |-> listed[k]]
        /\ UNCHANGED <<ops, reused>>

(* What the goroutines of operation o do. *)
RunOperation(o) ==
    \/ StartRunning(o) \/ Conclude(o) \/ SetEndTime(o)
    \/ \E i \in DOMAIN ops[o].target :
          SpawnTarget(o, i) \/ RollbackTarget(o, i) \/ RollbackDeployment(o, i)

RollbackNext ==
    \/ \E id \in OpIds, s \in Strategies :
          \/ \E n \in TargetCounts : InitiateRollback("manager", id, s, n)
          \/ InitiateRollback("handler", id, s, 2)
    \/ \E o \in DOMAIN ops : RunOperation(o)
    \/ \E old \in SUBSET (DOMAIN ops) : CleanupRollbacks(old)

RollbackSpec == RollbackInit /\ [][RollbackNext]_opVars

(* A goroutine that can run does run. *)
RollbackFairness ==
    \A o \in 1..MaxOps : WF_opVars(o \in DOMAIN ops /\ RunOperation(o))

-----------------------------------------------------------------------------

OwnId(o) == Slot(o) \notin reused

(* An operation whose ID no other had ends with a last status and an end   *)
(* time.  With a shared ID the goroutine of one operation may set the      *)
(* other, finished one back to "in_progress", for good.                    *)
DoneIsTerminal ==
    \A o \in DOMAIN ops : OwnId(o) /\ ops[o].phase = "done" =>
        ops[o].status \in Settled /\ ops[o].ended

(* "completed" means that every target was rolled back, also when targets  *)
(* fail while others are still running.                                    *)
CompletedMeansAll ==
    \A o \in DOMAIN ops : OwnId(o) /\ ops[o].status = "completed" =>
        \A i \in DOMAIN ops[o].target : ops[o].target[i] = "completed"

(* A gradual rollback touches no target of a batch before the batches      *)
(* ahead of it are settled, whatever else uses the same ID.                *)
BatchesInOrder ==
    \A o \in DOMAIN ops : ops[o].strategy = "gradual" =>
        \A i, j \in DOMAIN ops[o].target :
            BatchOf(j) < BatchOf(i) /\ ops[o].target[i] # "pending"
                => ops[o].target[j] \in Settled

(* An operation that is still running can be found by its ID: the cleanup  *)
(* takes it only after the goroutine's last write, so no status or end     *)
(* time is lost.                                                           *)
RunningIsListed ==
    \A o \in DOMAIN ops : OwnId(o) /\ ops[o].phase # "done" =>
        Slot(o) \in DOMAIN listed /\ listed[Slot(o)] = o

(* An operation whose strategy the service knows ends, with an outcome of  *)
(* its own unless it shares its ID: failed targets hold up neither the     *)
(* batches after them nor the end (executeGradualRollback, wg.Wait).       *)
RollbackConcludes ==
    \A o \in 1..MaxOps :
        (o \in DOMAIN ops /\ ops[o].phase # "refused")
            ~> (o \in DOMAIN ops /\ ops[o].phase = "done" /\ (OwnId(o) => ops[o].status \in Settled))

(* The record of a rollback operation can be relied on: completed means    *)
(* every target, a final status stays, batches come one after the other,   *)
(* and what runs is listed.                                                *)
RollbacksSound ==
    /\ DoneIsTerminal
    /\ CompletedMeansAll
    /\ BatchesInOrder
    /\ RunningIsListed
=============================================================================
