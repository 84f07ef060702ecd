----------------------------- MODULE MCProgress -----------------------------
(***************************************************************************)
(* Components that must come to an end of what they began: canary rollouts *)
(* and rollback operations of the orchestrator, the local agent's          *)
(* telemetry queue and the correlator's rule loader. A behaviour runs one  *)
(* of them, the subject, and leaves the others in their initial state,     *)
(* where no action with a fairness condition is enabled.                   *)
(***************************************************************************)
EXTENDS CanaryRollout, TelemetrySender, CorrelatorRules, OrchestratorRollback

VARIABLE subject   \* the component that runs in this behaviour

-----------------------------------------------------------------------------
SuiteInit ==
    /\ subject \in {"canary", "telemetry", "rules", "rollback"}
    /\ Init
    /\ TelemetryInit
    /\ RulesInit
    /\ RollbackInit
    /\ \A f \in Files : ruleDir[f] # NoRule

SuiteNext ==
    \/ subject = "canary" /\ Next
       /\ UNCHANGED <<subject, telemetryVars, ruleVars, opVars>>
    \/ subject = "telemetry" /\ TelemetryNext
       /\ UNCHANGED <<subject, vars, ruleVars, opVars>>
    \/ subject = "rules" /\ RulesNext
       /\ UNCHANGED <<subject, vars, telemetryVars, opVars>>
    \/ subject = "rollback" /\ RollbackNext
       /\ UNCHANGED <<subject, vars, telemetryVars, ruleVars>>

SuiteSpec ==
    /\ SuiteInit /\ [][SuiteNext]_<<subject, vars, telemetryVars, ruleVars, opVars>>
    /\ CanaryFairness /\ TelemetryFairness /\ RulesFairness /\ RollbackFairness
=============================================================================
