---------------------------- MODULE DecisionPlans ----------------------------
(***************************************************************************)
(* The plan pipeline of the decision service (src/backend/decision/        *)
(* internal: api/http.go, agents/planner.go, policy_writer.go,             *)
(* segmenter.go, runtime.go, store/memory.go, model/plan.go) and the       *)
(* budget and router of the language models it asks                        *)
(* (src/backend/common/agents: budget.go, router.go).                      *)
(*                                                                         *)
(* POST /plans turns a finding into a draft, the draft's intents into      *)
(* controls (asking a model and running the tools it names), expands the   *)
(* targets and stores the plan.  Handlers run concurrently and share the   *)
(* budget, which limits requests per minute and cost per hour, and the     *)
(* store of bounded capacity.                                              *)
(***************************************************************************)
EXTENDS Integers, Sequences, FiniteSets

CONSTANTS PlanHandlers,
          Findings,      \* [host, severity, connect, byId]
          PolicyIntents, \* sequences of intent types POST /plans/policy may carry
          RoutedRoles,   \* roles the router's configuration has a client for
          Tools,         \* tools a model may name
          RateLimit, MaxCost, CallCost, \* per minute, per hour, of a call
          MinutesPerHour, KeepMinutes,  \* 60 and 60 in the code
          CanaryLimit, Capacity,        \* 5 and the store's capacity
          MaxMinute, MaxPlanRequests    \* bounds

ASSUME PlansAssumption ==
    /\ RateLimit \in Nat /\ MaxCost \in Nat /\ CallCost \in Nat
    /\ MinutesPerHour \in Nat \ {0} /\ KeepMinutes \in Nat \ {0}
    /\ CanaryLimit \in Nat \ {0} /\ Capacity \in Nat \ {0} /\ MaxMinute \in Nat
    /\ IsFiniteSet(PlanHandlers)

\* The intents a plan may have: the planner's own and those of a request.
IntentTypes == {"policy"} \cup UNION {{s[i] : i \in DOMAIN s} : s \in PolicyIntents}
ASSUME IntentsAssumption == PolicyIntents \subseteq Seq(IntentTypes)

VARIABLES minute,
          counts, costs,   \* requestCounts by minute, hourlyCosts by hour
          recorded, asked, \* history: requests recorded, model calls made
          ranTools,        \* history: <<role, tool>> that was executed
          handling,        \* what each handler is doing
          taken,           \* number of requests so far
          plans,           \* the store, by plan ID (the minute it was made in)
          order            \* number given to the next plan, for CreatedAt

planVars == <<minute, counts, costs, recorded, asked, ranTools, handling, taken, plans, order>>

Waiting == [stage |-> "waiting"]

PlansInit ==
    /\ minute = 0 /\ counts = <<>> /\ costs = <<>> /\ recorded = 0 /\ asked = 0
    /\ ranTools = {} /\ handling = [h \in PlanHandlers |-> Waiting] /\ taken = 0
    /\ plans = <<>> /\ order = 0

At(f, k) == IF k \in DOMAIN f THEN f[k] ELSE 0
Put(f, k, v) == [x \in DOMAIN f \cup {k} |-> IF x = k THEN v ELSE f[x]]
FirstN(s, n) == SubSeq(s, 1, IF Len(s) < n THEN Len(s) ELSE n)

(* ClientFor: a role has a client when the configuration names it and one  *)
(* of its providers could be set up.  The default one names "planner" and  *)
(* "policy-writer", while the runtime asks for "policywriter".             *)
HasClient(role) == role \in RoutedRoles

-----------------------------------------------------------------------------
(* The planner. *)

(* createFallbackDraft, with a client for the planner. *)
FallbackDraft(f) ==
    [targets |-> IF f.host = "" THEN <<>> ELSE <<f.host>>,
     intents |-> IF f.severity = "" THEN <<>> ELSE <<"policy">>,
     mode |-> CASE f.severity = "critical" -> "enforce" [] f.severity = "high" -> "canary"
                [] f.severity \in {"medium", ""} -> "suggest" [] OTHER -> "observe"]

(* createEnhancedFallbackDraft, without one.  Evidence of an inline        *)
(* finding is not a []string after decoding and is never looked at.        *)
EnhancedFallbackDraft(f) ==
    [targets |-> IF f.host = "" THEN <<>> ELSE <<f.host>>,
     intents |-> IF f.connect /\ f.byId THEN <<"policy">> ELSE <<>>,
     mode |-> "suggest"]

(* validateAndFallback. *)
Validated(draft) ==
    [draft EXCEPT !.targets = IF @ = <<>> THEN <<"unknown-host">> ELSE @,
                  !.intents = IF @ = <<>> THEN <<"policy">> ELSE FirstN(@, 3)]

BuildPlanDraft(f) ==
    Validated(IF HasClient("planner") THEN FallbackDraft(f) ELSE EnhancedFallbackDraft(f))

-----------------------------------------------------------------------------
(* The segmenter. *)

(* generateFallbackTargets; the prefix of a short host ID cannot be taken  *)
(* and the handler panics.                                                 *)
FallbackTargets(host) ==
    CASE host = "web-01" -> <<"db-01", "lb-01">> [] host = "db-01" -> <<"app-01">>
      [] OTHER -> <<"peer-01">>

TooShort(host) == host = "pc"

ExpandTargets(targets) == FirstN(targets \o FirstN(FallbackTargets(targets[1]), CanaryLimit), CanaryLimit)

-----------------------------------------------------------------------------
(* The budget. *)

Hour == minute \div MinutesPerHour

(* checkRateLimit, checkCostBudget: free requests have no cost limit. *)
WithinBudget(cost) ==
    /\ At(counts, minute) < RateLimit
    /\ cost = 0 \/ At(costs, Hour) + cost <= MaxCost

(* CheckBudget, one critical section with recordRequest. *)
Recorded(cost) ==
    /\ counts' = Put(counts, minute, At(counts, minute) + 1)
    /\ costs' = IF cost > 0 THEN Put(costs, Hour, At(costs, Hour) + cost) ELSE costs
    /\ recorded' = recorded + 1

Unrecorded == UNCHANGED <<counts, costs, recorded>>

CleanupBudget ==
    /\ counts' = [k \in {m \in DOMAIN counts : m >= minute - KeepMinutes} |-> counts[k]]
    /\ costs' = [k \in {x \in DOMAIN costs : x >= Hour - KeepMinutes} |-> costs[k]]
    /\ <<counts, costs>> # <<counts', costs'>>
    /\ UNCHANGED <<minute, recorded, asked, ranTools, handling, taken, plans, order>>

-----------------------------------------------------------------------------
(* The handlers. *)

Busy(h) == handling[h] # Waiting
Becomes(h, q) == handling' = [handling EXCEPT ![h] = q]

(* handleCreatePlan, handleGeneratePolicy up to the first intent. *)
ReceiveFinding(h, f) ==
    LET d == BuildPlanDraft(f)
    IN  /\ ~Busy(h) /\ taken < MaxPlanRequests /\ taken' = taken + 1
        /\ Becomes(h, [stage |-> "intent", kind |-> "plan", targets |-> d.targets, mode |-> d.mode,
                       intents |-> d.intents, controls |-> <<>>, round |-> 0, id |-> minute,
                       calls |-> <<>>])
        /\ UNCHANGED <<minute, counts, costs, recorded, asked, ranTools, plans, order>>

ReceiveIntents(h, intents) ==
    /\ ~Busy(h) /\ taken < MaxPlanRequests /\ taken' = taken + 1
    /\ Becomes(h, [stage |-> "intent", kind |-> "policy", targets |-> <<>>, mode |-> "",
                   intents |-> intents, controls |-> <<>>, round |-> 0, id |-> minute,
                   calls |-> <<>>])
    /\ UNCHANGED <<minute, counts, costs, recorded, asked, ranTools, plans, order>>

(* generateFallbackEBPF when the agent failed on an eBPF intent, otherwise *)
(* generateFallbackPolicy: the artifacts of policy.compile are not of the  *)
(* type the writer looks for, so no tool ever gives one.                   *)
FallbackArtifacts(intent, failed) ==
    IF intent = "ebpf" /\ failed THEN {"ebpf"} ELSE {"nftables", "cilium"}

Current(q) == q.intents[Len(q.controls) + 1]

(* The intent has its control, whether or not the agent failed. *)
NextIntent(q, failed) ==
    [q EXCEPT !.controls = Append(@, FallbackArtifacts(Current(q), failed)), !.round = 0,
              !.stage = "intent"]

(* ExecuteAgent: the budget is checked before the router is asked. *)
StartAgent(h) ==
    LET q == handling[h]
    IN  /\ Busy(h) /\ q.stage = "intent" /\ Len(q.controls) < Len(q.intents)
        /\ \/ /\ WithinBudget(CallCost) /\ Recorded(CallCost)
              /\ Becomes(h, IF HasClient("policywriter")
                            THEN [q EXCEPT !.stage = "ask", !.round = 1] ELSE NextIntent(q, TRUE))
           \/ /\ ~WithinBudget(CallCost) /\ Unrecorded
              /\ Becomes(h, NextIntent(q, TRUE))
        /\ UNCHANGED <<minute, asked, ranTools, taken, plans, order>>

(* sendToLLM: the model answers with calls and perhaps a draft, or fails. *)
AskModel(h) ==
    LET q == handling[h]
    IN  /\ Busy(h) /\ q.stage = "ask" /\ asked' = asked + 1
        /\ \/ \E calls \in {<<>>} \cup {<<t>> : t \in Tools} :
                 Becomes(h, [q EXCEPT !.stage = "charge", !.calls = calls])
           \/ Becomes(h, NextIntent(q, TRUE))
        /\ UNCHANGED <<minute, counts, costs, recorded, ranTools, taken, plans, order>>

Uncharged(q) == [q EXCEPT !.calls = <<>>]

RefusedContinues(q) ==
    IF q.calls = <<>> THEN NextIntent(Uncharged(q), FALSE) ELSE [q EXCEPT !.stage = "tools"]

(* Over the budget after the answer, the call is not recorded and the      *)
(* agent fails, its tool calls with it.                                    *)
ChargeRefused(q) == NextIntent(Uncharged(q), TRUE)

(* The charge of a model call, after its answer. *)
ChargeCall(h) ==
    LET q == handling[h]
    IN  /\ Busy(h) /\ q.stage = "charge"
        /\ \/ /\ WithinBudget(CallCost) /\ Recorded(CallCost)
              /\ Becomes(h, IF q.calls = <<>> THEN NextIntent(Uncharged(q), FALSE)
                            ELSE [q EXCEPT !.stage = "tools"])
           \/ ~WithinBudget(CallCost) /\ Unrecorded /\ Becomes(h, ChargeRefused(q))
        /\ UNCHANGED <<minute, asked, ranTools, taken, plans, order>>

Allowlist(role) ==
    CASE role = "planner" -> {"graph.query", "cve.lookup", "risk.context", "policy.compile",
                              "ebpf.template_suggest"}
      [] role = "policywriter" -> {"policy.compile", "ebpf.template_suggest", "registry.sign_store"}
      [] role = "segmenter" -> {"graph.query", "risk.context"}
      [] OTHER -> {}

IsToolAllowed(role, tool) == tool \in Allowlist(role)

(* executeToolCalls; a second round follows the first.  The template of    *)
(* ebpf.template_suggest lacks the field the writer reads: it panics when  *)
(* it collects the results of an eBPF intent.                              *)
RunTools(h) ==
    LET q == handling[h]
        tool == q.calls[1]
        run == IsToolAllowed("policywriter", tool)
        panics == run /\ tool = "ebpf.template_suggest" /\ Current(q) = "ebpf"
    IN  /\ Busy(h) /\ q.stage = "tools"
        /\ ranTools' = IF run THEN ranTools \cup {<<"policywriter", tool>>} ELSE ranTools
        /\ Becomes(h, IF panics THEN Waiting
                      ELSE IF q.round = 1 THEN [Uncharged(q) EXCEPT !.stage = "ask", !.round = 2]
                      ELSE NextIntent(Uncharged(q), FALSE))
        /\ UNCHANGED <<minute, counts, costs, recorded, asked, taken, plans, order>>

(* InferRelatedTargets and the limit of handleCreatePlan; /plans/policy is *)
(* answered here.                                                          *)
ExpandOrAnswer(h) ==
    LET q == handling[h]
    IN  /\ Busy(h) /\ q.stage = "intent" /\ Len(q.controls) = Len(q.intents)
        /\ Becomes(h, IF q.kind = "policy" \/ TooShort(q.targets[1]) THEN Waiting
                      ELSE [q EXCEPT !.stage = "store", !.targets = ExpandTargets(@)])
        /\ UNCHANGED <<minute, counts, costs, recorded, asked, ranTools, taken, plans, order>>

(* The oldest plan by CreatedAt. *)
Oldest == CHOOSE i \in DOMAIN plans : \A j \in DOMAIN plans : plans[i].made <= plans[j].made

(* Store makes room at capacity, for a plan that replaces one as well. *)
MakeRoom ==
    IF Cardinality(DOMAIN plans) >= Capacity
    THEN [i \in DOMAIN plans \ {Oldest} |-> plans[i]] ELSE plans

(* DecideStrategy (module Guardrails), ExplainPlan and Store.  The ID of a *)
(* plan is the second it was asked for, here the minute.                   *)
StorePlan(h) ==
    LET q == handling[h]
    IN  /\ Busy(h) /\ q.stage = "store"
        /\ plans' = Put(MakeRoom, q.id, [targets |-> q.targets, controls |-> q.controls,
                                           made |-> order])
        /\ order' = order + 1
        /\ Becomes(h, Waiting)
        /\ UNCHANGED <<minute, counts, costs, recorded, asked, ranTools, taken>>

PlanTick == minute < MaxMinute /\ minute' = minute + 1
            /\ UNCHANGED <<counts, costs, recorded, asked, ranTools, handling, taken, plans, order>>

PlansNext ==
    \/ \E h \in PlanHandlers :
          \/ \E f \in Findings : ReceiveFinding(h, f)
          \/ \E s \in PolicyIntents : ReceiveIntents(h, s)
          \/ StartAgent(h) \/ AskModel(h) \/ ChargeCall(h) \/ RunTools(h) \/ ExpandOrAnswer(h)
          \/ StorePlan(h)
    \/ CleanupBudget \/ PlanTick

PlansSpec == PlansInit /\ [][PlansNext]_planVars

-----------------------------------------------------------------------------

(* However many handlers ask at once and whenever the cleanup runs, no     *)
(* minute has more requests than the rate limit and no hour costs more     *)
(* than the limit.                                                         *)
BudgetKept ==
    /\ \A m \in DOMAIN counts : counts[m] <= RateLimit
    /\ \A x \in DOMAIN costs : costs[x] <= MaxCost

(* A model is called only on a request that the budget has recorded: the   *)
(* first call on the check before it, the second on the charge of the      *)
(* first.  Charges that are refused do not lead to further calls.          *)
CallsWereAdmitted ==
    asked + Cardinality({h \in PlanHandlers : Busy(h) /\ handling[h].stage = "ask"}) <= recorded

(* The runtime executes a tool a model names only for a role that may use  *)
(* it, in the first round as in the second.                                *)
ToolsAllowed ==
    \A x \in ranTools : x[1] = "policywriter"
                        /\ x[2] \in {"policy.compile", "ebpf.template_suggest", "registry.sign_store"}

(* Whatever agents fail, run out of budget or are not configured, a stored *)
(* plan has between one target and the canary limit, and from one to three *)
(* controls, each with an artifact: convertToModelControls reads the first *)
(* one.                                                                    *)
PlanUsable ==
    \A i \in DOMAIN plans :
        /\ Len(plans[i].targets) \in 1..CanaryLimit
        /\ Len(plans[i].controls) \in 1..3
        /\ \A c \in DOMAIN plans[i].controls : plans[i].controls[c] # {}

(* The store never holds more plans than its capacity, with handlers       *)
(* storing at the same time under the same and under different IDs.        *)
StoreBounded == Cardinality(DOMAIN plans) <= Capacity

(* Handlers at once, models that answer anything and budgets that run out  *)
(* lead neither to spending above the limits, nor to tools that were not   *)
(* granted, nor to a stored plan that cannot be carried out.               *)
PlansSound ==
    /\ BudgetKept
    /\ CallsWereAdmitted
    /\ ToolsAllowed
    /\ PlanUsable
    /\ StoreBounded
=============================================================================
