--------------------------- MODULE MCDecisionPath ---------------------------
(***************************************************************************)
(* From a finding to a deployed control, checked side by side: the         *)
(* decision service's guardrails, agents, budget and plan store, the       *)
(* configuration service, the segmenter, the orchestrator's build and      *)
(* rollback of programs, and the agents of the console's own harness. A    *)
(* behaviour runs one of them, the subject, and leaves the others in their *)
(* initial state.                                                          *)
(***************************************************************************)
EXTENDS Guardrails, DecisionPlans, ConfigService, Segmenter, OrchestratorRollback,
        OrchestratorBuild, PlatformAgents, TLC

VARIABLE subject   \* the component that runs in this behaviour

SameLabel == {<<l, l>> : l \in Labels}
MCMaxes == {-1, 0, 1}
MCDefaults == [max |-> 1, labels |-> Labels]
MCEnvDefaults == [max |-> 0, labels |-> Labels]

MCFindings ==
    {[host |-> "web-01", severity |-> "critical", connect |-> TRUE, byId |-> TRUE],
     [host |-> "pc", severity |-> "low", connect |-> TRUE, byId |-> FALSE],
     [host |-> "", severity |-> "", connect |-> FALSE, byId |-> FALSE]}

MCIntents == {<<"policy", "ebpf">>}

\* Hosts twice in a request, flows of one connection and to an outside host.
MCSegHosts ==
    LET H(i, l, s) == [id |-> i, labels |-> l, services |-> s]
        hs == {H("h1", {"prod"}, {}), H("h1", {"dmz"}, {"web"}),
               H("h2", {"int-dmz"}, {"db"}), H("h2", {"dmz"}, {})}
    IN  {<< >>} \cup {<<a>> : a \in hs} \cup {<<a, b>> : a \in hs, b \in hs}

MCSegFlows ==
    LET F(s, d, p, b, t) == [src |-> s, dst |-> d, port |-> p, bytes |-> b, at |-> t]
        fs == {F("h1", "h2", 1, 2, 0), F("h1", "h2", 1, 1, 1), F("h2", "h2", 1, 1, 1),
               F("h1", "10.0.0.1", 2, 2, 0)}
    IN  {<< >>} \cup {<<a, b>> : a \in fs, b \in fs}

MCSegGoals ==
    {<< >>, <<"reduce_lateral_movement">>, <<"compliance", "reduce_lateral_movement">>,
     <<"performance", "compliance">>, <<"cost">>}

MCWordsOf == ("prod" :> {"critical"}) @@ ("dmz" :> {"external"})
             @@ ("int-dmz" :> {"trusted", "external"})

\* Plans of two controls, of one, and one without anything to build: the
\* template of rate_limit is missing, firewall is no eBPF control.
Ctl(i, t) == [id |-> i, type |-> t, status |-> "pending", artifact |-> NoArtifact]
MCPlans ==
    {<<Ctl("c1", "drop_by_cgroup"), Ctl("c2", "drop_by_process")>>,
     <<Ctl("c3", "drop_by_process")>>,
     <<Ctl("c4", "rate_limit"), Ctl("c5", "firewall")>>}

-----------------------------------------------------------------------------
\* The two handlers, builders, workers and requests may change places; all
\* of them at once, since only one kind of them ever does anything.
Kinds == {PlanHandlers, Builders, CfgWorkers, Requests}

Symmetry ==
    {p \in Permutations(UNION Kinds) :
        /\ \A kind \in Kinds : \A x \in kind : p[x] \in kind
        /\ \A x, y \in UNION Kinds : p[x] = x <=> p[y] = y}

SuiteInit ==
    /\ subject \in {"guardrails", "plans", "config", "segmenter", "rollback", "build",
                   "agents"}
    /\ Init
    /\ PlansInit
    /\ ConfigInit
    /\ SegInit
    /\ RollbackInit
    /\ BuildInit
    /\ AgentInit
    /\ api = [max |-> IllTyped, labels |-> {}]

SuiteNext ==
    \/ subject = "guardrails" /\ Next
       /\ UNCHANGED <<subject, planVars, cfgVars, segVars, opVars, buildVars, agentVars>>
    \/ subject = "plans" /\ PlansNext
       /\ UNCHANGED <<subject, vars, cfgVars, segVars, opVars, buildVars, agentVars>>
    \/ subject = "config" /\ ConfigNext
       /\ UNCHANGED <<subject, vars, planVars, segVars, opVars, buildVars, agentVars>>
    \/ subject = "segmenter" /\ SegNext
       /\ UNCHANGED <<subject, vars, planVars, cfgVars, opVars, buildVars, agentVars>>
    \/ subject = "rollback" /\ RollbackNext
       /\ UNCHANGED <<subject, vars, planVars, cfgVars, segVars, buildVars, agentVars>>
    \/ subject = "build" /\ BuildNext
       /\ UNCHANGED <<subject, vars, planVars, cfgVars, segVars, opVars, agentVars>>
    \/ subject = "agents" /\ AgentNext
       /\ UNCHANGED <<subject, vars, planVars, cfgVars, segVars, opVars, buildVars>>

SuiteSpec == SuiteInit /\ [][SuiteNext]_<<subject, vars, planVars, cfgVars, segVars, opVars, buildVars,
                                         agentVars>>
=============================================================================
