---------------------------- MODULE PlatformAgents ----------------------------
(***************************************************************************)
(* The actions-api governed agent harness: privacy settings, AI providers, *)
(* and runs of the six system agents.  A run is not one critical section:  *)
(* the harness reads the privacy settings twice, the default provider once *)
(* and the candidates once, each under its own lock, calls its tools in    *)
(* order, and the caller then records the job, the run and the audit.      *)
(***************************************************************************)
EXTENDS PlatformState, FiniteSets

CONSTANTS Requests,          \* in-flight HTTP requests
          AskedAgents,       \* agents that requests name, an unknown one among them
          ProviderIds,       \* providers that can be the default
          NamedCandidates,   \* candidate ids a request may name
          AuditCap, RunCap,  \* 500 and 400 in the code
          MaxRuns,           \* bound: runs started
          MaxSettings,       \* bound: changes of settings and candidates
          NoRun              \* an idle request

VARIABLES privacy,           \* PlatformData.Privacy: [ext, redact]
          provider,          \* PlatformData.DefaultProvider
          candidateIds,      \* ids in PlatformData.Candidates
          harness,           \* Requests -> the RunRecord being built, or NoRun
          jobs, runs,        \* AgentHarnessJobs, AgentHarnessRuns
          audit,             \* PlatformData.Audit
          runCount, settingCount,
          consent            \* ghost: requests during which external AI was allowed

agentVars == <<opEvents, privacy, provider, candidateIds, harness, jobs, runs, audit, runCount,
               settingCount, consent>>

ASSUME PlatformAgentsAssumption ==
    /\ {AuditCap, RunCap} \subseteq Nat \ {0}
    /\ {MaxRuns, MaxSettings} \subseteq Nat

ToolSummary == "read.device_evidence_summary"
ToolPaths   == "read.findings_evidence_paths"
ToolLookup  == "read.detection_candidate_lookup"

(* SystemAgents: AllowedTools, in order, which is also toolsInOrder.       *)
AgentTools(agent) ==
    CASE agent = "endpoint_analyst"     -> <<ToolSummary, ToolPaths, ToolLookup>>
      [] agent = "detection_researcher" -> <<ToolPaths, ToolLookup>>
      [] agent = "pack_author"          -> <<ToolLookup>>
      [] agent = "simulation_agent"     -> <<ToolSummary, ToolPaths>>
      [] agent = "control_designer"     -> <<ToolPaths, ToolSummary>>
      [] agent = "governance_reviewer"  -> <<ToolSummary, ToolLookup>>
      [] OTHER                          -> << >>
ToolsInOrder(agent) == AgentTools(agent)
ToolAllowed(agent, tool) == \E n \in DOMAIN AgentTools(agent) : AgentTools(agent)[n] = tool

AgentInit ==
    /\ opEvents = << >>
    /\ privacy = [ext |-> FALSE, redact |-> TRUE]
    /\ provider = "local"
    /\ candidateIds = {}
    /\ harness = [q \in Requests |-> NoRun]
    /\ jobs = << >> /\ runs = << >> /\ audit = << >>
    /\ runCount = 0 /\ settingCount = 0
    /\ consent = {}

AppendAudit(s, action) == Pushed(s, action, AuditCap)
-----------------------------------------------------------------------------
(* PUT /platform/ai/privacy: the whole settings record is replaced.        *)
UpdatePrivacy(ext, redact) ==
    /\ settingCount < MaxSettings
    /\ settingCount' = settingCount + 1
    /\ privacy' = [ext |-> ext, redact |-> redact]
    /\ audit' = AppendAudit(audit, "privacy_settings_update")
    /\ consent' = IF ext THEN {q \in Requests : harness[q] # NoRun} \cup consent ELSE consent
    /\ UNCHANGED <<opEvents, provider, candidateIds, harness, jobs, runs, runCount>>

(* POST /platform/ai/providers/configure; nothing checks the id.           *)
ConfigureProvider(p) ==
    /\ settingCount < MaxSettings
    /\ settingCount' = settingCount + 1
    /\ provider' = p
    /\ audit' = AppendAudit(audit, "ai_default_provider")
    /\ UNCHANGED <<opEvents, privacy, candidateIds, harness, jobs, runs, runCount, consent>>

(* POST /platform/ai/providers and .../test: the provider entry (name,     *)
(* enabled, secret, health) is read by no run; the audit record stays.     *)
ProviderAdmin(what) ==
    /\ settingCount < MaxSettings
    /\ settingCount' = settingCount + 1
    /\ audit' = AppendAudit(audit, what)
    /\ UNCHANGED <<opEvents, privacy, provider, candidateIds, harness, jobs, runs, runCount, consent>>

(* Candidates come and go while a run is in flight (PlatformCandidates).   *)
CandidatesChange(c) ==
    /\ settingCount < MaxSettings
    /\ settingCount' = settingCount + 1
    /\ candidateIds' = IF c \in candidateIds THEN candidateIds \ {c} ELSE candidateIds \cup {c}
    /\ UNCHANGED <<opEvents, privacy, provider, harness, jobs, runs, audit, runCount, consent>>

(* Harness.Run up to the first lock: an unknown agent is refused and leaves*)
(* no record.  via says which handler called: the analyst or the jobs API. *)
StartHarness(q, agent, named, via) ==
    /\ harness[q] = NoRun
    /\ runCount < MaxRuns
    /\ AgentTools(agent) # << >>
    /\ runCount' = runCount + 1
    /\ harness' = [harness EXCEPT ![q] =
           [id |-> runCount', agent |-> agent, named |-> named, via |-> via, pc |-> "preview",
            redacted |-> FALSE, ext |-> FALSE, provider |-> "", plan |-> ToolsInOrder(agent),
            called |-> << >>, status |-> "running", job |-> "running", evidence |-> {}]]
    /\ consent' = IF privacy.ext THEN consent \cup {q} ELSE consent \ {q}
    /\ UNCHANGED <<opEvents, privacy, provider, candidateIds, jobs, runs, audit, settingCount>>

(* RedactJSONPreview, AllowExternalAI and DefaultProviderKind: three reads,*)
(* three critical sections.                                                *)
ExtByProvider(p, kind) == kind # "local"
AllowExternalAI(p, kind) == p.ext

ReadSettings(q) ==
    /\ harness[q] # NoRun
    /\ LET r == harness[q] IN
       \/ /\ r.pc = "preview"
          /\ harness' = [harness EXCEPT ![q] = [r EXCEPT !.redacted = privacy.redact, !.pc = "allow"]]
       \/ /\ r.pc = "allow"
          /\ harness' = [harness EXCEPT ![q] = [r EXCEPT !.ext = AllowExternalAI(privacy, provider),
                                                         !.pc = "provider"]]
       \/ /\ r.pc = "provider"
          /\ harness' = [harness EXCEPT ![q] = [r EXCEPT !.provider = provider, !.pc = "tools"]]
    /\ UNCHANGED <<opEvents, privacy, provider, candidateIds, jobs, runs, audit, runCount, settingCount,
                   consent>>

(* DetectionCandidateLookup: by id, or the newest five.  A named candidate *)
(* that does not exist is answered with found = false and its id.          *)
Lookup(named) == IF named # "" THEN {named} ELSE candidateIds

(* invokeTool, and the evidence BuildEvidenceBoundConclusion takes from it.*)
EvidenceFrom(tool, named) ==
    IF tool = ToolLookup THEN Lookup(named) ELSE {tool}

InvokeTool(q) ==
    /\ harness[q] # NoRun
    /\ LET r == harness[q]
           tool == r.plan[Len(r.called) + 1]
       IN  /\ r.pc = "tools"
           /\ harness' = [harness EXCEPT ![q] =
                 IF ~ToolAllowed(r.agent, tool) THEN [r EXCEPT !.status = "failed", !.pc = "record"]
                 ELSE [r EXCEPT !.called = Append(@, tool),
                                !.evidence = @ \cup EvidenceFrom(tool, r.named),
                                !.pc = IF Len(r.called) + 1 = Len(r.plan) THEN "validate" ELSE "tools"]]
    /\ UNCHANGED <<opEvents, privacy, provider, candidateIds, jobs, runs, audit, runCount, settingCount,
                   consent>>

(* BuildEvidenceBoundConclusion always acknowledges the missing process    *)
(* telemetry and three safety boundaries, so ValidateEvidenceBoundConclusion*)
(* accepts it whether or not the run is product impacting.                 *)
Conclusion(r) == [evidence |-> r.evidence, missing |-> {"process_telemetry"}, safety |-> 3]
ValidConclusion(c) == c.evidence \cup c.missing # {} /\ c.safety > 0

ConcludeRun(q) ==
    /\ harness[q] # NoRun
    /\ harness[q].pc = "validate"
    /\ LET verdict == IF ValidConclusion(Conclusion(harness[q])) THEN "completed" ELSE "failed"
       IN  harness' = [harness EXCEPT ![q].status = verdict, ![q].job = verdict, ![q].pc = "record"]
    /\ UNCHANGED <<opEvents, privacy, provider, candidateIds, jobs, runs, audit, runCount, settingCount,
                   consent>>

(* runAgentHarness: the job and the run are recorded together.             *)
RecordRun(q) ==
    /\ harness[q] # NoRun
    /\ LET r == harness[q] IN
       /\ r.pc = "record"
       /\ jobs' = Pushed(jobs, [id |-> r.id, status |-> r.job], RunCap)
       /\ runs' = Pushed(runs, [id |-> r.id, status |-> r.status, agent |-> r.agent, ext |-> r.ext,
                                called |-> r.called, consented |-> q \in consent], RunCap)
       /\ harness' = [harness EXCEPT ![q] = IF r.via = "analyst" THEN [r EXCEPT !.pc = "audit"] ELSE NoRun]
    /\ UNCHANGED <<opEvents, privacy, provider, candidateIds, audit, runCount, settingCount, consent>>

(* handleEndpointEvidenceAnalyst: a completed run gets an audit record and *)
(* a second one by a plain append, without the trim.                       *)
AuditAnalyst(q) ==
    /\ harness[q] # NoRun
    /\ harness[q].pc = "audit"
    /\ audit' = IF harness[q].status # "completed" THEN AppendAudit(audit, "analyst_failed")
                ELSE Append(AppendAudit(audit, "analyst"), "ai_run_completed")
    /\ harness' = [harness EXCEPT ![q] = NoRun]
    /\ UNCHANGED <<opEvents, privacy, provider, candidateIds, jobs, runs, runCount, settingCount, consent>>

AgentNext ==
    \/ \E ext, redact \in BOOLEAN : UpdatePrivacy(ext, redact)
    \/ \E p \in ProviderIds : ConfigureProvider(p)
    \/ \E what \in {"ai_provider_upsert", "ai_provider_test"} : ProviderAdmin(what)
    \/ \E c \in NamedCandidates : CandidatesChange(c)
    \/ \E q \in Requests :
          \/ \E agent \in AskedAgents, named \in NamedCandidates \cup {""} : StartHarness(q, agent, named, "jobs")
          \/ StartHarness(q, "endpoint_analyst", "", "analyst")
          \/ ReadSettings(q)
          \/ InvokeTool(q)
          \/ ConcludeRun(q)
          \/ RecordRun(q)
          \/ AuditAnalyst(q)

AgentSpec == AgentInit /\ [][AgentNext]_agentVars
-----------------------------------------------------------------------------
(* Every recorded job has ended, and its status is its run's: nothing is   *)
(* left "running" in the job list whatever fails on the way.               *)
HarnessSettles ==
    /\ \A i \in DOMAIN jobs : jobs[i].status \in {"completed", "failed"}
    /\ [i \in DOMAIN jobs |-> jobs[i].id] = [i \in DOMAIN runs |-> runs[i].id]
    /\ \A i \in DOMAIN jobs : jobs[i].status = runs[i].status

(* A run that says it used an external model did so while the privacy      *)
(* settings allowed it at some moment of that run.                         *)
ExternalNeedsConsent ==
    \A i \in DOMAIN runs : runs[i].ext => runs[i].consented

(* The privacy audit never exceeds its cap by more than the one record that*)
(* is appended without a trim, however often analysts run.                 *)
AuditBounded == Len(audit) <= AuditCap + 1

(* Whatever settings change during a run: no job is left running, no       *)
(* evidence goes to an external model without consent, and the audit list  *)
(* keeps its limit.                                                        *)
HarnessSound ==
    /\ HarnessSettles
    /\ ExternalNeedsConsent
    /\ AuditBounded
=============================================================================
