--------------------------- MODULE MCControlPlane ---------------------------
(***************************************************************************)
(* Components that keep their own state, checked side by side: the         *)
(* detection pipeline's snapshot file and rule evaluation, the actions     *)
(* API's agent registry, readiness and console workflows, the artifact     *)
(* files of the BPF registry, ingest's publishing and store, and the local *)
(* agent's telemetry queue. They share no state but the console's event    *)
(* feed, so a behaviour runs one of them, the subject, and leaves the      *)
(* others in their initial state.                                          *)
(***************************************************************************)
EXTENDS SnapshotFile, AgentRegistry, PlatformCandidates, PlatformBundles,
        PlatformDrafts, BpfRegistry, TelemetrySender, RuleEval, Ingest, FleetReadiness,
        TLC

VARIABLE subject   \* the component that runs in this behaviour

CONSTANTS d1, h1, e1, e2, e3

MCHostOf == d1 :> h1

MCUidRank == (d1 :> 1) @@ (h1 :> 2)

MCSeedItems ==
    << [id |-> "s1", status |-> "new", linked |-> NoCandidate, given |-> NoCandidate],
       [id |-> "s3", status |-> "ready_for_pack", linked |-> NoCandidate, given |-> NoCandidate] >>

\* New drafts with the decision history and the simulation of another one,
\* and without.
MCSentParts ==
    {[notes |-> "", matches |-> NoMatches, sims |-> << >>, history |-> << >>],
     [notes |-> "note", matches |-> "client", sims |-> <<"d1">>,
      history |-> <<[action |-> "simulated", keys |-> {"matches"}, before |-> "", after |-> "",
                     own |-> FALSE]>>]}

MCBatches == {<<e1, e1, e2>>, <<e2, e3>>}

MCStageRequests == {<<"d1", "d2">>, <<"d1", "d1">>}

MCHostLists == {<< >>, <<"h1", "h1">>, <<"h2">>}

\* Evidence and clauses for the rule evaluator: a process seen twice, with
\* and without its parent, and every kind of clause, one malformed.
Proc(g, p, w) == [kind |-> "process", guid |-> g, parent |-> p, words |-> w, port |-> 0]
Seen(k, w, p) == [kind |-> k, guid |-> NoGuid, parent |-> NoGuid, words |-> w, port |-> p]
Group(o, m, s) == [leaf |-> "group", op |-> o, min |-> m, of |-> s]
MCPool ==
    {Proc("g1", NoGuid, {"a"}), Proc("g2", "g1", {"b"}), Proc("g2", NoGuid, {"a"}),
     Proc(NoGuid, "g1", {"b"}), Seen("dns", {"a"}, 0), Seen("flow", {"b"}, 443),
     Seen("flow", {}, 22), Seen("sase", {"a"}, 0), Seen("ext", {"b"}, 0)}
MCClauses ==
    LET dns  == [leaf |-> "dns", words |-> {"a", "c"}]
        flow == [leaf |-> "flow", ports |-> {443}, hosts |-> {"b"}]
        any  == [leaf |-> "flow", has_any_flow |-> TRUE]
        sase == [leaf |-> "sase", words |-> {"a"}]
        ext  == [leaf |-> "ext", words |-> {"b"}]
        file == [leaf |-> "file"]
        both == Group("all_of", 0, <<sase, ext>>)
        odd  == Group("all_of", 0, <<dns, file>>)
    IN  {dns, flow, any, sase, ext, file, both, odd,
         [leaf |-> "process", names |-> {"b"}, parents |-> {"a"}],
         [leaf |-> "process", names |-> {"a"}],
         Group("any_of", 2, <<dns, flow, ext>>),
         Group("any_of", 0, <<any, both>>),
         Group("any_of", 0, <<ext, odd>>),
         Group("none_of", 0, <<any>>)}

-----------------------------------------------------------------------------
SuiteInit ==
    /\ subject \in {"file", "registry", "candidates", "bundles", "drafts", "artifacts",
                   "telemetry", "rules", "ingest", "readiness"}
    /\ Init
    /\ RegistryInit
    /\ CandidateInit
    /\ BundleInit
    /\ DraftInit
    /\ RegInit
    /\ TelemetryInit
    /\ EvidenceInit
    /\ IngestInit
    /\ ReadyInit
    /\ subject = "ingest" \/ backend = "file"

SuiteNext ==
    \/ subject = "file" /\ Next
       /\ UNCHANGED <<subject, registryVars, research, candidates, candidateCount, bundles,
                       bundleCount, lastWord, doubled, drafts, regVars, telemetryVars, evidence,
                       ingestVars, readyVars, opEvents>>
    \/ subject = "registry" /\ RegistryNext
       /\ UNCHANGED <<subject, vars, research, candidates, candidateCount, bundles,
                       bundleCount, lastWord, doubled, drafts, regVars, telemetryVars, evidence,
                       ingestVars, readyVars, opEvents>>
    \/ subject = "candidates" /\ CandidateNext
       /\ UNCHANGED <<subject, vars, registryVars, bundles, bundleCount, lastWord, doubled,
                       drafts, regVars, telemetryVars, evidence, ingestVars, readyVars>>
    \/ subject = "bundles" /\ BundleNext
       /\ UNCHANGED <<subject, vars, registryVars, research, candidates, candidateCount,
                       drafts, regVars, telemetryVars, evidence, ingestVars, readyVars>>
    \/ subject = "drafts" /\ DraftNext
       /\ UNCHANGED <<subject, vars, registryVars, research, candidates, candidateCount,
                       bundles, bundleCount, lastWord, doubled, regVars, telemetryVars, evidence,
                       ingestVars, readyVars>>
    \/ subject = "artifacts" /\ RegNext
       /\ UNCHANGED <<subject, vars, registryVars, research, candidates, candidateCount,
                       bundles, bundleCount, lastWord, doubled, drafts, telemetryVars, evidence,
                       ingestVars, readyVars, opEvents>>
    \/ subject = "telemetry" /\ TelemetryNext
       /\ UNCHANGED <<subject, vars, registryVars, research, candidates, candidateCount,
                       bundles, bundleCount, lastWord, doubled, drafts, regVars, evidence, ingestVars,
                       readyVars, opEvents>>
    \/ subject = "rules" /\ EvidenceNext
       /\ UNCHANGED <<subject, vars, registryVars, research, candidates, candidateCount,
                       bundles, bundleCount, lastWord, doubled, drafts, regVars, telemetryVars, ingestVars,
                       readyVars, opEvents>>
    \/ subject = "ingest" /\ IngestNext
       /\ UNCHANGED <<subject, vars, registryVars, research, candidates, candidateCount,
                       bundles, bundleCount, lastWord, doubled, drafts, regVars, telemetryVars, evidence,
                       readyVars, opEvents>>
    \/ subject = "readiness" /\ ReadyNext
       /\ UNCHANGED <<subject, vars, registryVars, research, candidates, candidateCount,
                       bundles, bundleCount, lastWord, doubled, drafts, regVars, telemetryVars, evidence,
                       ingestVars, opEvents>>

SuiteSpec == SuiteInit /\ [][SuiteNext]_<<subject, vars, registryVars, research, candidates,
             candidateCount, bundles, bundleCount, lastWord, doubled, drafts,
             regVars, telemetryVars, evidence, ingestVars, readyVars, opEvents>>
=============================================================================
