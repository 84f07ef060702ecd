--------------------------- MODULE CorrelatorForward ---------------------------
(***************************************************************************)
(* What the correlator sends on (src/backend/correlator/internal:          *)
(* nats/subscriber_enhanced.go, rules/finding_generator.go,                *)
(* finding_publisher.go, decision_integration.go, finding_forwarder.go,    *)
(* mapsnapshot_synthesizer.go).                                            *)
(*                                                                         *)
(* Two subscriptions of etl.enriched deliver every message to a callback   *)
(* each.  A matching rule makes a finding that is stored, published, and,  *)
(* when it is grave enough, sent to the decision engine as a safeguard, to *)
(* the orchestrator as a map snapshot and to the decision engine again as  *)
(* a plan.  The NATS connection may go down between any two of these.      *)
(* Confidences are in hundredths, times in seconds.                        *)
(***************************************************************************)
EXTENDS Integers, FiniteSets, Sequences

CONSTANTS Incoming,   \* messages: records [id, host, record, enriched, top,
                      \* inner, dst, port, src]
          FwdRules,   \* sequence of rules: [id, hosts, excluded, conds, sev, conf, type, tags]
          MaxOutages, \* bound: times the connection goes down
          NoHostId    \* a message without host_id

(* What the loader's validation lets through: confidences between 0 and 1. *)
ASSUME ForwardAssumption ==
    LET rules == {FwdRules[i] : i \in DOMAIN FwdRules}
    IN  FwdRules \in Seq(rules) /\ \A r \in rules : r.conf \in 0..100

VARIABLES inbox,      \* per subscription: messages not yet delivered
          fwdJob,     \* what each callback is doing
          up,         \* the NATS connection is up
          outages,
          storedKeys, \* keys of the findings in the store
          published,  \* findings on correlator.findings
          safeguards, plans, mapsnapshots  \* messages sent on

fwdVars == <<inbox, fwdJob, up, outages, storedKeys, published, safeguards, plans, mapsnapshots>>

(* subscribeToEnrichedEvents and subscribeToPackageCVEEnriched: one subject. *)
Subscriptions == {"events", "packages"}

FwdInit ==
    /\ inbox = [s \in Subscriptions |-> Incoming]
    /\ fwdJob = [s \in Subscriptions |-> [stage |-> "idle"]]
    /\ up = TRUE /\ outages = 0 /\ storedKeys = {} /\ published = {}
    /\ safeguards = {} /\ plans = {} /\ mapsnapshots = {}

-----------------------------------------------------------------------------
(* Matching. *)

HostMatches(r, m) ==
    /\ m.host # NoHostId /\ m.host \notin r.excluded
    /\ r.hosts = {} \/ m.host \in r.hosts

(* ruleMatches: every condition holds of the message. *)
RuleMatchesEvent(r, m) == HostMatches(r, m) /\ r.conds \subseteq m.top

(* ruleMatchesPackageCVE: the record type is compared if both have one,    *)
(* and the conditions are looked up in the enrichment if there is one.     *)
RuleMatchesPackage(r, m) ==
    /\ HostMatches(r, m)
    /\ ("record_type" \in r.conds /\ m.record) => "record_type" \in m.top
    /\ m.enriched => r.conds \subseteq m.inner

-----------------------------------------------------------------------------
(* Grading a finding. *)

NetworkTypes == {"network", "connect", "network_scan", "port_scan", "reconnaissance",
                 "data_exfiltration", "lateral_movement"}

IsNetworkRisk(f) == f.type \in NetworkTypes \/ f.tags \cap NetworkTypes # {} \/ f.connects

Grave(f) == f.sev \in {"high", "critical"} /\ f.conf >= 70

(* DecisionIntegration.shouldProcess. *)
ShouldProcess(f) ==
    Grave(f) /\ (IsNetworkRisk(f) \/ f.type \in {"unauthorized_access", "privilege_escalation"})

(* FindingForwarder.shouldForward. *)
ShouldForward(f) ==
    Grave(f) /\ (IsNetworkRisk(f) \/ f.type \in {"unauthorized_access", "privilege_escalation"})

SafeguardType(f) ==
    CASE IsNetworkRisk(f) -> "network_restriction" [] OTHER -> "service_isolation"

(* calculatePriority, the same in both services; it may become negative. *)
Priority(f) ==
    (CASE f.sev = "critical" -> 1 [] f.sev = "high" -> 2 [] f.sev = "medium" -> 3
       [] f.sev = "low" -> 4 [] OTHER -> 5)
    + (IF f.conf > 90 THEN -1 ELSE IF f.conf < 80 THEN 1 ELSE 0)
    - (IF IsNetworkRisk(f) THEN 1 ELSE 0)

AutoApprove(f) == f.sev = "critical" /\ f.conf > 95

StrategyMode(f) ==
    CASE f.sev = "critical" /\ f.conf > 90 -> "conservative"
      [] f.sev = "high" /\ f.conf > 80     -> "aggressive"
      [] OTHER                             -> "balanced"

ShouldCreatePlan(f) == f.sev = "critical" \/ f.conf > 90

(* calculateTTL of the forwarder, which the synthesizer goes on from. *)
BaseTTL(f) ==
    LET base == CASE f.sev = "critical" -> 7200 [] f.sev = "medium" -> 1800
                  [] f.sev = "low" -> 900 [] OTHER -> 3600
    IN  IF f.conf > 90 THEN (base * 3) \div 2 ELSE IF f.conf < 80 THEN base \div 2 ELSE base

TTL(f) ==
    CASE f.type \in {"network_scan", "port_scan"} -> BaseTTL(f) * 2
      [] f.type = "data_exfiltration"             -> (BaseTTL(f) * 3) \div 2
      [] f.type = "reconnaissance"                -> (BaseTTL(f) * 4) \div 5
      [] OTHER                                    -> BaseTTL(f)

Edge(cidr, proto, port) == [cidr |-> cidr, proto |-> proto, port |-> port]

(* createDefaultEdges, by the type of the attack. *)
DefaultEdges(f) ==
    CASE f.type = "reconnaissance" ->
            {Edge("any", "tcp", p) : p \in {22, 23, 25, 53, 80, 443, 135, 139, 445, 1433, 3389}}
      [] f.type = "data_exfiltration" ->
            {Edge("any", "tcp", p) : p \in {21, 22, 23, 25, 53, 80, 443, 993, 995}}
      [] f.type = "lateral_movement" ->
            {Edge(c, "any", 0) : c \in {"10/8", "172.16/12", "192.168/16"}}
      [] OTHER -> {Edge("any", "any", 0)}

(* extractNetworkInfo: a missing or malformed port becomes 80. *)
DestPort(f) == IF f.port = 0 THEN 80 ELSE f.port

(* createNetworkEdges: a destination that parses becomes its own edge, a   *)
(* private one its /24; without one the defaults apply.                    *)
NetworkEdges(f) ==
    CASE f.dst = "none"    -> DefaultEdges(f)
      [] f.dst = "private" -> {Edge("subnet", "tcp", DestPort(f))}
      [] OTHER             -> {Edge("host", "tcp", DestPort(f))}

(* createAllowCIDRs. *)
AllowCIDRs(f) ==
    {Edge("any", "udp", 53)} \cup (IF f.src = "private" THEN {Edge("any", "tcp", 22)} ELSE {})

Bounded(c) == IF c > 100 THEN 100 ELSE IF c < 0 THEN 0 ELSE c

(* calculateConfidence. *)
DraftConfidence(f) ==
    Bounded(f.conf + (IF f.dst # "none" THEN 10 ELSE 0)
            + (CASE f.type \in {"network_scan", "port_scan"} -> 5
                 [] f.type = "data_exfiltration" -> 10 [] f.type = "reconnaissance" -> -5
                 [] OTHER -> 0))

(* SynthesizeMapSnapshot; it fails on a destination that does not parse. *)
Draft(f) == [edges |-> NetworkEdges(f), allow |-> AllowCIDRs(f), ttl |-> TTL(f),
             conf |-> DraftConfidence(f)]

(* The least lifetime, and the ports, that the validation accepts. *)
MinTTL == 60

PortNumbers == 0..65535

(* validateMapSnapshotDraft. *)
ValidDraft(d) ==
    d.edges # {} /\ d.ttl >= MinTTL /\ \A e \in d.edges : e.port \in PortNumbers

(* createMapSnapshotDraft and extractNetworkEdges: the forwarder's own     *)
(* draft needs a port next to the address and does not look at either.     *)
ForwarderDraft(f) ==
    [edges |-> IF f.dst = "none" \/ f.port = 0 THEN {Edge("any", "any", 0)}
               ELSE {Edge("host", "tcp", f.port)},
     ttl |-> BaseTTL(f), conf |-> f.conf]

(* createAdaptiveSafeguard. *)
Safeguard(f) ==
    [f |-> f, type |-> SafeguardType(f), prio |-> Priority(f), auto |-> AutoApprove(f),
     draft |-> IF IsNetworkRisk(f) THEN <<ForwarderDraft(f)>> ELSE <<>>]

(* GenerateFinding; Validate rejects none of the rules the loader accepts. *)
NewFinding(s, m, r) ==
    [msg |-> m.id, by |-> s, host |-> m.host, rule |-> r.id, sev |-> r.sev, conf |-> r.conf,
     type |-> r.type, tags |-> r.tags, connects |-> "connect" \in m.top, dst |-> m.dst,
     port |-> m.port, src |-> m.src]

-----------------------------------------------------------------------------

Outage ==
    /\ up /\ outages < MaxOutages /\ up' = FALSE /\ outages' = outages + 1
    /\ UNCHANGED <<inbox, fwdJob, storedKeys, published, safeguards, plans, mapsnapshots>>

Reconnect ==
    /\ ~up /\ up' = TRUE
    /\ UNCHANGED <<inbox, fwdJob, outages, storedKeys, published, safeguards, plans, mapsnapshots>>

(* handleEnrichedEvent and handlePackageCVEEnriched: a package record is   *)
(* handed by the first to the second; a message without host is dropped.   *)
Deliver(s, m) ==
    /\ fwdJob[s].stage = "idle" /\ m \in inbox[s] /\ up
    /\ inbox' = [inbox EXCEPT ![s] = @ \ {m}]
    /\ fwdJob' = IF m.host = NoHostId THEN fwdJob
                 ELSE [fwdJob EXCEPT ![s] = [stage |-> "match", msg |-> m, left |-> FwdRules]]
    /\ UNCHANGED <<up, outages, storedKeys, published, safeguards, plans, mapsnapshots>>

Matches(s, m, r) ==
    IF s = "packages" \/ m.record THEN RuleMatchesPackage(r, m) ELSE RuleMatchesEvent(r, m)

ProceedsAnyway(s) == TRUE

Proceeds(s) == up

(* processEnrichedEvent and processPackageCVEEnriched, one rule: the       *)
(* finding is stored, then published; the rest is left out if that fails.  *)
HandleRule(s) ==
    LET j == fwdJob[s]
        r == Head(j.left)
        f == NewFinding(s, j.msg, r)
    IN  /\ j.stage = "match"
        /\ \/ /\ j.left = <<>>
              /\ fwdJob' = [fwdJob EXCEPT ![s] = [stage |-> "idle"]]
              /\ UNCHANGED <<storedKeys, published>>
           \/ /\ j.left # <<>> /\ ~Matches(s, j.msg, r)
              /\ fwdJob' = [fwdJob EXCEPT ![s].left = Tail(@)]
              /\ UNCHANGED <<storedKeys, published>>
           \/ /\ j.left # <<>> /\ Matches(s, j.msg, r)
              /\ storedKeys' = storedKeys \cup {<<f.host, f.rule, f.sev>>}
              /\ published' = IF up THEN published \cup {f} ELSE published
              /\ fwdJob' = [fwdJob EXCEPT ![s] =
                     [stage |-> IF Proceeds(s) /\ ShouldProcess(f) THEN "forward" ELSE "match",
                      msg |-> j.msg, left |-> Tail(j.left), f |-> f]]
        /\ UNCHANGED <<inbox, up, outages, safeguards, plans, mapsnapshots>>

(* ForwardFinding: without a connection ProcessFinding ends with an error. *)
ForwardFinding(s) ==
    LET f == fwdJob[s].f
    IN  /\ fwdJob[s].stage = "forward"
        /\ safeguards' = IF up /\ ShouldForward(f) THEN safeguards \cup {Safeguard(f)} ELSE safeguards
        /\ fwdJob' = [fwdJob EXCEPT ![s].stage = IF up THEN "snapshot" ELSE "match"]
        /\ UNCHANGED <<inbox, up, outages, storedKeys, published, plans, mapsnapshots>>

(* publishMapSnapshot and publishDecisionPlan need the connection. *)
Sent(queue, msg) == IF up THEN queue \cup {msg} ELSE queue

(* createMapSnapshotForFinding: an error is counted and ProcessFinding     *)
(* goes on.                                                                *)
SendMapSnapshot(s) ==
    LET f == fwdJob[s].f
    IN  /\ fwdJob[s].stage = "snapshot"
        /\ mapsnapshots' = IF IsNetworkRisk(f) /\ f.dst # "bad" /\ ValidDraft(Draft(f))
                           THEN Sent(mapsnapshots, [f |-> f, draft |-> Draft(f)]) ELSE mapsnapshots
        /\ fwdJob' = [fwdJob EXCEPT ![s].stage = "plan"]
        /\ UNCHANGED <<inbox, up, outages, storedKeys, published, safeguards, plans>>

(* createDecisionPlan. *)
SendPlan(s) ==
    LET f == fwdJob[s].f
    IN  /\ fwdJob[s].stage = "plan"
        /\ plans' = IF ShouldCreatePlan(f)
                    THEN Sent(plans, [f |-> f, mode |-> StrategyMode(f), prio |-> Priority(f),
                                      auto |-> AutoApprove(f)]) ELSE plans
        /\ fwdJob' = [fwdJob EXCEPT ![s].stage = "match"]
        /\ UNCHANGED <<inbox, up, outages, storedKeys, published, safeguards, mapsnapshots>>

FwdNext ==
    \/ Outage \/ Reconnect
    \/ \E s \in Subscriptions :
          \/ \E m \in Incoming : Deliver(s, m)
          \/ HandleRule(s) \/ ForwardFinding(s) \/ SendMapSnapshot(s) \/ SendPlan(s)

FwdSpec == FwdInit /\ [][FwdNext]_fwdVars

-----------------------------------------------------------------------------

(* Whenever the connection goes down, what is sent on is a prefix of the   *)
(* chain: no plan and no map snapshot without the safeguard of the same    *)
(* finding, no safeguard for a finding that was not published.  It rests   *)
(* on the two services grading findings alike.                             *)
ChainInOrder ==
    /\ \A p \in plans \cup mapsnapshots : \E g \in safeguards : g.f = p.f
    /\ \A g \in safeguards : g.f \in published

(* A day: the lifetime of the safeguard a draft belongs to. *)
MaxTTL == 86400

(* Every map snapshot passes the orchestrator's demands: edges, at most    *)
(* fifty, a confidence between 0 and 1 and a time to live of at least a    *)
(* minute that ends before the safeguard it belongs to expires.            *)
SnapshotsValid ==
    \A p \in mapsnapshots :
        /\ p.draft.edges # {} /\ Cardinality(p.draft.edges) <= 50
        /\ p.draft.conf \in 0..100 /\ p.draft.ttl \in MinTTL..MaxTTL

(* Through outages between the stages, what follows a finding follows its  *)
(* safeguard, and every map snapshot is one the orchestrator accepts.      *)
ForwardingSound ==
    /\ ChainInOrder
    /\ SnapshotsValid
=============================================================================
