------------------------------ MODULE Segmenter ------------------------------
(***************************************************************************)
(* The segmenter: a stateless service that turns hosts, traffic flows and  *)
(* goals into ranked segmentation proposals, and a proposal into a plan.   *)
(* The maps of the code are functions; where the code ranges over a map or *)
(* sorts unstably, every order is possible.                                *)
(***************************************************************************)
EXTENDS Naturals, Sequences, FiniteSets, Filtering

CONSTANTS SegHosts,       \* sequences of hosts a request may carry
          SegFlows,       \* sequences of traffic flows a request may carry
          SegGoals,       \* sequences of goals a request may carry
          WordsOf,        \* label -> the words the assessments look for in it
          PrivateHosts,   \* destinations that parse as private addresses
          HighVolume,     \* 100 MB
          NoReply

VARIABLES segReq,         \* the last request to /propose
          segReply        \* its answer, or that of the plan made of it

segVars == <<segReq, segReply>>

HostRecord == [id : STRING, labels : SUBSET DOMAIN WordsOf, services : SUBSET STRING]
FlowRecord == [src : STRING, dst : STRING, port : Nat, bytes : Nat, at : Nat]

ASSUME SegAssumption ==
    /\ SegHosts \subseteq Seq(HostRecord)
    /\ SegFlows \subseteq Seq(FlowRecord)
    /\ SegGoals \subseteq Seq(STRING)

NoRequest == [hosts |-> << >>, flows |-> << >>, goals |-> << >>]

Words(host) == UNION {WordsOf[l] : l \in host.labels}

AssessCriticality(host) ==
    IF "critical" \in Words(host) \/ "db" \in host.services THEN "high"
    ELSE IF "web" \in host.services THEN "medium" ELSE "low"

(* The trusted labels are looked for first.                                *)
AssessTrustLevel(host) == IF "trusted" \in Words(host) THEN "high"
                          ELSE IF "external" \in Words(host) THEN "low" ELSE "medium"

(* topology.Hosts: of two hosts with one id the later stays.               *)
HostTable(hosts) == [i \in {hosts[j].id : j \in DOMAIN hosts} |->
    hosts[CHOOSE j \in DOMAIN hosts : /\ hosts[j].id = i
                                      /\ \A k \in (j + 1)..Len(hosts) : hosts[k].id # i]]

(* A destination that is no IP address counts as external.                 *)
ConnectionRisk(flow) == IF flow.dst \notin PrivateHosts THEN "high"
                        ELSE IF flow.bytes > HighVolume THEN "medium" ELSE "low"

ConnKey(flow) == <<flow.src, flow.dst, flow.port>>

(* A flow of a known connection adds to it; the risk stays the first one's. *)
MergedReplaces(conn, flow) == [conn EXCEPT !.volume = flow.bytes, !.last = flow.at]
Merged(conn, flow) == [conn EXCEPT !.volume = @ + flow.bytes, !.last = flow.at]

AddFlow(conns, flow) ==
    IF ConnKey(flow) \in DOMAIN conns
    THEN [conns EXCEPT ![ConnKey(flow)] = Merged(@, flow)]
    ELSE [k \in DOMAIN conns \cup {ConnKey(flow)} |->
            IF k = ConnKey(flow)
            THEN [volume |-> flow.bytes, first |-> flow.at, last |-> flow.at,
                  risk |-> ConnectionRisk(flow)]
            ELSE conns[k]]

ConnectionsUpTo(flows) ==
    LET f[i \in 0..Len(flows)] == IF i = 0 THEN [k \in {} |-> 0]
                                  ELSE AddFlow(f[i - 1], flows[i])
    IN  f

Connections(flows) == ConnectionsUpTo(flows)[Len(flows)]

(* A sum over the keys of a map, which the code ranges over in any order.  *)
SomeOf(keys) == CHOOSE k \in keys : TRUE
SumsOf(f, keys) ==
    LET sum[S \in SUBSET keys] == IF S = {} THEN 0
                                  ELSE f[SomeOf(S)] + sum[S \ {SomeOf(S)}]
    IN  sum

TotalOf(f, keys) == SumsOf(f, keys)[keys]

Volumes(conns) == [k \in DOMAIN conns |-> conns[k].volume]
HostTraffic(conns, h) == TotalOf(Volumes(conns), {k \in DOMAIN conns : k[1] = h \/ k[2] = h})
CountConnections(conns, h, side) == Cardinality({k \in DOMAIN conns : k[side] = h})

AnalyzeTopology(req) ==
    LET conns == Connections(req.flows) table == HostTable(req.hosts)
    IN  [conns |-> conns,
         hosts |-> [h \in DOMAIN table |->
             [criticality |-> AssessCriticality(table[h]),
              trust |-> AssessTrustLevel(table[h]),
              inbound |-> CountConnections(conns, h, 2),
              outbound |-> CountConnections(conns, h, 1),
              traffic |-> HostTraffic(conns, h)]]]
-----------------------------------------------------------------------------
Segment(name, hosts) == [name |-> name, hosts |-> hosts]

(* One segment per criticality that occurs, and the DMZ across them.       *)
Microsegmentation(top) ==
    LET hosts == top.hosts
        OfLevel(c) == {h \in DOMAIN hosts : hosts[h].criticality = c}
        dmz == {h \in DOMAIN hosts : hosts[h].trust = "low"}
    IN  {Segment(<<"criticality", c>>, OfLevel(c)) : c \in {hosts[h].criticality : h \in DOMAIN hosts}}
        \cup (IF dmz = {} THEN {} ELSE {Segment(<<"dmz">>, dmz)})

ZeroTrust(top) == {Segment(<<"host", h>>, {h}) : h \in DOMAIN top.hosts}

Proposal(strategy, segments) == [strategy |-> strategy, segments |-> segments]

(* The compliance and performance proposals are still empty.               *)
GenerateProposals(top, goals) ==
    LET Has(g) == g \in Elements(goals)
    IN  (IF Has("reduce_lateral_movement")
         THEN <<Proposal("microsegmentation", Microsegmentation(top)),
                Proposal("zero_trust", ZeroTrust(top))>> ELSE << >>)
        \o (IF Has("compliance") THEN <<Proposal("", {})>> ELSE << >>)
        \o (IF Has("performance") THEN <<Proposal("", {})>> ELSE << >>)

(* RiskReduction / ImplementationComplexity = 0.75 / (2 * segments): fewer *)
(* segments score higher, and none at all is +Inf.                         *)
Better(p, q) == Cardinality(p.segments) < Cardinality(q.segments)

(* sort.Slice is not stable: any order in which no later one is better.    *)
Orders(S) == {f \in [S -> S] : \A x \in S : \E y \in S : f[y] = x}
Ranked(ps) ==
    {s \in {[i \in DOMAIN ps |-> ps[f[i]]] : f \in Orders(DOMAIN ps)} :
        \A i, j \in DOMAIN ps : i < j => ~ Better(s[j], s[i])}
-----------------------------------------------------------------------------
SegInit == segReq = NoRequest /\ segReply = NoReply

(* POST /propose: 400 without hosts or without goals.  Nothing is kept     *)
(* between requests, so a behaviour has one of them.                       *)
ProposeSegmentation(req) ==
    /\ segReq = NoRequest
    /\ segReq' = req
    /\ IF req.hosts = << >> \/ req.goals = << >>
       THEN segReply' = NoReply
       ELSE LET top == AnalyzeTopology(req)
            IN  \E ps \in Ranked(GenerateProposals(top, req.goals)) :
                    segReply' = [topology |-> top, proposals |-> ps]

(* POST /plan for a proposal: steps, policies and rollback are empty yet.  *)
CreateSegmentationPlan(p) ==
    /\ segReply' = [plan |-> p, steps |-> << >>, policies |-> << >>]
    /\ UNCHANGED segReq

Proposed == segReply # NoReply /\ "proposals" \in DOMAIN segReply

SegNext ==
    \/ \E h \in SegHosts, f \in SegFlows, g \in SegGoals :
           ProposeSegmentation([hosts |-> h, flows |-> f, goals |-> g])
    \/ Proposed /\ \E i \in DOMAIN segReply.proposals : CreateSegmentationPlan(segReply.proposals[i])

SegSpec == SegInit /\ [][SegNext]_segVars
-----------------------------------------------------------------------------
LastGiven(h) == CHOOSE x \in Elements(segReq.hosts) : /\ x.id = h
    /\ \E j \in DOMAIN segReq.hosts : /\ segReq.hosts[j] = x
        /\ \A k \in DOMAIN segReq.hosts : segReq.hosts[k].id = h => k <= j

(* Every proposal that segments at all leaves no host of the request out:  *)
(* each is in exactly one criticality or host segment, and a host is in    *)
(* the DMZ, besides, exactly when the last record given under its id has   *)
(* an external label and no trusted one (generateMicrosegmentationProposal, *)
(* generateZeroTrustProposal over the topology's map).                     *)
EveryHostSegmented ==
    Proposed => \A i \in DOMAIN segReply.proposals :
        LET segs == segReply.proposals[i].segments IN
        segs # {} => \A h \in {x.id : x \in Elements(segReq.hosts)} :
            /\ Cardinality({s \in segs : s.name # <<"dmz">> /\ h \in s.hosts}) = 1
            /\ segReply.proposals[i].strategy = "microsegmentation" =>
                 ((\E s \in segs : s.name = <<"dmz">> /\ h \in s.hosts) <=>
                    ("external" \in Words(LastGiven(h)) /\ "trusted" \notin Words(LastGiven(h))))

(* Merging flows into connections neither loses nor invents traffic: the   *)
(* connections carry the bytes of all flows, and a host's total is the sum *)
(* of the flows it takes part in, one from it to itself counted once       *)
(* (analyzeTopology, calculateHostTraffic).                                *)
TrafficConserved ==
    Proposed =>
        LET flows == segReq.flows
            bytes == [i \in DOMAIN flows |-> flows[i].bytes]
            conns == segReply.topology.conns
        IN  /\ TotalOf(Volumes(conns), DOMAIN conns)
                 = TotalOf(bytes, DOMAIN flows)
            /\ \A h \in DOMAIN segReply.topology.hosts :
                 segReply.topology.hosts[h].traffic =
                     TotalOf(bytes, {i \in DOMAIN flows : h \in {flows[i].src, flows[i].dst}})

(* The division by a complexity of zero ranks the placeholders first: with *)
(* compliance or performance among the goals the best proposal is an empty *)
(* one, and only then (ProposeSegmentation's sort, calculateComplexity).   *)
PlaceholderRanksFirst ==
    (Proposed /\ segReply.proposals # << >>) =>
        (Head(segReply.proposals).segments = {}
            <=> Elements(segReq.goals) \cap {"compliance", "performance"} # {})

(* A segmentation response accounts for every host and every byte of its   *)
(* request, and a proposal without rules comes first in it, as the         *)
(* division by its complexity of zero has it.                              *)
SegmentsSound ==
    /\ EveryHostSegmented
    /\ TrafficConserved
    /\ PlaceholderRanksFirst
=============================================================================
