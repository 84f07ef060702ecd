---------------------------- MODULE FleetReadiness ----------------------------
(***************************************************************************)
(* Agent readiness in the actions-api: six dimensions of one agent, scored *)
(* and put into a bucket, from its registry record, its visibility record  *)
(* in ingest and its pack status in the detection pipeline.  Ages are in   *)
(* ranks of the thresholds the code compares them with, Never for no time. *)
(***************************************************************************)
EXTENDS Naturals, Sequences, FiniteSets

CONSTANTS OnlineFor, OfflineAfter,     \* agentOnlineThreshold, agentOfflineThreshold
          HeartbeatWarn, HeartbeatBad, \* 5 and 30 minutes
          EventsWarn, EventsBad,       \* 10 and 60 minutes
          PackOld,                     \* 7 days
          AgeCap,                      \* bound: larger ages look alike
          Never

VARIABLES beatAge,   \* age of the last heartbeat
          rdEvents,  \* ingest's record: Never (none), or [age, types]
          rdPack,    \* pack status: Never (none), or [state, age]
          rdVersion, \* "unreported", "current" or "drifted"
          sources,   \* dependencies that answer: subset of {"ingest", "pipeline"}
          rdReply    \* what a request for the agent's readiness is answered now

factVars == <<beatAge, rdEvents, rdPack, rdVersion, sources>>
readyVars == <<factVars, rdReply>>

ASSUME FleetReadinessAssumption ==
    /\ {OnlineFor, HeartbeatWarn, EventsWarn, OfflineAfter, HeartbeatBad, EventsBad,
        PackOld, AgeCap} \subseteq Nat
    /\ OnlineFor <= HeartbeatWarn /\ OfflineAfter <= HeartbeatBad
    /\ PackOld < AgeCap

Ages == 0..AgeCap \cup {Never}
VisibilityRecord == [age : Ages, types : 0..2]
PackStates == {"applied", "rejected", "pending"}
PackRecord == [state : PackStates, age : Ages]

ASSUME NeverAssumption == Never \notin Nat \cup VisibilityRecord \cup PackRecord

Dimensions == <<"heartbeat", "event_ingestion", "detection_pack", "agent_version",
                "collectors", "connectivity">>
Weight == [heartbeat |-> 25, event_ingestion |-> 20, detection_pack |-> 15,
           agent_version |-> 10, collectors |-> 15, connectivity |-> 15]

Graded(age, warn, bad) == IF age < warn THEN "good" ELSE IF age < bad THEN "warn" ELSE "bad"

DimensionHeartbeat ==
    IF beatAge = Never THEN "unknown" ELSE Graded(beatAge, HeartbeatWarn, HeartbeatBad)

(* A dependency that does not answer leaves no record, as if there were none. *)
EventsSeen == IF "ingest" \in sources THEN rdEvents ELSE Never
PackSeen == IF "pipeline" \in sources THEN rdPack ELSE Never

DimensionEventIngestion ==
    IF EventsSeen = Never THEN "unknown"
    ELSE IF EventsSeen.age = Never THEN "bad"
    ELSE Graded(EventsSeen.age, EventsWarn, EventsBad)

DimensionDetectionPack ==
    IF PackSeen = Never THEN "unknown"
    ELSE IF PackSeen.state = "rejected" THEN "bad"
    ELSE IF PackSeen.state = "applied" /\ PackSeen.age # Never /\ PackSeen.age <= PackOld
         THEN "good"
    ELSE "warn"

DimensionAgentVersion == CASE rdVersion = "unreported" -> "unknown"
                           [] rdVersion = "current" -> "good"
                           [] OTHER -> "warn"

DimensionCollectorHealth ==
    IF EventsSeen = Never THEN "unknown"
    ELSE CASE EventsSeen.types = 0 -> "bad"
           [] EventsSeen.types = 1 -> "warn"
           [] OTHER -> "good"

(* agentConnectionStatus: an agent never heard of is offline.              *)
DimensionConnectivity ==
    IF beatAge = Never THEN "bad" ELSE Graded(beatAge, OnlineFor, OfflineAfter)

Dims == [heartbeat |-> DimensionHeartbeat, event_ingestion |-> DimensionEventIngestion,
         detection_pack |-> DimensionDetectionPack, agent_version |-> DimensionAgentVersion,
         collectors |-> DimensionCollectorHealth, connectivity |-> DimensionConnectivity]

Count(dims, state) == Cardinality({d \in DOMAIN dims : dims[d] = state})

Credit(state, w) == CASE state = "good" -> w [] state = "warn" -> w \div 2 [] OTHER -> 0

(* The weights add up to 100.                                              *)
Score(dims) ==
    LET Of(d) == Credit(dims[d], Weight[d])
    IN  Of("heartbeat") + Of("event_ingestion") + Of("detection_pack")
        + Of("agent_version") + Of("collectors") + Of("connectivity")

(* The bucket by counting, and the last check against the score.           *)
BucketUnscored(dims) ==
    IF dims.heartbeat = "bad" THEN "stale"
    ELSE IF Count(dims, "bad") >= 2 THEN "degraded"
    ELSE IF Count(dims, "bad") = 1 \/ Count(dims, "warn") >= 1 THEN "needs_attention"
    ELSE IF Count(dims, "unknown") = Len(Dimensions) THEN "unknown" ELSE "ready"
Bucket(dims) ==
    IF BucketUnscored(dims) = "ready" /\ Score(dims) < 80 THEN "needs_attention"
    ELSE BucketUnscored(dims)

(* The first dimension that is bad, else warn, else unknown; "" for none.  *)
FirstIn(dims, state) ==
    LET at == {i \in DOMAIN Dimensions : dims[Dimensions[i]] = state}
    IN  IF at = {} THEN "" ELSE Dimensions[CHOOSE i \in at : \A j \in at : i <= j]
PickFixFirst(dims) ==
    IF FirstIn(dims, "bad") # "" THEN FirstIn(dims, "bad")
    ELSE IF FirstIn(dims, "warn") # "" THEN FirstIn(dims, "warn")
    ELSE FirstIn(dims, "unknown")

ComputeAgentReadiness(dims) ==
    [dims |-> dims, bucket |-> Bucket(dims), score |-> Score(dims),
     fix |-> IF Bucket(dims) = "ready" THEN "" ELSE PickFixFirst(dims)]
-----------------------------------------------------------------------------
ReadyInit ==
    /\ beatAge = Never /\ rdEvents = Never /\ rdPack = Never
    /\ rdVersion = "unreported"
    /\ sources = {"ingest", "pipeline"}
    /\ rdReply = ComputeAgentReadiness(Dims)

Older(age) == IF age = Never \/ age = AgeCap THEN age ELSE age + 1

TimePasses ==
    /\ beatAge' = Older(beatAge)
    /\ rdEvents' = IF rdEvents = Never THEN Never ELSE [rdEvents EXCEPT !.age = Older(@)]
    /\ rdPack' = IF rdPack = Never THEN Never ELSE [rdPack EXCEPT !.age = Older(@)]
    /\ UNCHANGED <<rdVersion, sources>>

AgentBeats(v) ==
    /\ beatAge' = 0 /\ rdVersion' = v
    /\ UNCHANGED <<rdEvents, rdPack, sources>>

(* ingest keeps a device record, with or without events of some types.     *)
DeviceRecorded(age, types) ==
    /\ rdEvents' = [age |-> age, types |-> types]
    /\ UNCHANGED <<beatAge, rdPack, rdVersion, sources>>

PackReported(state, age) ==
    /\ rdPack' = [state |-> state, age |-> age]
    /\ UNCHANGED <<beatAge, rdEvents, rdVersion, sources>>

Answering(up) ==
    /\ sources' = up
    /\ UNCHANGED <<beatAge, rdEvents, rdPack, rdVersion>>

FactsChange ==
    \/ TimePasses
    \/ \E v \in {"unreported", "current", "drifted"} : AgentBeats(v)
    \/ \E rec \in {<<Never, 0>>, <<0, 1>>, <<0, 2>>} : DeviceRecorded(rec[1], rec[2])
    \/ \E s \in PackStates, age \in {0, Never} : PackReported(s, age)
    \/ \E up \in SUBSET {"ingest", "pipeline"} : Answering(up)

ReadyNext == FactsChange /\ \E d \in {Dims'} : rdReply' = ComputeAgentReadiness(d)

ReadySpec == ReadyInit /\ [][ReadyNext]_readyVars
-----------------------------------------------------------------------------
BucketRank == [stale |-> 0, degraded |-> 1, needs_attention |-> 2, unknown |-> 3, ready |-> 4]

(* What "ready" vouches for: the heartbeat, the telemetry, the collectors  *)
(* and the connection are good, no matter which of the dependencies        *)
(* answered, and so are the pack and the version where they are known, as  *)
(* one of them is.  This is less than the file's comment (line 11, "all    *)
(* critical dimensions healthy") and the summary it sends with a ready     *)
(* agent (line 295, "detection pack ... all green") say: bucketize counts  *)
(* an unknown dimension neither as bad nor as warn, so an agent without a  *)
(* pack status, or while the pipeline does not answer, is ready.           *)
ReadyIsTrustworthy ==
    rdReply.bucket = "ready" =>
        /\ \A d \in {"heartbeat", "event_ingestion", "collectors", "connectivity"} :
               rdReply.dims[d] = "good"
        /\ PackSeen # Never => rdReply.dims.detection_pack = "good"
        /\ rdVersion # "unreported" => rdReply.dims.agent_version = "good"
        /\ PackSeen # Never \/ rdVersion # "unreported"

(* An agent that is not ready always comes with something to fix first     *)
(* (pickFixFirst), which is what lets handleAgentReadinessFleet list it    *)
(* among its hotspots, the worst eight of which it sends.                  *)
NotReadyNamesFix == rdReply.bucket # "ready" => rdReply.fix # ""

(* Time alone never makes an agent look better: without new data neither   *)
(* its score rises nor its place in the order of buckets (the dimensions'  *)
(* thresholds, bucketize).                                                 *)
NeglectNeverImproves ==
    [][ TimePasses => /\ rdReply'.score <= rdReply.score
                      /\ BucketRank[rdReply'.bucket] <= BucketRank[rdReply.bucket] ]_readyVars

(* Ready needs fresh data, though not a known pack; everything else names  *)
(* what to fix, and an agent never looks better for having been neglected. *)
ReadinessSound ==
    /\ [](ReadyIsTrustworthy /\ NotReadyNamesFix)
    /\ NeglectNeverImproves
=============================================================================
