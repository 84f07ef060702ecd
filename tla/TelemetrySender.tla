--------------------------- MODULE TelemetrySender ---------------------------
(***************************************************************************)
(* The local agent's telemetry sender: goroutines of the agent offer       *)
(* events to a bounded channel without blocking, one loop publishes them.  *)
(* Events are numbered in the order in which they were offered.            *)
(***************************************************************************)
EXTENDS Naturals, Sequences, FiniteSets

CONSTANTS TelemetryCap,   \* capacity of the channel (1000)
          MaxTelemetry    \* bound: events offered

VARIABLES telemetryQueue, \* numbers of the events in the channel
          sendLoop,       \* "running", "stopping" (stopChan closed) or "stopped"
          linkUp,         \* does the NATS connection take what is published?
          offered,        \* events offered so far
          delivered,      \* numbers of the events published, in order
          reported,       \* losses somebody was told of: an error or a log line
          abandoned       \* events left in the channel when the loop ended

telemetryVars == <<telemetryQueue, sendLoop, linkUp, offered, delivered, reported, abandoned>>

ASSUME TelemetryAssumption == TelemetryCap \in Nat \ {0} /\ MaxTelemetry \in Nat

TelemetryInit ==
    /\ telemetryQueue = << >> /\ sendLoop = "running" /\ linkUp = TRUE
    /\ offered = 0 /\ delivered = << >>
    /\ reported = {} /\ abandoned = {}

(* SendProgramLoaded, ...Unloaded, ...Error, ...RolledBack, SendTelemetry, *)
(* and SendAgentHeartbeat, which the loop calls itself: the event goes in, *)
(* or the caller gets an error at once.  After the loop has ended events   *)
(* are still taken, and nobody ever reads them.                            *)
OfferDropsOldest(n) ==
    IF Len(telemetryQueue) < TelemetryCap
    THEN telemetryQueue' = Append(telemetryQueue, n) /\ UNCHANGED reported
    ELSE telemetryQueue' = Append(Tail(telemetryQueue), n) /\ UNCHANGED reported
Offer(n) ==
    IF Len(telemetryQueue) < TelemetryCap
    THEN telemetryQueue' = Append(telemetryQueue, n) /\ UNCHANGED reported
    ELSE reported' = reported \cup {n} /\ UNCHANGED telemetryQueue

SendEvent ==
    /\ offered < MaxTelemetry
    /\ offered' = offered + 1
    /\ Offer(offered + 1)
    /\ UNCHANGED <<sendLoop, linkUp, delivered, abandoned>>

SendAgentHeartbeat == sendLoop \in {"running", "stopping"} /\ SendEvent

(* publishEvent: a failure is logged, the event is not tried again.        *)
RetriedAtTail(n) == telemetryQueue' = Append(Tail(telemetryQueue), n) /\ UNCHANGED reported
FailedPublish(n) == telemetryQueue' = Tail(telemetryQueue) /\ reported' = reported \cup {n}

PublishEvent ==
    /\ sendLoop \in {"running", "stopping"} /\ telemetryQueue # << >>
    /\ IF linkUp
       THEN /\ delivered' = Append(delivered, Head(telemetryQueue))
            /\ telemetryQueue' = Tail(telemetryQueue) /\ UNCHANGED reported
       ELSE FailedPublish(Head(telemetryQueue)) /\ UNCHANGED delivered
    /\ UNCHANGED <<sendLoop, linkUp, offered, abandoned>>

(* Stop closes stopChan; select takes that case at some later turn, even   *)
(* with events in the channel.  A cancelled context ends it the same way.  *)
StopSender ==
    /\ sendLoop = "running" /\ sendLoop' = "stopping"
    /\ UNCHANGED <<telemetryQueue, linkUp, offered, delivered, reported, abandoned>>
LoopEnds ==
    /\ sendLoop = "stopping" /\ sendLoop' = "stopped"
    /\ abandoned' = {telemetryQueue[i] : i \in DOMAIN telemetryQueue}
    /\ UNCHANGED <<telemetryQueue, linkUp, offered, delivered, reported>>

LinkChanges ==
    /\ linkUp' = ~linkUp
    /\ UNCHANGED <<telemetryQueue, sendLoop, offered, delivered, reported, abandoned>>

TelemetryNext == SendEvent \/ SendAgentHeartbeat \/ PublishEvent
                 \/ StopSender \/ LoopEnds \/ LinkChanges

TelemetrySpec == TelemetryInit /\ [][TelemetryNext]_telemetryVars

(* The goroutine of the loop runs: an event in the channel is taken out.   *)
TelemetryFairness == WF_telemetryVars(PublishEvent)
-----------------------------------------------------------------------------
Numbers(s) == {s[i] : i \in DOMAIN s}

(* Subscribers see the events of an agent in the order in which they were  *)
(* offered, a program's rollback never before its load, and each once,     *)
(* whatever was lost in between (telemetryQueue, sendLoop).                *)
DeliveredInOrder == \A i, j \in DOMAIN delivered : i < j => delivered[i] < delivered[j]

(* While the loop runs no event vanishes silently: each is delivered, in   *)
(* the channel, or reported as an error to its caller or in the log; only  *)
(* what the channel held at the end, and what came later, is lost without  *)
(* a word (the select with default, publishEvent, Stop).                   *)
LossesAreTold ==
    LET known == Numbers(delivered) \cup Numbers(telemetryQueue) \cup reported
    IN  /\ 1..offered = known
        /\ abandoned \subseteq Numbers(telemetryQueue)
        /\ Numbers(delivered) \cap reported = {}

(* An event the channel took is delivered or reported lost in the end,     *)
(* however often the connection fails, unless the sender is stopped.       *)
QueuedIsDecided ==
    \A n \in 1..MaxTelemetry :
        n \in Numbers(telemetryQueue)
            ~> (n \in Numbers(delivered) \cup reported \/ sendLoop = "stopped")

(* The type invariant of the sender.                                       *)
SenderTypeOK ==
    /\ telemetryQueue \in Seq(Nat) /\ delivered \in Seq(Nat)
    /\ offered \in Nat /\ reported \subseteq Nat
    /\ sendLoop \in {"running", "stopping", "stopped"} /\ linkUp \in BOOLEAN

(* The channel is in order, after everything delivered, and holds nothing  *)
(* that was not offered or is reported lost.                               *)
InStep ==
    /\ \A i, j \in DOMAIN telemetryQueue : i < j => telemetryQueue[i] < telemetryQueue[j]
    /\ \A i \in DOMAIN delivered, j \in DOMAIN telemetryQueue : delivered[i] < telemetryQueue[j]
    /\ \A j \in DOMAIN telemetryQueue : telemetryQueue[j] <= offered /\ telemetryQueue[j] \notin reported
    /\ \A i \in DOMAIN delivered : delivered[i] <= offered
    /\ \A n \in reported : n <= offered
    /\ sendLoop # "stopped" => abandoned = {}

SenderInv == SenderTypeOK /\ InStep /\ DeliveredInOrder /\ LossesAreTold

(* The queue of the telemetry sender neither reorders nor repeats events,  *)
(* nor loses one without a word while its loop runs.                       *)
TelemetrySound ==
    /\ SenderTypeOK
    /\ DeliveredInOrder
    /\ LossesAreTold
=============================================================================
