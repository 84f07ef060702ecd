---------------------------- MODULE CanaryRollout ----------------------------
(***************************************************************************)
(* Canary rollout of an eBPF artifact by the orchestrator                  *)
(* (backend/orchestrator/internal/rollout/ebpf.go).  ApplyCanary records   *)
(* the request and starts a goroutine that applies the artifact to a first *)
(* group of targets, observes telemetry for a window, applies it to the    *)
(* rest, observes again, and takes back what it applied when a window ends *)
(* badly.                                                                  *)
(*                                                                         *)
(* Requests are stored under an id made of the plan and the second they    *)
(* arrive in; this module has one plan, so the id is the second.  The      *)
(* goroutine finds its record by that id.  The targets of a request are    *)
(* two groups, the canary and the rest.  What is published to NATS is      *)
(* recorded per group; no component of the repository consumes it.         *)
(* Telemetry is not matched to targets in the code, so any message counts; *)
(* of the totals, the verdict of evaluateSuccess is kept.                  *)
(***************************************************************************)
EXTENDS Naturals

CONSTANTS
    Reqs,           \* requests
    Single,         \* those with one target: no rest
    Http,           \* those that came through handleApplyEBPF
    MaxSecond,      \* bound on the clock
    MaxFaults,      \* bound on failed publishes
    None

ASSUME CanaryAssumption ==
    /\ Single \subseteq Reqs
    /\ Http \subseteq Reqs
    /\ MaxSecond \in Nat
    /\ MaxFaults \in Nat
    /\ None \notin Reqs \union 0 .. MaxSecond

VARIABLES
    second,         \* time.Now().Unix()
    active,         \* BPFRolloutManager.activeRollouts
    id,             \* RequestID of each request
    status,         \* ApplyResponse.Status
    completed,      \* the requests whose CompletedAt is set
    pc,             \* the goroutine of each request
    totals,         \* the verdict on the telemetry of the open window
    cancelled,      \* the requests whose context is cancelled
    told,           \* the last command published to each group
    faults,         \* failed publishes so far
    lost,           \* history: requests with a failed publish
    canaryGood,     \* history: requests whose canary window ended well
    cut             \* history: requests with a window cut short

book == <<active, id, status, completed>>
hist == <<lost, canaryGood, cut>>
vars == <<second, book, pc, totals, cancelled, told, faults, hist>>

Ids == 0 .. MaxSecond
Groups == {"canary", "rest"}
Outcomes == {"success", "failed", "rollback"}
Steps == {"none", "applyCanary", "watchCanary", "undoCanary", "applyRest", "watchAll",
          "undoAll", "complete", "end"} \union Outcomes

TypeOK ==
    /\ second \in Ids
    /\ active \in [Ids -> Reqs \union {None}]
    /\ id \in [Reqs -> Ids \union {None}]
    /\ status \in [Reqs -> {"pending"} \union Outcomes]
    /\ completed \subseteq Reqs
    /\ pc \in [Reqs -> Steps]
    /\ totals \in [Reqs -> {"none", "good", "bad"}]
    /\ cancelled \subseteq Http
    /\ told \in [Reqs -> [Groups -> {"none", "apply", "rollback"}]]
    /\ faults \in 0 .. MaxFaults
    /\ lost \subseteq Reqs /\ canaryGood \subseteq Reqs /\ cut \subseteq Reqs
    /\ \A r \in Reqs : pc[r] # "none" <=> id[r] # None

Init ==
    /\ second = 0
    /\ active = [i \in Ids |-> None]
    /\ id = [r \in Reqs |-> None]
    /\ status = [r \in Reqs |-> "pending"]
    /\ completed = {}
    /\ pc = [r \in Reqs |-> "none"]
    /\ totals = [r \in Reqs |-> "none"]
    /\ cancelled = {}
    /\ told = [r \in Reqs |-> [g \in Groups |-> "none"]]
    /\ faults = 0
    /\ lost = {} /\ canaryGood = {} /\ cut = {}

Clock ==
    /\ second < MaxSecond
    /\ second' = second + 1
    /\ UNCHANGED <<book, pc, totals, cancelled, told, faults, hist>>

(***************************************************************************)
(* ApplyCanary; and the end of the HTTP handler that called it, which      *)
(* cancels the context the goroutine goes on with.                         *)
(***************************************************************************)
ApplyCanary(r) ==
    /\ pc[r] = "none"
    /\ id' = [id EXCEPT ![r] = second]
    /\ active' = [active EXCEPT ![second] = r]
    /\ pc' = [pc EXCEPT ![r] = "applyCanary"]
    /\ UNCHANGED <<second, status, completed, totals, cancelled, told, faults, hist>>

HandlerReturns(r) ==
    /\ pc[r] # "none"
    /\ r \in Http \ cancelled
    /\ cancelled' = cancelled \union {r}
    /\ UNCHANGED <<second, book, pc, totals, told, faults, hist>>

Goto(r, n) == pc' = [pc EXCEPT ![r] = n]
GroupsOf(r) == IF r \in Single THEN {"canary"} ELSE Groups

(***************************************************************************)
(* applyToTargets publishes one message for the group; rollbackTargets one *)
(* for all its targets, and only logs an error.                            *)
(***************************************************************************)
Tell(r, groups, what) ==
    /\ told' = [told EXCEPT ![r] = [g \in Groups |-> IF g \in groups THEN what ELSE @[g]]]
    /\ UNCHANGED <<faults, lost>>

PublishFails(r) ==
    /\ faults < MaxFaults
    /\ faults' = faults + 1
    /\ lost' = lost \union {r}
    /\ UNCHANGED told

ApplyToTargets(r, from, group, to) ==
    /\ pc[r] = from
    /\ \/ Tell(r, {group}, "apply") /\ Goto(r, to)
       \/ PublishFails(r) /\ Goto(r, "failed")
    /\ totals' = [totals EXCEPT ![r] = "none"]
    /\ UNCHANGED <<second, book, cancelled, canaryGood, cut>>

RollbackTargets(r, from, groups) ==
    /\ pc[r] = from
    /\ Tell(r, groups, "rollback") \/ PublishFails(r)
    /\ Goto(r, "rollback")
    /\ UNCHANGED <<second, book, totals, cancelled, canaryGood, cut>>

ApplyToCanary(r) == ApplyToTargets(r, "applyCanary", "canary", "watchCanary")
ApplyToRest(r) == ApplyToTargets(r, "applyRest", "rest", "watchAll")
RollbackCanary(r) == RollbackTargets(r, "undoCanary", {"canary"})

\* Mutant: only the canary is taken back after the final window.
RollbackAll_Canary(r) == RollbackTargets(r, "undoAll", {"canary"})

RollbackAll(r) == RollbackTargets(r, "undoAll", GroupsOf(r))

(***************************************************************************)
(* observeCanaryTargets: telemetry is added up until the window ends or    *)
(* the context is cancelled; then evaluateSuccess.  No message at all is a *)
(* failure.                                                                *)
(***************************************************************************)
Watching(r) == pc[r] \in {"watchCanary", "watchAll"}

Telemetry(r, verdict) ==
    /\ Watching(r)
    /\ totals' = [totals EXCEPT ![r] = verdict]
    /\ UNCHANGED <<second, book, pc, cancelled, told, faults, hist>>

\* Mutant: the final window leads back to the first.
AfterWindow_Again(r) ==
    CASE pc[r] = "watchCanary" /\ totals[r] = "good" /\ r \notin Single -> "applyRest"
      [] pc[r] = "watchCanary" /\ totals[r] = "good" /\ r \in Single -> "watchAll"
      [] pc[r] = "watchCanary" /\ totals[r] # "good" -> "undoCanary"
      [] pc[r] = "watchAll" /\ totals[r] = "good" -> "success"
      [] pc[r] = "watchAll" /\ totals[r] # "good" -> "watchAll"

AfterWindow(r) ==
    CASE pc[r] = "watchCanary" /\ totals[r] = "good" /\ r \notin Single -> "applyRest"
      [] pc[r] = "watchCanary" /\ totals[r] = "good" /\ r \in Single -> "watchAll"
      [] pc[r] = "watchCanary" /\ totals[r] # "good" -> "undoCanary"
      [] pc[r] = "watchAll" /\ totals[r] = "good" -> "success"
      [] pc[r] = "watchAll" /\ totals[r] # "good" -> "undoAll"

WindowEnds(r, early) ==
    /\ Watching(r)
    /\ early => r \in cancelled
    /\ Goto(r, AfterWindow(r))
    /\ totals' = [totals EXCEPT ![r] = "none"]
    /\ canaryGood' = IF pc[r] = "watchCanary" /\ totals[r] = "good"
                     THEN canaryGood \union {r} ELSE canaryGood
    /\ cut' = IF early THEN cut \union {r} ELSE cut
    /\ UNCHANGED <<second, book, cancelled, told, faults, lost>>

\* nc.Subscribe fails: the window is over at once and counts as bad.
SubscribeFails(r) ==
    /\ Watching(r)
    /\ faults < MaxFaults
    /\ faults' = faults + 1
    /\ Goto(r, IF pc[r] = "watchCanary" THEN "undoCanary" ELSE "undoAll")
    /\ UNCHANGED <<second, book, totals, cancelled, told, hist>>

(***************************************************************************)
(* updateRolloutStatus and the deferred completion: whatever record is     *)
(* stored under the id of the goroutine.                                   *)
(***************************************************************************)
UpdateRolloutStatus(r) ==
    /\ pc[r] \in Outcomes
    /\ status' = [status EXCEPT ![active[id[r]]] = pc[r]]
    /\ Goto(r, "complete")
    /\ UNCHANGED <<second, active, id, completed, totals, cancelled, told, faults, hist>>

Complete(r) ==
    /\ pc[r] = "complete"
    /\ completed' = completed \union {active[id[r]]}
    /\ Goto(r, "end")
    /\ UNCHANGED <<second, active, id, status, totals, cancelled, told, faults, hist>>

Proceed(r) ==
    \/ ApplyToCanary(r)
    \/ ApplyToRest(r)
    \/ RollbackCanary(r)
    \/ RollbackAll(r)
    \/ \E early \in BOOLEAN : WindowEnds(r, early)
    \/ UpdateRolloutStatus(r)
    \/ Complete(r)

Next ==
    \/ Clock
    \/ \E r \in Reqs :
          \/ ApplyCanary(r)
          \/ HandlerReturns(r)
          \/ \E verdict \in {"good", "bad"} : Telemetry(r, verdict)
          \/ SubscribeFails(r)
          \/ Proceed(r)

Spec == Init /\ [][Next]_vars

(***************************************************************************)
(* A goroutine that can run does run, and a window of five minutes ends.   *)
(***************************************************************************)
CanaryFairness == \A r \in Reqs : WF_vars(Proceed(r))

FairSpec == Spec /\ CanaryFairness
-----------------------------------------------------------------------------
Alone(r) == id[r] # None /\ \A q \in Reqs \ {r} : id[q] # id[r]

(***************************************************************************)
(* The rest of the targets are told to apply an artifact only after the    *)
(* telemetry of the canary's window was judged good, whatever else is      *)
(* rolled out meanwhile and whichever publishes fail.                      *)
(***************************************************************************)
RestAfterCanary == \A r \in Reqs : told[r]["rest"] # "none" => r \in canaryGood

(***************************************************************************)
(* The recorded outcome is what was published, for a request that shares   *)
(* its id with no other and lost no message: success means every group was *)
(* told to apply, rollback that no group is left with the artifact; a      *)
(* request fails only when a message was lost.                             *)
(***************************************************************************)
OutcomeTruthful ==
    \A r \in Reqs : Alone(r) =>
       /\ status[r] = "success" => \A g \in GroupsOf(r) : told[r][g] = "apply"
       /\ status[r] = "rollback" /\ r \notin lost => \A g \in Groups : told[r][g] # "apply"
       /\ status[r] = "failed" => r \in lost

(***************************************************************************)
(* Every rollout with an id of its own comes to an end: an outcome and a   *)
(* completion time, whatever fails and whenever its context is cancelled.  *)
(***************************************************************************)
RolloutConcludes ==
    \A r \in Reqs :
       id[r] # None ~> (r \in completed /\ status[r] # "pending") \/ ~Alone(r)

(***************************************************************************)
(* Targets are rolled back for telemetry of a whole observation window.    *)
(***************************************************************************)
WindowKept == \A r \in Reqs : told[r]["canary"] = "rollback" => r \notin cut

(* A canary rollout is what it says: the rest follows a good canary only,  *)
(* and the recorded outcome is what the targets were told.                 *)
CanarySound ==
    /\ TypeOK
    /\ RestAfterCanary
    /\ OutcomeTruthful
==============================================================================
