----------------------------- MODULE PackRollout -----------------------------
(***************************************************************************)
(* An agent (PackAgent) together with the status record the controller     *)
(* keeps of it (handlePostAgentPackStatus, backend/detection-pipeline/     *)
(* internal/api/controller_rollout.go).  Every post_status of the agent    *)
(* either reaches the controller, which merges the report with the record  *)
(* it has, or is lost; the agent does not look at the result.  The agent   *)
(* is the only writer of its record and waits for each post, so a report   *)
(* is merged in one step.                                                  *)
(***************************************************************************)
EXTENDS PackAgent

VARIABLE
    status          \* Store.AgentPackStatus of this agent

rolloutVars == <<vars, status>>

Status == [state : {"applied", "rejected", "incompatible", "stale"},
           active : Arts \union {None}, appliedOnce : BOOLEAN]

RolloutTypeOK ==
    /\ TypeOK
    /\ status \in Status \union {None}

RolloutInit == Init /\ status = None

(***************************************************************************)
(* The merge: the report replaces the record, but for the time of the last *)
(* application, which is carried over.  The previous and the last rejected *)
(* pack are left out.                                                      *)
(***************************************************************************)
\* Mutant: the time of the last application is not carried over.
Merged_Forgets(r) ==
    [state |-> r.state,
     active |-> r.active,
     appliedOnce |-> r.state = "applied"]

Merged(r) ==
    [state |-> r.state,
     active |-> r.active,
     appliedOnce |-> r.state = "applied" \/ (status # None /\ status.appliedOnce)]

Deliver == status' = Merged(ctx)
Lose == UNCHANGED status

\* A step of the cycle that posts: the report arrives or is lost.
Posting == (PostApplied \/ Post) /\ (Deliver \/ Lose)

\* The steps that do not post.
Silent ==
    \/ \E a \in Arts : Offer(a)
    \/ Start
    \/ LatestFails
    \/ UseCached
    \/ NeedArtifact
    \/ ArtifactFails(Incompatible)
    \/ ArtifactFails(Stale(before))
    \/ \E b \in Arts \union {Torn} : ArtifactBody(b)
    \/ WriteOpen
    \/ WriteDone
    \/ ReportApplied
    \/ EvalCached
    \/ WriteFails
    \/ Crash

RolloutNext == Posting \/ (Silent /\ Lose)

RolloutSpec == RolloutInit /\ [][RolloutNext]_rolloutVars

(***************************************************************************)
(* As in PackAgent; reports are not lost for ever.                         *)
(***************************************************************************)
Cycle == Posting \/ (Agent /\ Lose)
Reported == PostApplied /\ Deliver
RolloutFairness ==
    /\ WF_rolloutVars(Cycle)
    /\ SF_rolloutVars(Answered /\ Lose)
    /\ SF_rolloutVars(Delivered /\ Lose)
    /\ SF_rolloutVars(Reported)
RolloutFairSpec == RolloutSpec /\ RolloutFairness
-----------------------------------------------------------------------------
(***************************************************************************)
(* The controller shows a pack as applied only when the agent had verified *)
(* it.                                                                     *)
(***************************************************************************)
AppliedIsVerified ==
    status # None /\ status.state = "applied" => status.active \in Good \intersect offered

(***************************************************************************)
(* Once the controller knows that the agent has applied a pack it does not *)
(* forget it, whatever is reported later (controller_rollout.go:312).      *)
(***************************************************************************)
LastAppliedKept ==
    [][status # None /\ status.appliedOnce => status'.appliedOnce]_rolloutVars

(***************************************************************************)
(* When the controller stays with a pack the agent can verify, its record  *)
(* comes to say so, again and again (with the exception of Converges).     *)
(***************************************************************************)
StatusConverges ==
    \A a \in Good : <>[](latest = a) =>
       \/ []<>(status # None /\ status.state = "applied" /\ status.active = a)
       \/ <>Misled

(* The record of an agent at the controller: a pack shown as applied was   *)
(* offered and verified, and that one was applied is not forgotten,        *)
(* whatever posts are lost.                                                *)
RecordSound ==
    /\ [](RolloutTypeOK /\ AppliedIsVerified)
    /\ LastAppliedKept
=============================================================================
