-------------------------- MODULE PlatformCandidates --------------------------
(***************************************************************************)
(* The actions-api research feed and detection-candidate workflow: research*)
(* items are ingested, edited and promoted; a candidate goes from          *)
(* candidate_new over simulated and reviewed to signed, deployed, retired. *)
(* A signature needs every quality-gate field.                             *)
(***************************************************************************)
EXTENDS PlatformState, FiniteSets

CONSTANTS ResearchIds,     \* ids a client may give a research item
          SeedItems,       \* seedResearchItems: the items of a fresh server
          SentStatuses,    \* the research statuses clients send
          GateFields,      \* the gate fields an operator fills in by PATCH
          ResearchCap, CandidateCap, SimCap,     \* 200, 200, 10 in the code
          MaxCandidates,   \* bound: candidates ever created
          NoCandidate      \* an empty linked_candidate_id or source id

VARIABLES research,        \* PlatformData.Research
          candidates,      \* PlatformData.Candidates
          candidateCount   \* uuids handed out

ResearchStatuses == {"new", "scoped", "ready_for_pack", "promoted", "declined"}

ASSUME PlatformCandidatesAssumption ==
    /\ {ResearchCap, CandidateCap, SimCap} \subseteq Nat \ {0}
    /\ MaxCandidates \in Nat
    /\ SentStatuses \subseteq ResearchStatuses
    /\ NoCandidate \notin ResearchIds \cup Nat
    /\ SeedItems \in Seq([id : ResearchIds, status : ResearchStatuses, linked : {NoCandidate},
                          given : {NoCandidate}])

candidateVars == <<opEvents, research, candidates, candidateCount>>

(* candidateLifecycle: the forward transitions PATCH allows.               *)
Lifecycle(s) ==
    CASE s = "candidate_new" -> {"simulated", "retired"}
      [] s = "simulated"     -> {"reviewed", "simulated", "retired"}
      [] s = "reviewed"      -> {"signed", "simulated", "retired"}
      [] s = "signed"        -> {"deployed", "retired"}
      [] s = "deployed"      -> {"retired"}
      [] s = "retired"       -> {}
CandidateStatuses ==
    {"candidate_new", "simulated", "reviewed", "signed", "deployed", "retired"}

CanTransition(from, to) == from = to \/ to \in Lifecycle(from)

(* recomputeCandidateGate: the missing list is derived from the fields that*)
(* are filled in and from the simulations, and stored in the candidate.    *)
MissingFields(filled, sims) ==
    (GateFields \ filled) \cup (IF sims = 0 THEN {"simulation_run"} ELSE {})
WithGate(c) == [c EXCEPT !.missing = MissingFields(c.filled, c.sims)]

(* The rollout field of a candidate that was never deployed is empty.      *)
NoRollout == ""

NewCandidate(id, source, filled) ==
    WithGate([id |-> id, source |-> source, status |-> "candidate_new", packed |-> FALSE,
              rollout |-> NoRollout, sims |-> 0, filled |-> filled, missing |-> {}])

(* The handlers scan for the first entry with the id.                      *)
FirstWith(s, id) == LET at == {i \in DOMAIN s : s[i].id = id}
                    IN  {i \in at : \A j \in at : i <= j}

CandidateInit ==
    /\ opEvents = << >>
    /\ research = SeedItems
    /\ candidates = << >>
    /\ candidateCount = 0

-----------------------------------------------------------------------------
(* POST /platform/research-feed: the body is the whole item.  The id comes *)
(* from the client when it sends one, so two items may carry the same id,  *)
(* and so does a linked candidate; given remembers what it was.            *)
PostResearch(id, status, linked) ==
    /\ research' = Pushed(research, [id |-> id, status |-> status, linked |-> linked,
                                     given |-> linked], ResearchCap)
    /\ AppendOp("research.ingested", status, id)
    /\ UNCHANGED <<candidates, candidateCount>>

(* PATCH: the status is whatever the body says, in any order, or stays.    *)
PatchResearch(id, status) ==
    /\ \E i \in FirstWith(research, id) :
          /\ status \in SentStatuses \cup {research[i].status}
          /\ research' = [research EXCEPT ![i].status = status]
    /\ AppendOp("research.updated", status, id)
    /\ UNCHANGED <<candidates, candidateCount>>

(* POST .../promote: the first item with the id is promoted, and a seeded  *)
(* candidate becomes its linked candidate; the item's required evidence is *)
(* copied into the gate.                                                   *)
PromoteResearch(id, evidence) ==
    /\ candidateCount < MaxCandidates
    /\ candidateCount' = candidateCount + 1
    /\ candidates' = Pushed(candidates, NewCandidate(candidateCount', id, evidence), CandidateCap)
    /\ \E i \in FirstWith(research, id) :
          research' = [research EXCEPT ![i] = [@ EXCEPT !.status = "promoted",
                                                        !.linked = candidateCount']]
    /\ AppendOp("research.promoted", "promoted", id)

(* createDetectionCandidate: every item with the source id is linked to the*)
(* new candidate, and one that was ready for a pack counts as promoted.    *)
LinkedBack(item, source, id) ==
    IF source = NoCandidate \/ item.id # source THEN item
    ELSE [item EXCEPT !.linked = id,
                      !.status = IF @ = "ready_for_pack" THEN "promoted" ELSE @]

CreateCandidate(source, filled) ==
    /\ candidateCount < MaxCandidates
    /\ candidateCount' = candidateCount + 1
    /\ candidates' = Pushed(candidates, NewCandidate(candidateCount', source, filled), CandidateCap)
    /\ research' = [i \in DOMAIN research |-> LinkedBack(research[i], source, candidateCount')]
    /\ AppendOp("detection_candidate.created", "candidate_new", candidateCount')

(* patchDetectionCandidate with a status in the body: the gate is checked  *)
(* on the candidate as it was, then the same request may fill or clear     *)
(* fields, then the gate is stored anew.  The status it has already is     *)
(* always allowed, and signed needs the gate even then.                    *)
Patched(c, to, filled) ==
    WithGate([c EXCEPT !.status = to,
                       !.packed = @ \/ to = "signed",
                       !.rollout = IF to = "deployed" THEN "observe_only_active" ELSE @,
                       !.filled = filled])

PatchCandidate(id, to, filled) ==
    /\ \E i \in FirstWith(candidates, id) :
          /\ CanTransition(candidates[i].status, to)
          /\ to = "signed" => MissingFields(candidates[i].filled, candidates[i].sims) = {}
          /\ candidates' = [candidates EXCEPT ![i] = Patched(@, to, filled)]
    /\ AppendOp("detection_candidate.patched", to, id)
    /\ UNCHANGED <<research, candidateCount>>

(* The same without a status: nothing is checked.                          *)
Refilled(c, filled) == WithGate([c EXCEPT !.filled = filled])

RefillCandidate(id, filled) ==
    /\ \E i \in FirstWith(candidates, id) :
          /\ candidates' = [candidates EXCEPT ![i] = Refilled(@, filled)]
          /\ AppendOp("detection_candidate.patched", candidates[i].status, id)
    /\ UNCHANGED <<research, candidateCount>>

(* simulateDetectionCandidate: no transition check, the status becomes     *)
(* simulated from anywhere, then the gate is recomputed.                   *)
SimulatedStaleGate(c) ==
    [WithGate(c) EXCEPT !.status = "simulated", !.sims = IF @ < SimCap THEN @ + 1 ELSE @]
Simulated(c) ==
    WithGate([c EXCEPT !.status = "simulated", !.sims = IF @ < SimCap THEN @ + 1 ELSE @])

SimulateCandidate(id) ==
    /\ \E i \in FirstWith(candidates, id) :
          candidates' = [candidates EXCEPT ![i] = Simulated(@)]
    /\ AppendOp("detection_candidate.simulated", "simulated", id)
    /\ UNCHANGED <<research, candidateCount>>

(* retireDetectionCandidate: from any status; the gate is left alone.      *)
RetireCandidate(id) ==
    /\ \E i \in FirstWith(candidates, id) :
          candidates' = [candidates EXCEPT ![i].status = "retired", ![i].rollout = "retired"]
    /\ AppendOp("detection_candidate.retired", "retired", id)
    /\ UNCHANGED <<research, candidateCount>>

CandidateNext ==
    \/ \E id \in ResearchIds, status \in SentStatuses,
          linked \in {NoCandidate} \cup 1..candidateCount : PostResearch(id, status, linked)
    \/ \E id \in ResearchIds, status \in ResearchStatuses : PatchResearch(id, status)
    \/ \E id \in ResearchIds, filled \in SUBSET GateFields :
          PromoteResearch(id, filled)
    \/ \E id \in ResearchIds \cup {NoCandidate}, filled \in SUBSET GateFields :
          CreateCandidate(id, filled)
    \/ \E id \in 1..candidateCount :
          \/ \E to \in CandidateStatuses, filled \in SUBSET GateFields : PatchCandidate(id, to, filled)
          \/ \E filled \in SUBSET GateFields : RefillCandidate(id, filled)
          \/ SimulateCandidate(id)
          \/ RetireCandidate(id)
    \/ PostOperationalEvent /\ UNCHANGED <<research, candidates, candidateCount>>

CandidateSpec == CandidateInit /\ [][CandidateNext]_candidateVars
-----------------------------------------------------------------------------
(* The stored quality gate never lags behind the candidate: what the       *)
(* console shows as missing is what signing would check now, after any     *)
(* order of patches, simulations and retirements.                          *)
GateCurrent ==
    \A i \in DOMAIN candidates :
        candidates[i].missing = MissingFields(candidates[i].filled, candidates[i].sims)

(* A candidate that carries a pack id was simulated, and one that is signed*)
(* or deployed carries a pack, although /simulate may take a signed or     *)
(* deployed candidate back and a later PATCH may clear its gate fields.    *)
SignedWasSimulated ==
    \A i \in DOMAIN candidates :
        LET c == candidates[i] IN
        /\ c.packed => c.sims > 0
        /\ c.status \in {"signed", "deployed"} => c.packed

(* A research item never shows another item's candidate of the server's    *)
(* own doing: the linked candidate, while it is still listed, was opened   *)
(* from that item's id, even when two items share a client-chosen id, or   *)
(* is the one the client posted the item with.                             *)
LinkSound ==
    \A i \in DOMAIN research : \A j \in DOMAIN candidates :
        research[i].linked = candidates[j].id =>
            candidates[j].source = research[i].id \/ research[i].linked = research[i].given

(* The newest workflow event about a candidate reports the status it has.  *)
CandidateEventTypes == {"detection_candidate.created", "detection_candidate.patched",
                        "detection_candidate.simulated", "detection_candidate.retired"}
FeedTellsStatus ==
    \A i \in DOMAIN candidates :
        LastEvent(CandidateEventTypes, candidates[i].id) \subseteq {candidates[i].status}

(* The candidate workflow keeps its word whatever order simulate, PATCH    *)
(* and the research feed come in: gates are of the current fields, signed  *)
(* means simulated, links point back, the event feed shows the last        *)
(* status.                                                                 *)
CandidatesSound ==
    /\ GateCurrent
    /\ SignedWasSimulated
    /\ LinkSound
    /\ FeedTellsStatus
=============================================================================
