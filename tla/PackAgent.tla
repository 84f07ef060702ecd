------------------------------ MODULE PackAgent ------------------------------
(***************************************************************************)
(* The dynamic detection-pack cycle of the Linux agent                     *)
(* (agents/linux-agent/src/dynamic_pack/pipeline.rs and cache.rs; the      *)
(* Windows agent has the same code).  Once per collection the agent asks   *)
(* the controller for the latest compatible pack, downloads and verifies   *)
(* it, moves the active pack of its cache to "previous", writes the new    *)
(* one, reports its status and evaluates a verified pack.  Whenever the    *)
(* controller gives it nothing it can use, it falls back to the cache.     *)
(*                                                                         *)
(* The cache is four files written one after the other with fs::write      *)
(* (truncate, then write), so a crash or a failed write leaves any of them *)
(* torn or the pack and its metadata of different artifacts.               *)
(*                                                                         *)
(* An artifact stands for its bytes, its digest and its metadata.  What    *)
(* can be verified is a constant of an agent: its public key, its version  *)
(* and its operating system do not change (Good).  The cycle without a     *)
(* controller URL is the one whose first request fails.                    *)
(***************************************************************************)
EXTENDS Naturals

CONSTANTS
    Arts,           \* the signed artifacts
    Good,           \* those this agent can verify and may run
    MaxFaults,      \* bound on crashes and failed writes
    None,           \* no file, no artifact
    Torn            \* a file that is truncated or partly written

ASSUME ArtsAssumption == Good \subseteq Arts /\ None \notin Arts /\ Torn \notin Arts /\ None # Torn
ASSUME NoneAssumption == None \notin [bytes : Arts \union {Torn}, meta : Arts]
ASSUME AgentBounds == MaxFaults \in Nat

VARIABLES
    latest,         \* the artifact the controller selects for this agent now
    offered,        \* history: the artifacts it has selected so far
    reoffered,      \* history: has it gone back to one of them?
    file,           \* the four files of the cache
    pc,             \* where the cycle is
    slot,           \* the file being written
    before,         \* active_before: what load_active returned
    offer,          \* the answer to GET latest
    ctx,            \* the RolloutContext to report
    evaluated,      \* the pack of the last evaluation
    cached,         \* history: the last artifact all of whose files were written
    faults          \* crashes and failed writes so far

agentVars == <<file, pc, slot, before, offer, ctx, evaluated, cached, faults>>
controller == <<latest, offered, reoffered>>
vars == <<controller, agentVars>>

Slots == {"prevPack", "prevMeta", "actPack", "actMeta"}
Content == Arts \union {None, Torn}
Loaded == [bytes : Arts \union {Torn}, meta : Arts]
Report == [state : {"applied", "rejected", "incompatible", "stale"},
           active : Arts \union {None}]
NoReport == [state |-> "stale", active |-> None]

TypeOK ==
    /\ latest \in Arts \union {None}
    /\ offered \subseteq Arts
    /\ reoffered \in BOOLEAN
    /\ file \in [Slots -> Content]
    /\ pc \in {"idle", "latest", "artifact", "open", "write", "applied",
               "postEval", "post", "postAgain", "evalCached"}
    /\ slot \in Slots
    /\ before \in Loaded \union {None}
    /\ offer \in Arts \union {None}
    /\ ctx \in Report
    /\ evaluated \in Arts \union {None}
    /\ cached \in Arts \union {None}
    /\ faults \in 0 .. MaxFaults
    /\ pc \in {"open", "write", "applied"} => offer # None
    /\ pc \in {"open", "write"} /\ slot \in {"prevPack", "prevMeta"} => before # None

Init ==
    /\ latest = None
    /\ offered = {}
    /\ reoffered = FALSE
    /\ file = [s \in Slots |-> None]
    /\ pc = "idle"
    /\ slot = "prevPack"
    /\ before = None
    /\ offer = None
    /\ ctx = NoReport
    /\ evaluated = None
    /\ cached = None
    /\ faults = 0

(***************************************************************************)
(* load_active and load_previous: a missing pack file is no pack, missing  *)
(* or unparsable metadata an error; the bytes are not looked at.           *)
(***************************************************************************)
Load(pack, meta) ==
    IF file[pack] = None \/ file[meta] \in {None, Torn}
      THEN None
      ELSE [bytes |-> file[pack], meta |-> file[meta]]

LoadActive == Load("actPack", "actMeta")
LoadPrevious == Load("prevPack", "prevMeta")

(***************************************************************************)
(* verify_cached_pack: signature, schema, platform, and the digest of the  *)
(* bytes against the metadata.                                             *)
(***************************************************************************)
Verified(c) == c # None /\ c.bytes \in Good /\ c.bytes = c.meta

(***************************************************************************)
(* load_verified_pack_for_eval: the active pack, else the previous one.    *)
(***************************************************************************)
\* Mutant: only the active pack is tried.
FallbackPack_NoPrevious ==
    IF Verified(LoadActive) THEN LoadActive.bytes ELSE None

FallbackPack ==
    CASE Verified(LoadActive) -> LoadActive.bytes
      [] ~Verified(LoadActive) /\ Verified(LoadPrevious) -> LoadPrevious.bytes
      [] OTHER -> None

(***************************************************************************)
(* Another artifact becomes the one the controller selects: it has signed  *)
(* one, or its search in random order ends elsewhere (see PackController). *)
(***************************************************************************)
Offer(a) ==
    /\ a # latest
    /\ latest' = a
    /\ offered' = offered \union {a}
    /\ reoffered' = (reoffered \/ a \in offered)
    /\ UNCHANGED agentVars

(***************************************************************************)
(* The reports.  A rejected pack is reported as the active one.  The       *)
(* previous pack, which a report also carries, is left out.                *)
(***************************************************************************)
MetaOf(c) == IF c = None THEN None ELSE c.meta
Applied(a) == [state |-> "applied", active |-> a]
Rejected(a) == [state |-> "rejected", active |-> a]
Incompatible == [state |-> "incompatible", active |-> MetaOf(before)]
Stale(b) == [state |-> "stale", active |-> MetaOf(b)]

\* What is left of the cycle needs only the report.
Reporting(report, step) ==
    /\ ctx' = report
    /\ pc' = step
    /\ before' = None
    /\ offer' = None
    /\ slot' = "prevPack"

FallBack(report) == Reporting(report, "post")

(***************************************************************************)
(* run_dynamic_pack_pipeline: read the cache, GET latest.                  *)
(***************************************************************************)
Start ==
    /\ pc = "idle"
    /\ before' = LoadActive
    /\ pc' = "latest"
    /\ UNCHANGED <<controller, file, slot, offer, ctx, evaluated, cached, faults>>

LatestFails ==
    /\ pc = "latest"
    /\ FallBack(Stale(before))
    /\ UNCHANGED <<controller, file, evaluated, cached, faults>>

\* The cache has the artifact offered: it is verified again, never downloaded.
UseCached ==
    /\ pc = "latest"
    /\ latest # None
    /\ MetaOf(before) = latest
    /\ IF Verified(before)
         THEN Reporting(Applied(latest), "postEval")
         ELSE FallBack(Stale(before))
    /\ UNCHANGED <<controller, file, evaluated, cached, faults>>

\* Mutant: a new artifact is fetched only when nothing is cached.
NeedArtifact_OnlyFirst ==
    /\ pc = "latest"
    /\ latest # None
    /\ before = None
    /\ offer' = latest
    /\ pc' = "artifact"
    /\ UNCHANGED <<controller, file, slot, before, ctx, evaluated, cached, faults>>

NeedArtifact ==
    /\ pc = "latest"
    /\ latest # None
    /\ MetaOf(before) # latest
    /\ offer' = latest
    /\ pc' = "artifact"
    /\ UNCHANGED <<controller, file, slot, before, ctx, evaluated, cached, faults>>

(***************************************************************************)
(* GET artifact: an error, a refusal, or a body.  The controller chooses   *)
(* the body anew, so it need not be the artifact offered; a damaged body   *)
(* is Torn.                                                                *)
(***************************************************************************)
ArtifactFails(report) ==
    /\ pc = "artifact"
    /\ FallBack(report)
    /\ UNCHANGED <<controller, file, evaluated, cached, faults>>

\* Mutant: a first install as if nothing were cached.
ArtifactBody_NoPromote(b) ==
    /\ pc = "artifact"
    /\ IF b = offer /\ b \in Good
         THEN /\ pc' = "open"
              /\ slot' = "actPack"
              /\ UNCHANGED <<before, offer, ctx>>
         ELSE FallBack(Rejected(offer))
    /\ UNCHANGED <<controller, file, evaluated, cached, faults>>

ArtifactBody(b) ==
    /\ pc = "artifact"
    /\ IF b = offer /\ b \in Good
         THEN /\ pc' = "open"
              /\ slot' = IF before # None THEN "prevPack" ELSE "actPack"
              /\ UNCHANGED <<before, offer, ctx>>
         ELSE FallBack(Rejected(offer))
    /\ UNCHANGED <<controller, file, evaluated, cached, faults>>

(***************************************************************************)
(* promote_and_write_active and write_active.  An error is logged; the     *)
(* pack is reported as applied all the same.                               *)
(***************************************************************************)
NextSlot(s) == CASE s = "prevPack" -> "prevMeta"
                 [] s = "prevMeta" -> "actPack"
                 [] OTHER -> "actMeta"

ContentFor(s) == CASE s = "prevPack" -> before.bytes
                   [] s = "prevMeta" -> before.meta
                   [] OTHER -> offer

WriteOpen ==
    /\ pc = "open"
    /\ file' = [file EXCEPT ![slot] = Torn]
    /\ pc' = "write"
    /\ UNCHANGED <<controller, slot, before, offer, ctx, evaluated, cached, faults>>

WriteDone ==
    /\ pc = "write"
    /\ file' = [file EXCEPT ![slot] = ContentFor(slot)]
    /\ pc' = IF slot = "actMeta" THEN "applied" ELSE "open"
    /\ slot' = NextSlot(slot)
    /\ cached' = IF slot = "actMeta" THEN offer ELSE cached
    /\ UNCHANGED <<controller, before, offer, ctx, evaluated, faults>>

WriteFails ==
    /\ pc \in {"open", "write"}
    /\ faults < MaxFaults
    /\ faults' = faults + 1
    /\ pc' = "applied"
    /\ UNCHANGED <<controller, file, slot, before, offer, ctx, evaluated, cached>>

ReportApplied ==
    /\ pc = "applied"
    /\ Reporting(Applied(offer), "postEval")
    /\ UNCHANGED <<controller, file, evaluated, cached, faults>>

(***************************************************************************)
(* post_status (its result is ignored), then the evaluation: of the pack   *)
(* in hand, or, after a second post, of the cache (evaluate_cached_only).  *)
(***************************************************************************)
EndOfCycle ==
    /\ pc' = "idle"
    /\ slot' = "prevPack"
    /\ before' = None
    /\ offer' = None
    /\ ctx' = NoReport

PostApplied ==
    /\ pc = "postEval"
    /\ evaluated' = ctx.active
    /\ EndOfCycle
    /\ UNCHANGED <<controller, file, cached, faults>>

Post ==
    /\ pc \in {"post", "postAgain"}
    /\ pc' = IF pc = "post" THEN "postAgain" ELSE "evalCached"
    /\ UNCHANGED <<controller, file, slot, before, offer, ctx, evaluated, cached, faults>>

EvalCached ==
    /\ pc = "evalCached"
    /\ evaluated' = FallbackPack
    /\ EndOfCycle
    /\ UNCHANGED <<controller, file, cached, faults>>

(***************************************************************************)
(* The agent process dies; the next collection starts a new one.           *)
(***************************************************************************)
Crash ==
    /\ pc # "idle"
    /\ faults < MaxFaults
    /\ faults' = faults + 1
    /\ EndOfCycle
    /\ UNCHANGED <<controller, file, evaluated, cached>>

Agent ==
    \/ Start
    \/ LatestFails
    \/ UseCached
    \/ NeedArtifact
    \/ ArtifactFails(Incompatible)
    \/ ArtifactFails(Stale(before))
    \/ \E b \in Arts \union {Torn} : ArtifactBody(b)
    \/ WriteOpen
    \/ WriteDone
    \/ ReportApplied
    \/ PostApplied
    \/ Post
    \/ EvalCached

Next ==
    \/ \E a \in Arts : Offer(a)
    \/ Agent
    \/ WriteFails
    \/ Crash

Spec == Init /\ [][Next]_vars

(***************************************************************************)
(* The agent keeps running its cycles, and the controller is not           *)
(* unreachable for ever: what is asked for again and again is answered.    *)
(***************************************************************************)
Answered == UseCached \/ NeedArtifact
Delivered == ArtifactBody(offer)
Fairness == WF_vars(Agent) /\ SF_vars(Answered) /\ SF_vars(Delivered)
FairSpec == Spec /\ Fairness
-----------------------------------------------------------------------------
Writing == pc \in {"open", "write"}

(***************************************************************************)
(* Only an artifact the controller once offered and this agent can verify  *)
(* is ever evaluated, whatever is left of the cache (pipeline.rs:178,212). *)
(***************************************************************************)
EvaluatedVerified == evaluated # None => evaluated \in Good \intersect offered

(***************************************************************************)
(* Until a first fault, and so at the moment it strikes, what the agent    *)
(* would evaluate from its cache is the last pack it cached completely: at *)
(* no point of promote_and_write_active is it out of reach.                *)
(***************************************************************************)
CacheHoldsLast == faults = 0 => FallbackPack = cached

(***************************************************************************)
(* After one crash or failed write there is still a verified pack to fall  *)
(* back to whenever the agent looks for one.                               *)
(***************************************************************************)
OneFaultTolerated ==
    faults <= 1 /\ ~Writing /\ cached # None => FallbackPack # None

(***************************************************************************)
(* A verified pack, once cached, is never given up before another one is   *)
(* cached.                                                                 *)
(***************************************************************************)
VerifiedPackKept == cached # None => FallbackPack # None

(***************************************************************************)
(* The inductive invariant behind the first two.  Everything the agent     *)
(* holds, in files or in memory, has passed verification or is torn; and   *)
(* until a first fault the files are exactly as far as the cycle is.       *)
(***************************************************************************)
Trusted == Good \intersect offered

AllTrusted ==
    /\ latest \in offered \union {None}
    /\ offer \in offered \union {None}
    /\ \A s \in Slots : file[s] \in Trusted \union {None, Torn}
    /\ before # None => before.bytes \in Trusted \union {Torn} /\ before.meta \in Trusted
    /\ pc \in {"open", "write", "applied"} => offer \in Trusted
    /\ pc = "postEval" => ctx.active \in Trusted

OnePack == IF cached = None THEN None ELSE [bytes |-> cached, meta |-> cached]

FilesInStep ==
    faults = 0 =>
       /\ cached \in Trusted \union {None}
       /\ pc \in {"latest", "artifact", "open", "write"} => before = OnePack
       /\ cached = None => file["prevPack"] = None /\ file["prevMeta"] = None
       /\ Writing /\ slot \in {"prevPack", "prevMeta"} => cached # None
       /\ Writing /\ slot \in {"actPack", "actMeta"} =>
             file["prevPack"] = cached /\ file["prevMeta"] = cached
       /\ Writing /\ slot = "prevMeta" => file["prevPack"] = cached
       /\ file["actPack"] = IF Writing /\ slot = "actMeta" THEN offer
                           ELSE IF pc = "write" /\ slot = "actPack" THEN Torn ELSE cached
       /\ file["actMeta"] = IF pc = "write" /\ slot = "actMeta" THEN Torn ELSE cached

IInv == TypeOK /\ EvaluatedVerified /\ AllTrusted /\ FilesInStep

(***************************************************************************)
(* When the controller stays with a pack the agent can verify, the agent   *)
(* comes to evaluate that pack, again and again, whatever its cache went   *)
(* through; unless a fault had hit the cache and the controller had gone   *)
(* back to a pack it offered before (the agent may then hold the metadata  *)
(* of that pack beside other bytes, and does not download it again).       *)
(***************************************************************************)
Misled == reoffered /\ faults > 0
Converges == \A a \in Good : <>[](latest = a) => []<>(evaluated = a) \/ <>Misled

(* The cache can be trusted: what is evaluated was offered and verified,   *)
(* and until a first fault the last pack cached is in reach at every step  *)
(* of a write.                                                             *)
CacheSound ==
    /\ TypeOK
    /\ EvaluatedVerified
    /\ CacheHoldsLast
=============================================================================
