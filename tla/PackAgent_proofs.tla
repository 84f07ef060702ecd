-------------------------- MODULE PackAgent_proofs --------------------------
(***************************************************************************)
(* What holds of the agent's pack cache for every set of artifacts and     *)
(* any number of faults.                                                   *)
(***************************************************************************)
EXTENDS PackRollout, TLAPS

USE ArtsAssumption, NoneAssumption, AgentBounds

(***************************************************************************)
(* An empty cache satisfies the invariant.                                 *)
(***************************************************************************)
LEMMA InitIInv == Init => IInv
<1> SUFFICES ASSUME Init PROVE IInv
  OBVIOUS
<1>1. TypeOK
  <2>1. reoffered \in BOOLEAN
    BY Zenon DEF Init
  <2> QED
    BY <2>1 DEF Init, TypeOK, Slots, Content, Loaded, Report, NoReport
<1>2. EvaluatedVerified /\ AllTrusted
  BY DEF Init, EvaluatedVerified, AllTrusted, Slots, Trusted
<1>3. FilesInStep
  BY DEF Init, FilesInStep, Slots, Trusted, Writing, OnePack
<1> QED
  BY <1>1, <1>2, <1>3 DEF IInv

(***************************************************************************)
(* What load_active returns for files that hold trusted contents.          *)
(***************************************************************************)
LEMMA LoadActiveLemma ==
  ASSUME TypeOK, AllTrusted
  PROVE  /\ LoadActive \in Loaded \union {None}
         /\ LoadActive # None => /\ LoadActive.bytes = file["actPack"]
                                 /\ LoadActive.meta = file["actMeta"]
                                 /\ LoadActive.bytes \in Trusted \union {Torn}
                                 /\ LoadActive.meta \in Trusted
         /\ file["actPack"] \in Arts /\ file["actMeta"] \in Arts =>
               LoadActive = [bytes |-> file["actPack"], meta |-> file["actMeta"]]
         /\ file["actPack"] = None => LoadActive = None
  BY DEF TypeOK, AllTrusted, LoadActive, Load, Loaded, Slots, Content, Trusted

(***************************************************************************)
(* Every step of the agent and of the controller preserves it.             *)
(***************************************************************************)
LEMMA NextIInv == IInv /\ [Next]_vars => IInv'
<1> SUFFICES ASSUME IInv, [Next]_vars PROVE IInv'
  OBVIOUS
<1> USE DEF IInv, TypeOK, EvaluatedVerified, AllTrusted, FilesInStep, Trusted, Writing, OnePack,
            controller
<1>1. ASSUME NEW a \in Arts, Offer(a) PROVE IInv'
  BY <1>1 DEF Offer, agentVars
<1>2. CASE Start
  <2>1. LoadActive \in Loaded \union {None}
    BY LoadActiveLemma
  <2>2. LoadActive # None => LoadActive.bytes \in Trusted \union {Torn} /\ LoadActive.meta \in Trusted
    BY LoadActiveLemma
  <2>3. faults = 0 => LoadActive = OnePack
    BY <1>2, LoadActiveLemma DEF Start
  <2> QED
    BY <1>2, <2>1, <2>2, <2>3 DEF Start
<1>3. CASE LatestFails
  BY <1>3 DEF LatestFails, Slots, FallBack, Reporting, Stale, MetaOf, Report, Loaded
<1>4. CASE UseCached
  BY <1>4 DEF UseCached, Slots, FallBack, Reporting, Stale, Applied, MetaOf, Report, Loaded, Verified
<1>5. CASE NeedArtifact
  BY <1>5 DEF NeedArtifact
<1>6. ASSUME NEW r \in {Incompatible, Stale(before)}, ArtifactFails(r) PROVE IInv'
  BY <1>6 DEF ArtifactFails, Slots, FallBack, Reporting, Incompatible, Stale, MetaOf, Report, Loaded
<1>7. ASSUME NEW b \in Arts \union {Torn}, ArtifactBody(b) PROVE IInv'
  BY <1>7 DEF ArtifactBody, FallBack, Reporting, Rejected, Report, Slots, Loaded
<1>8. CASE WriteOpen
  BY <1>8 DEF WriteOpen, Slots, Content
<1>9. CASE WriteDone
  BY <1>9 DEF WriteDone, NextSlot, ContentFor, Slots, Content, Loaded
<1>10. CASE WriteFails
  BY <1>10 DEF WriteFails
<1>11. CASE ReportApplied
  BY <1>11 DEF ReportApplied, Slots, Reporting, Applied, MetaOf, Report, Loaded
<1>12. CASE PostApplied
  BY <1>12 DEF PostApplied, EndOfCycle, NoReport, Report, Slots
<1>13. CASE Post
  BY <1>13 DEF Post
<1>14. CASE EvalCached
  BY <1>14, LoadActiveLemma DEF EvalCached, EndOfCycle, NoReport, Report,
     FallbackPack, Verified, LoadPrevious, Load, Slots, Content
<1>15. CASE Crash
  BY <1>15 DEF Crash, EndOfCycle, NoReport, Report, Slots
<1>16. CASE UNCHANGED vars
  BY <1>16 DEF vars, agentVars
<1> QED
  BY <1>1, <1>2, <1>3, <1>4, <1>5, <1>6, <1>7, <1>8, <1>9, <1>10, <1>11, <1>12, <1>13,
     <1>14, <1>15, <1>16 DEF Next, Agent

LEMMA Invariance == Spec => []IInv
<1> QED
  BY InitIInv, NextIInv, PTL DEF Spec

(***************************************************************************)
(* The agent evaluates only artifacts it was offered and has verified,     *)
(* through any sequence of crashes and failed cache writes.                *)
(***************************************************************************)
THEOREM OnlyVerifiedEvaluated == Spec => []EvaluatedVerified
<1>1. IInv => EvaluatedVerified
  BY DEF IInv
<1> QED
  BY Invariance, <1>1, PTL

(***************************************************************************)
(* At every instant before a first fault the pack the agent would fall     *)
(* back to is the last one it cached.                                      *)
(***************************************************************************)
THEOREM LastPackInReach == Spec => []CacheHoldsLast
<1>1. IInv => CacheHoldsLast
  <2> SUFFICES ASSUME IInv, faults = 0 PROVE FallbackPack = cached
    BY DEF CacheHoldsLast
  <2> QED
    BY DEF IInv, TypeOK, AllTrusted, FilesInStep, FallbackPack, Verified, LoadActive,
           LoadPrevious, Load, Slots, Content, Trusted, Writing
<1> QED
  BY Invariance, <1>1, PTL
(***************************************************************************)
(* The cache of packs can be trusted (cache.rs, pipeline.rs): what is      *)
(* evaluated was offered and verified, and before a first fault the last   *)
(* pack cached is in reach at every step of a write.                       *)
(***************************************************************************)
THEOREM CacheTrusted == Spec => []CacheSound
<1>1. IInv => TypeOK
  BY DEF IInv
<1> QED
  BY Invariance, <1>1, OnlyVerifiedEvaluated, LastPackInReach, PTL DEF CacheSound

-----------------------------------------------------------------------------
(***************************************************************************)
(* One fault.  What is in reach depends on the files alone.  The first     *)
(* fault finds the last pack in reach (LastPackInReach); the next write    *)
(* may put what is left of the active pack over the previous one, and      *)
(* makes up for it by ending with two files of the same verified pack.     *)
(***************************************************************************)
PackBeforeMeta == Writing /\ slot = "actMeta" => file["actPack"] = offer

LEMMA InReach == FallbackPack # None <=> Verified(LoadActive) \/ Verified(LoadPrevious)
  BY DEF FallbackPack, Verified

LEMMA FilesDecide == ASSUME file' = file PROVE FallbackPack' = FallbackPack
  BY DEF FallbackPack, Verified, LoadActive, LoadPrevious, Load

LEMMA NextTolerated ==
  IInv /\ PackBeforeMeta /\ OneFaultTolerated /\ [Next]_vars => (PackBeforeMeta /\ OneFaultTolerated)'
<1> SUFFICES ASSUME IInv, PackBeforeMeta, OneFaultTolerated, [Next]_vars
             PROVE  PackBeforeMeta' /\ OneFaultTolerated'
  OBVIOUS
<1>1. /\ file \in [Slots -> Content] /\ faults \in Nat /\ slot \in Slots
      /\ Writing => offer \in Trusted
  BY DEF IInv, TypeOK, AllTrusted, Writing
<1>2. faults = 0 /\ cached # None => FallbackPack # None
  BY DEF IInv, TypeOK, AllTrusted, FilesInStep, FallbackPack, Verified, LoadActive,
         LoadPrevious, Load, Slots, Content, Trusted, Writing, OnePack
<1>3. CASE WriteOpen
  BY <1>1, <1>3 DEF WriteOpen, PackBeforeMeta, OneFaultTolerated, Writing, Slots
<1>4. CASE WriteDone
  <2>1. PackBeforeMeta'
    BY <1>1, <1>4 DEF WriteDone, PackBeforeMeta, Writing, NextSlot, ContentFor, Slots
  <2>2. CASE slot = "actMeta"
    <3>1. file'["actPack"] = offer /\ file'["actMeta"] = offer /\ offer \in Trusted
      BY <1>1, <1>4, <2>2 DEF WriteDone, PackBeforeMeta, Writing, ContentFor, Slots
    <3>2. Verified(LoadActive)'
      BY <3>1 DEF Verified, LoadActive, Load, Trusted
    <3>3. FallbackPack' # None
      BY <3>2 DEF FallbackPack, Verified
    <3> QED
      BY <2>1, <3>3 DEF OneFaultTolerated
  <2>3. CASE slot # "actMeta"
    BY <1>4, <2>1, <2>3 DEF WriteDone, OneFaultTolerated, Writing
  <2> QED
    BY <2>2, <2>3
<1>5. CASE WriteFails \/ Crash
  <2>1. file' = file /\ faults' = faults + 1 /\ cached' = cached /\ ~Writing'
    BY <1>5 DEF WriteFails, Crash, EndOfCycle, Writing
  <2>2. FallbackPack' = FallbackPack
    BY <2>1, FilesDecide
  <2> QED
    BY <1>1, <1>2, <2>1, <2>2 DEF PackBeforeMeta, OneFaultTolerated
<1>6. ASSUME NEW b \in Arts \union {Torn}, ArtifactBody(b)
      PROVE  PackBeforeMeta' /\ OneFaultTolerated'
  <2>1. /\ file' = file /\ faults' = faults /\ cached' = cached /\ ~Writing
        /\ Writing' => slot' \in {"prevPack", "actPack"}
    BY <1>6 DEF ArtifactBody, Writing, FallBack, Reporting
  <2>2. FallbackPack' = FallbackPack
    BY <2>1, FilesDecide
  <2> QED
    BY <2>1, <2>2 DEF PackBeforeMeta, OneFaultTolerated
<1>7. CASE \/ \E a \in Arts : Offer(a)
           \/ Start \/ LatestFails \/ UseCached \/ NeedArtifact
           \/ ArtifactFails(Incompatible) \/ ArtifactFails(Stale(before))
           \/ ReportApplied \/ PostApplied \/ Post \/ EvalCached \/ UNCHANGED vars
  <2>1. /\ file' = file /\ faults' = faults /\ cached' = cached
        /\ (Writing' <=> Writing) /\ (Writing => slot' = slot /\ offer' = offer)
    BY <1>7
    DEF Offer, agentVars, Start, LatestFails, UseCached, NeedArtifact, ArtifactFails, FallBack,
        Reporting, ReportApplied, PostApplied, Post, EvalCached, EndOfCycle, vars, controller,
        Writing
  <2>2. FallbackPack' = FallbackPack
    BY <2>1, FilesDecide
  <2> QED
    BY <2>1, <2>2 DEF PackBeforeMeta, OneFaultTolerated
<1> QED
  BY <1>3, <1>4, <1>5, <1>6, <1>7 DEF Next, Agent

(***************************************************************************)
(* One crash or failed write, at any point of promote_and_write_active or  *)
(* of any later cycle, leaves a verified pack to fall back to (cache.rs).  *)
(***************************************************************************)
THEOREM FirstFaultTolerated == Spec => []OneFaultTolerated
<1>1. Init => PackBeforeMeta /\ OneFaultTolerated
  BY DEF Init, PackBeforeMeta, OneFaultTolerated, Writing
<1>2. IInv /\ PackBeforeMeta /\ OneFaultTolerated /\ [Next]_vars
         => IInv' /\ (PackBeforeMeta /\ OneFaultTolerated)'
  BY NextIInv, NextTolerated
<1> QED
  BY InitIInv, <1>1, <1>2, PTL DEF Spec

-----------------------------------------------------------------------------
(***************************************************************************)
(* The record at the controller.  What the agent posts while it falls back *)
(* does not say "applied"; what it posts before an evaluation was          *)
(* verified (AllTrusted).                                                  *)
(***************************************************************************)
FallBackSaysSo == pc \in {"post", "postAgain"} => ctx.state # "applied"

RecordInv == IInv /\ FallBackSaysSo /\ status \in Status \union {None} /\ AppliedIsVerified

LEMMA NextFallBack == IInv /\ FallBackSaysSo /\ [Next]_vars => FallBackSaysSo'
<1> SUFFICES ASSUME FallBackSaysSo, [Next]_vars PROVE FallBackSaysSo'
  OBVIOUS
<1> USE DEF FallBackSaysSo
<1>1. CASE \/ \E a \in Arts : Offer(a)
           \/ Start \/ NeedArtifact \/ WriteOpen \/ WriteDone \/ WriteFails \/ UNCHANGED vars
  BY <1>1 DEF Offer, agentVars, Start, NeedArtifact, WriteOpen, WriteDone, WriteFails, vars
<1>2. CASE \/ LatestFails \/ UseCached \/ ArtifactFails(Incompatible) \/ ArtifactFails(Stale(before))
           \/ ReportApplied
  BY <1>2 DEF LatestFails, UseCached, ArtifactFails, ReportApplied, FallBack, Reporting, Stale,
              Incompatible
<1>3. ASSUME NEW b \in Arts \union {Torn}, ArtifactBody(b) PROVE FallBackSaysSo'
  BY <1>3 DEF ArtifactBody, FallBack, Reporting, Rejected
<1>4. CASE PostApplied \/ EvalCached \/ Crash
  BY <1>4 DEF PostApplied, EvalCached, Crash, EndOfCycle
<1>5. CASE Post
  BY <1>5 DEF Post
<1> QED
  BY <1>1, <1>2, <1>3, <1>4, <1>5 DEF Next, Agent

(* A step of the agent with the controller is a step of the agent.         *)
LEMMA RolloutSteps ==
  ASSUME [RolloutNext]_rolloutVars
  PROVE  /\ [Next]_vars
         /\ \/ status' = status
            \/ (PostApplied \/ Post) /\ status' = Merged(ctx)
<1>1. CASE Posting
  BY <1>1 DEF Posting, Deliver, Lose, Next, Agent
<1>2. CASE Silent /\ Lose
  BY <1>2 DEF Silent, Lose, Next, Agent
<1>3. CASE UNCHANGED rolloutVars
  BY <1>3 DEF rolloutVars
<1> QED
  BY <1>1, <1>2, <1>3 DEF RolloutNext

LEMMA RecordStep == RecordInv /\ [RolloutNext]_rolloutVars => RecordInv'
<1> SUFFICES ASSUME RecordInv, [RolloutNext]_rolloutVars PROVE RecordInv'
  OBVIOUS
<1> USE DEF RecordInv
<1>1. [Next]_vars
  BY RolloutSteps
<1>2. IInv' /\ FallBackSaysSo'
  BY <1>1, NextIInv, NextFallBack
<1>3. offered \subseteq offered'
  BY <1>1 DEF Next, Agent, Offer, Start, LatestFails, UseCached, NeedArtifact, ArtifactFails,
              ArtifactBody, WriteOpen, WriteDone, WriteFails, ReportApplied, PostApplied, Post,
              EvalCached, Crash, controller, vars
<1>4. CASE status' = status
  BY <1>2, <1>3, <1>4 DEF AppliedIsVerified
<1>5. CASE (PostApplied \/ Post) /\ status' = Merged(ctx)
  <2>1. ctx \in Report /\ ctx.state = "applied" => ctx.active \in Good \intersect offered
    BY <1>5 DEF PostApplied, Post, FallBackSaysSo, IInv, AllTrusted, Trusted, TypeOK
  <2>2. PICK m : m = Merged(ctx)
    OBVIOUS
  <2>3. ctx \in Report
    BY DEF IInv, TypeOK
  <2>4. m.state = ctx.state /\ m.active = ctx.active
    BY <2>2 DEF Merged
  <2>5. m \in Status
    <3>1. PICK once : once = (ctx.state = "applied" \/ (status # None /\ status.appliedOnce))
      OBVIOUS
    <3>2. once \in BOOLEAN
      BY <3>1, Zenon
    <3>3. m = [state |-> ctx.state, active |-> ctx.active, appliedOnce |-> once]
      BY <2>2, <3>1, Zenon DEF Merged
    <3>4. ctx.state \in {"applied", "rejected", "incompatible", "stale"} /\ ctx.active \in Arts \union {None}
      BY <2>3 DEF Report
    <3> QED
      BY <3>2, <3>3, <3>4 DEF Status
  <2>6. AppliedIsVerified'
    BY <1>3, <1>5, <2>1, <2>2, <2>3, <2>4 DEF AppliedIsVerified
  <2> QED
    BY <1>2, <1>5, <2>2, <2>5, <2>6
<1> QED
  BY <1>4, <1>5, RolloutSteps

(***************************************************************************)
(* Whatever posts are lost and wherever the agent dies, a pack the         *)
(* controller shows as applied was offered and verified, and that one was  *)
(* applied is never forgotten (handlePostAgentPackStatus).                 *)
(***************************************************************************)
THEOREM RecordHolds == RolloutSpec => RecordSound
<1>1. RolloutInit => RecordInv
  BY InitIInv DEF RolloutInit, RecordInv, FallBackSaysSo, AppliedIsVerified, Init
<1>2. RecordInv => RolloutTypeOK /\ AppliedIsVerified
  BY DEF RecordInv, IInv, RolloutTypeOK
<1>3. [RolloutNext]_rolloutVars =>
         [status # None /\ status.appliedOnce => status'.appliedOnce]_rolloutVars
  <2> SUFFICES ASSUME [RolloutNext]_rolloutVars, status # None, status.appliedOnce
               PROVE  status'.appliedOnce
    OBVIOUS
  <2>1. CASE status' = status
    BY <2>1
  <2>2. CASE status' = Merged(ctx)
    BY <2>2, Zenon DEF Merged
  <2> QED
    BY <2>1, <2>2, RolloutSteps
<1> QED
  BY <1>1, <1>2, <1>3, RecordStep, PTL DEF RolloutSpec, RecordSound, LastAppliedKept

(***************************************************************************)
(* Composition: the agent the controller keeps a record of is the agent of *)
(* PackAgent, because it never waits for, or looks at, what became of a    *)
(* post (run_cycle, post_status); so its cache can be trusted as before.   *)
(***************************************************************************)
THEOREM RolloutImplementsAgent == RolloutSpec => Spec /\ []CacheSound
<1>1. RolloutInit => Init
  BY DEF RolloutInit
<1>2. [RolloutNext]_rolloutVars => [Next]_vars
  BY RolloutSteps
<1> QED
  BY <1>1, <1>2, CacheTrusted, PTL DEF RolloutSpec, Spec
=============================================================================
