----------------------- MODULE DetectionPipeline_proofs -----------------------
(***************************************************************************)
(* Proofs about DetectionPipeline, for any number of handlers, candidates, *)
(* validations and packs, with and without persistence, and for any number *)
(* of crashes and failed persists; and about the RuleEval its validations  *)
(* rest on, for any pool of events and any clauses of finite nesting.      *)
(***************************************************************************)
EXTENDS DetectionPipeline, RuleEval, Filtering_proofs, TLAPS

(***************************************************************************)
(* Where a handler is in its request: a persist in progress belongs to the *)
(* step it returns to.                                                     *)
(***************************************************************************)
PersistSteps == {"persist", "readCands", "readRuns", "readPacks", "file"}
Returns == {"idle", "validateRun", "validateFinish", "ackReject", "signMark"}
Stage(r) == IF h[r].at \in PersistSteps THEN h[r].next ELSE h[r].at

ValidateStages == {"validateStart", "validateRun", "validateFinish"}
SignStages == {"sign", "signMark"}
WorkStages == ValidateStages \union SignStages \union {"approve", "reject"}

(***************************************************************************)
(* The handlers: each one has the candidate and the id that its step uses, *)
(* and none outlives the process.                                          *)
(***************************************************************************)
HandlerOK(r) ==
    /\ h[r].at \in PersistSteps => Persistent /\ h[r].next \in Returns
    /\ Stage(r) \in WorkStages \union {"ackReject"} =>
          h[r].cand \in Cands /\ cand[h[r].cand] # None
    /\ Stage(r) \in ValidateStages => h[r].id \in Runs
    /\ Stage(r) \in SignStages => h[r].id \in Packs
    /\ At(r, "idle") => h[r] = Idle
    /\ ~up => At(r, "idle")

TypeInv ==
    /\ TypeOK
    /\ \A r \in Handlers : HandlerOK(r)
    /\ ~up => Memory = NoData /\ faults > 0

-----------------------------------------------------------------------------
(***************************************************************************)
(* Typing.                                                                 *)
(***************************************************************************)
LEMMA NoDataType == NoData \in Snapshot
  BY DEF NoData, Snapshot

LEMMA FieldTypes ==
  ASSUME NEW s \in Snapshot
  PROVE  /\ s.research \subseteq Research
         /\ s.cand \in [Cands -> Candidate \union {None}]
         /\ s.runs \in [Runs -> Run \union {None}]
         /\ s.packs \in [Packs -> Cands \union {None}]
  BY DEF Snapshot

LEMMA MarshalTypes ==
  ASSUME TypeOK, NEW r \in Handlers
  PROVE  /\ [NoData EXCEPT !.research = research] \in Snapshot
         /\ [rd[r] EXCEPT !.cand = cand] \in Snapshot
         /\ [rd[r] EXCEPT !.runs = runs] \in Snapshot
         /\ [rd[r] EXCEPT !.packs = packs] \in Snapshot
  BY NoDataType DEF TypeOK, Snapshot

LEMMA InitType == Init => TypeInv
<1> SUFFICES ASSUME Init PROVE TypeInv
  OBVIOUS
<1>1. F!TypeOK
  BY PipelineAssumption DEF Init, F!Init, F!TypeOK, F!Entry, F!Data
<1>2. TypeOK
  <2>1. NoData.cand \in [Cands -> Candidate \union {None}] /\ NoData.runs \in [Runs -> Run \union {None}]
           /\ NoData.packs \in [Packs -> Cands \union {None}]
    BY NoDataType, FieldTypes
  <2>2. Idle \in Handler
    BY DEF Idle, Handler, Steps
  <2>3. \A r \in Handlers : h[r].at = "file" <=> fpc[r] # "idle"
    BY DEF Init, F!Init, Idle
  <2> QED
    <3>1. research \subseteq Research /\ issued \subseteq Research \union Cands \union Runs \union Packs /\ approvedEver \subseteq Cands /\ rejectAcked \subseteq Cands
      BY DEF Init
    <3>2. faults \in 0 .. MaxFaults
      BY PipelineAssumption DEF Init
    <3>3. up \in BOOLEAN /\ concurrent \in BOOLEAN
      BY DEF Init
    <3>4. h \in [Handlers -> Handler] /\ rd \in [Handlers -> Snapshot]
      BY <2>2, NoDataType DEF Init
    <3>5. cand \in [Cands -> Candidate \union {None}] /\ runs \in [Runs -> Run \union {None}]
           /\ packs \in [Packs -> Cands \union {None}]
      BY <2>1 DEF Init
    <3> QED BY <1>1, <2>3, <3>1, <3>2, <3>3, <3>4, <3>5 DEF TypeOK
<1>3. QED
  BY <1>2 DEF Init, TypeInv, HandlerOK, Stage, PersistSteps, At, Idle, WorkStages, ValidateStages,
              SignStages

(***************************************************************************)
(* The steps of SnapshotFile keep its types.                               *)
(***************************************************************************)
LEMMA FileType ==
  ASSUME F!TypeOK, NEW r \in Handlers,
         \/ \E c \in Snapshot : F!Marshal(r, c)
         \/ F!OpenTmp(r) \/ F!WriteTmp(r) \/ F!Rename(r) \/ F!WriteFails(r)
         \/ F!Crash
  PROVE  F!TypeOK'
<1> USE PipelineAssumption DEF F!TypeOK, F!Data, F!Entry
<1>1. CASE \E c \in Snapshot : F!Marshal(r, c)
  BY <1>1 DEF F!Marshal
<1>2. CASE F!OpenTmp(r)
  BY <1>2 DEF F!OpenTmp, F!Free
<1>3. CASE F!WriteTmp(r)
  BY <1>3 DEF F!WriteTmp, F!WriteOutcomes
<1>4. CASE F!Rename(r)
  BY <1>4 DEF F!Rename
<1>5. CASE F!WriteFails(r)
  BY <1>5 DEF F!WriteFails
<1>6. CASE F!Crash
  BY <1>6 DEF F!Crash
<1> QED
  BY <1>1, <1>2, <1>3, <1>4, <1>5, <1>6

(***************************************************************************)
(* What the ways to move a handler do: to another stage, to the persist    *)
(* before another stage, or within a persist.                              *)
(***************************************************************************)
Moved(r) ==
    /\ h' \in [Handlers -> Handler]
    /\ \A q \in Handlers \ {r} : h'[q] = h[q]
    /\ h'[r].at = "idle" => h'[r] = Idle
    /\ h'[r].id \in {h[r].id, None}
    /\ h'[r].at # "idle" => h'[r].cand = h[r].cand /\ h'[r].id = h[r].id

LEMMA Moves ==
  ASSUME TypeOK, NEW r \in Handlers, NEW n \in Steps, Goto(r, n)
  PROVE  /\ Moved(r)
         /\ h'[r].at = n
         /\ n # "idle" => h'[r].next = h[r].next /\ h'[r].ok = h[r].ok
<1>1. Idle \in Handler /\ Idle.id = None /\ Idle.at = "idle"
  BY DEF Idle, Handler, Steps
<1>2. h[r] \in Handler
  BY DEF TypeOK
<1>3. [h[r] EXCEPT !.at = n] \in Handler
  BY <1>2 DEF Handler
<1>4. h' \in [Handlers -> Handler] /\ \A q \in Handlers \ {r} : h'[q] = h[q]
  BY <1>1, <1>2, <1>3 DEF Goto, TypeOK
<1>5. h'[r] = IF n = "idle" THEN Idle ELSE [h[r] EXCEPT !.at = n]
  BY DEF Goto, TypeOK
<1> QED
  BY <1>1, <1>2, <1>4, <1>5 DEF Moved, Handler

LEMMA Persists ==
  ASSUME TypeOK, NEW r \in Handlers, NEW n \in Returns, Persisting(r, n)
  PROVE  /\ Moved(r)
         /\ Stage(r)' = n
         /\ h'[r].at = IF Persistent THEN "persist" ELSE n
         /\ h'[r].at = "persist" => h'[r].next = n
<1>1. n \in Steps /\ n \notin PersistSteps
  BY DEF Steps, Returns, PersistSteps
<1>2. CASE Persistent
  <2>1. h[r] \in Handler /\ "persist" \in Steps
    BY DEF TypeOK, Steps
  <2>2. [h[r] EXCEPT !.at = "persist", !.next = n] \in Handler
    BY <1>1, <2>1 DEF Handler
  <2>3. h' = [h EXCEPT ![r] = [h[r] EXCEPT !.at = "persist", !.next = n]]
    BY <1>2 DEF Persisting, TypeOK
  <2>4. h' \in [Handlers -> Handler] /\ \A q \in Handlers \ {r} : h'[q] = h[q]
    BY <2>2, <2>3 DEF TypeOK
  <2>5. h'[r] = [h[r] EXCEPT !.at = "persist", !.next = n]
    BY <2>3 DEF TypeOK
  <2> QED
    BY <1>2, <2>1, <2>4, <2>5 DEF Moved, Handler, Stage, PersistSteps
<1>3. CASE ~Persistent
  <2>1. Goto(r, n)
    BY <1>3 DEF Persisting
  <2> QED
    BY <1>1, <1>3, <2>1, Moves DEF Stage, PersistSteps
<1> QED
  BY <1>2, <1>3

LEMMA OthersKept ==
  ASSUME TypeInv, NEW r \in Handlers, up' = up,
         \A q \in Handlers \ {r} : h'[q] = h[q],
         \A c \in Cands : cand[c] # None => cand'[c] # None,
         HandlerOK(r)'
  PROVE  \A q \in Handlers : HandlerOK(q)'
  BY DEF TypeInv, TypeOK, Handler, HandlerOK, Stage, At

(***************************************************************************)
(* An assignment to a field of a candidate.                                *)
(***************************************************************************)
LEMMA Replaced ==
  ASSUME TypeOK, NEW c \in Cands, NEW x \in Candidate, cand' = [cand EXCEPT ![c] = x]
  PROVE  /\ cand' \in [Cands -> Candidate \union {None}]
         /\ cand'[c] = x /\ x # None
         /\ \A d \in Cands \ {c} : cand'[d] = cand[d]
  BY NilAssumption DEF TypeOK

LEMMA Assigned ==
  ASSUME TypeOK, NEW c \in Cands, cand[c] # None, NEW s \in Statuses,
         cand' = [cand EXCEPT ![c].status = s]
  PROVE  /\ cand[c] \in Candidate
         /\ cand' \in [Cands -> Candidate \union {None}]
         /\ cand'[c] = [cand[c] EXCEPT !.status = s] /\ cand'[c] # None
         /\ \A d \in Cands \ {c} : cand'[d] = cand[d]
<1>1. cand[c] \in Candidate
  BY DEF TypeOK
<1>2. [cand[c] EXCEPT !.status = s] \in Candidate
  BY <1>1 DEF Candidate
<1>3. cand' = [cand EXCEPT ![c] = [cand[c] EXCEPT !.status = s]]
  OBVIOUS
<1> QED
  BY <1>1, <1>2, <1>3, Replaced

LEMMA AssignedRun ==
  ASSUME TypeOK, NEW c \in Cands, cand[c] # None, NEW s \in Statuses, NEW v \in Runs,
         cand' = [cand EXCEPT ![c].status = s, ![c].lastRun = v]
  PROVE  /\ cand[c] \in Candidate
         /\ cand' \in [Cands -> Candidate \union {None}]
         /\ cand'[c] = [cand[c] EXCEPT !.status = s, !.lastRun = v] /\ cand'[c] # None
         /\ \A d \in Cands \ {c} : cand'[d] = cand[d]
<1>1. cand[c] \in Candidate
  BY DEF TypeOK
<1>2. [cand[c] EXCEPT !.status = s, !.lastRun = v] \in Candidate
  BY <1>1 DEF Candidate
<1>3. cand' = [cand EXCEPT ![c] = [cand[c] EXCEPT !.status = s, !.lastRun = v]]
  BY DEF TypeOK
<1> QED
  BY <1>1, <1>2, <1>3, Replaced

LEMMA AssignedPack ==
  ASSUME TypeOK, NEW c \in Cands, cand[c] # None, NEW s \in Statuses, NEW p \in Packs,
         cand' = [cand EXCEPT ![c].status = s, ![c].pack = p]
  PROVE  /\ cand[c] \in Candidate
         /\ cand' \in [Cands -> Candidate \union {None}]
         /\ cand'[c] = [cand[c] EXCEPT !.status = s, !.pack = p] /\ cand'[c] # None
         /\ \A d \in Cands \ {c} : cand'[d] = cand[d]
<1>1. cand[c] \in Candidate
  BY DEF TypeOK
<1>2. [cand[c] EXCEPT !.status = s, !.pack = p] \in Candidate
  BY <1>1 DEF Candidate
<1>3. cand' = [cand EXCEPT ![c] = [cand[c] EXCEPT !.status = s, !.pack = p]]
  BY DEF TypeOK
<1> QED
  BY <1>1, <1>2, <1>3, Replaced

LEMMA Admitted ==
  ASSUME TypeOK, NEW r \in Handlers, NEW n \in WorkStages, NEW c \in Cands,
         NEW i \in Runs \union Packs \union {None}, Admit(r, n, c, i)
  PROVE  /\ h' \in [Handlers -> Handler]
         /\ \A q \in Handlers \ {r} : h'[q] = h[q]
         /\ h'[r].at = n /\ h'[r].cand = c /\ h'[r].id = i
         /\ Stage(r)' = n
         /\ n \notin PersistSteps \union {"idle", "ackReject", "file"}
         /\ issued' \subseteq Research \union Cands \union Runs \union Packs
         /\ concurrent' \in BOOLEAN
<1>1. n \in Steps /\ n \notin PersistSteps \union {"idle", "ackReject", "file"}
  BY DEF WorkStages, ValidateStages, SignStages, Steps, PersistSteps
<1>2. [Idle EXCEPT !.at = n, !.cand = c, !.id = i] \in Handler
  BY <1>1 DEF Idle, Handler, Steps
<1>3. h' = [h EXCEPT ![r] = [Idle EXCEPT !.at = n, !.cand = c, !.id = i]]
  BY DEF Admit
<1>4. h' \in [Handlers -> Handler] /\ \A q \in Handlers \ {r} : h'[q] = h[q]
  BY <1>2, <1>3 DEF TypeOK
<1>5. h'[r].at = n /\ h'[r].cand = c /\ h'[r].id = i
  BY <1>3 DEF TypeOK, Idle
<1>6. issued' \subseteq Research \union Cands \union Runs \union Packs /\ concurrent' \in BOOLEAN
  BY DEF Admit, Arrives, TypeOK
<1> QED
  BY <1>1, <1>4, <1>5, <1>6 DEF Stage

(***************************************************************************)
(* The type invariant, step by step.                                       *)
(***************************************************************************)
LEMMA RequestType ==
  ASSUME TypeInv, NEW r \in Handlers, Request(r)
  PROVE  TypeInv'
<1> USE DEF TypeInv
<1>0. up /\ h[r] = Idle /\ up' = up /\ faults' = faults /\ rd' = rd
        /\ approvedEver' = approvedEver /\ rejectAcked' = rejectAcked
        /\ UNCHANGED file
        /\ issued' \subseteq Research \union Cands \union Runs \union Packs
        /\ concurrent' \in BOOLEAN
  BY DEF Request, CreateResearch, CreateCandidate, ValidateAdmit, ApproveAdmit, RejectAdmit,
         SignAdmit, Admit, Arrives, HandlerOK, At, TypeOK
<1>1. F!TypeOK'
  BY <1>0 DEF file, TypeOK, F!TypeOK
<1>2. ASSUME NEW c \in Cands, NEW n \in WorkStages, NEW i \in Runs \union Packs \union {None},
             Admit(r, n, c, i), cand[c] # None,
             n \in ValidateStages => i \in Runs, n \in SignStages => i \in Packs
      PROVE  TypeInv'
  <2>1. UNCHANGED mem
    BY <1>2 DEF Admit
  <2>2. HandlerOK(r)'
    BY <1>0, <1>2, <2>1, Admitted
    DEF HandlerOK, mem, At, PersistSteps
  <2>3. \A q \in Handlers : HandlerOK(q)'
    BY <1>0, <1>2, <2>1, <2>2, Admitted, OthersKept DEF mem
  <2>4. \A q \in Handlers : h'[q].at = "file" <=> fpc'[q] # "idle"
    BY <1>0, <1>2, Admitted DEF TypeOK, file, Idle
  <2>5. TypeOK'
    BY <1>0, <1>1, <1>2, <2>1, <2>4, Admitted DEF TypeOK, mem
  <2> QED
    BY <1>0, <2>3, <2>5
<1>3. ASSUME NEW i \in Research, CreateResearch(r, i)
      PROVE  TypeInv'
  <2>1. Moved(r) /\ Stage(r)' = "idle" /\ h'[r].at \in {"persist", "idle"}
           /\ (h'[r].at = "persist" => Persistent /\ h'[r].next = "idle")
    BY <1>3, Persists DEF CreateResearch, Returns
  <2>2. research' \subseteq Research /\ UNCHANGED <<cand, runs, packs>>
    BY <1>3 DEF CreateResearch, TypeOK
  <2>3. HandlerOK(r)'
    BY <1>0, <2>1 DEF HandlerOK, Moved, At, Returns, WorkStages, ValidateStages, SignStages,
                      PersistSteps
  <2>4. \A q \in Handlers : HandlerOK(q)'
    BY <1>0, <2>1, <2>2, <2>3, OthersKept DEF Moved
  <2>5. \A q \in Handlers : h'[q].at = "file" <=> fpc'[q] # "idle"
    BY <1>0, <2>1 DEF TypeOK, file, Idle, Moved
  <2>6. TypeOK'
    BY <1>0, <1>1, <2>1, <2>2, <2>5 DEF TypeOK, Moved
  <2> QED
    BY <1>0, <2>4, <2>6
<1>4. ASSUME NEW c \in Cands, CreateCandidate(r, c)
      PROVE  TypeInv'
  <2>1. Moved(r) /\ Stage(r)' = "idle" /\ h'[r].at \in {"persist", "idle"}
           /\ (h'[r].at = "persist" => Persistent /\ h'[r].next = "idle")
    BY <1>4, Persists DEF CreateCandidate, Returns
  <2>2. [status |-> "draft", lastRun |-> None, pack |-> None] \in Candidate
    BY DEF Candidate, Statuses
  <2>3. /\ cand' \in [Cands -> Candidate \union {None}]
        /\ \A d \in Cands : cand[d] # None => cand'[d] # None
        /\ UNCHANGED <<research, runs, packs>>
    BY <1>4, <2>2, NilAssumption DEF CreateCandidate, TypeOK
  <2>4. HandlerOK(r)'
    BY <1>0, <2>1 DEF HandlerOK, Moved, At, Returns, WorkStages, ValidateStages, SignStages,
                      PersistSteps
  <2>5. \A q \in Handlers : HandlerOK(q)'
    BY <1>0, <2>1, <2>3, <2>4, OthersKept DEF Moved
  <2>6. \A q \in Handlers : h'[q].at = "file" <=> fpc'[q] # "idle"
    BY <1>0, <2>1 DEF TypeOK, file, Idle, Moved
  <2>7. TypeOK'
    BY <1>0, <1>1, <2>1, <2>3, <2>6 DEF TypeOK, Moved
  <2> QED
    BY <1>0, <2>5, <2>7
<1> QED
  BY <1>2, <1>3, <1>4
  DEF Request, ValidateAdmit, ApproveAdmit, RejectAdmit, SignAdmit, WorkStages, ValidateStages,
      SignStages

(***************************************************************************)
(* The steps that assign to a candidate and persist, in one form.          *)
(***************************************************************************)
LEMMA WorkType ==
  ASSUME TypeInv, NEW r \in Handlers, h[r].at \in WorkStages, NEW n \in Returns,
         Moved(r), Stage(r)' = n, h'[r].at = IF Persistent THEN "persist" ELSE n,
         h'[r].at = "persist" => h'[r].next = n,
         n = "validateRun" \/ n = "validateFinish" => h[r].id \in Runs,
         n = "signMark" => h[r].id \in Packs,
         cand' \in [Cands -> Candidate \union {None}],
         \A c \in Cands : cand[c] # None => cand'[c] # None,
         research' = research, runs' \in [Runs -> Run \union {None}],
         packs' \in [Packs -> Cands \union {None}],
         up' = up, faults' = faults, rd' = rd, UNCHANGED file, issued' = issued,
         approvedEver' \subseteq Cands, rejectAcked' = rejectAcked, concurrent' = concurrent
  PROVE  TypeInv'
<1> USE DEF TypeInv
<1>1. h[r].at \notin PersistSteps /\ h[r].at # "idle" /\ up /\ Stage(r) = h[r].at
  BY DEF WorkStages, ValidateStages, SignStages, PersistSteps, Stage, HandlerOK, At
<1>2. h[r].cand \in Cands /\ cand[h[r].cand] # None
  BY <1>1 DEF HandlerOK
<1>3. HandlerOK(r)'
  BY <1>1, <1>2 DEF HandlerOK, Moved, At, Returns, WorkStages, ValidateStages, SignStages,
                    PersistSteps, Stage
<1>4. \A q \in Handlers : HandlerOK(q)'
  BY <1>3, OthersKept DEF Moved
<1>5. \A q \in Handlers : h'[q].at = "file" <=> fpc'[q] # "idle"
  BY <1>1 DEF TypeOK, file, Moved, Returns, PersistSteps
<1>6. F!TypeOK'
  BY DEF file, TypeOK, F!TypeOK
<1>7. TypeOK'
  BY <1>5, <1>6 DEF TypeOK, Moved
<1> QED
  BY <1>1, <1>4, <1>7

(***************************************************************************)
(* The steps that leave the maps alone: within a persist, out of it, and   *)
(* the ends of a request.                                                  *)
(***************************************************************************)
LEMMA CalmType ==
  ASSUME TypeInv, NEW r \in Handlers, h[r].at # "idle", NEW n \in Steps,
         Moved(r), h'[r].at = n, n # "idle" => h'[r].next = h[r].next,
         n \in PersistSteps => h[r].at \in PersistSteps,
         n \notin PersistSteps => n \in {"idle", Stage(r)},
         n = "file" <=> fpc'[r] # "idle",
         \A q \in Handlers \ {r} : fpc'[q] = fpc[q],
         F!TypeOK', rd' \in [Handlers -> Snapshot], UNCHANGED mem, up' = up,
         faults' \in 0 .. MaxFaults, issued' = issued, approvedEver' = approvedEver,
         rejectAcked' \subseteq Cands, concurrent' = concurrent
  PROVE  TypeInv'
<1> USE DEF TypeInv
<1>1. up
  BY DEF HandlerOK, At
<1>2. h' \in [Handlers -> Handler] /\ \A q \in Handlers \ {r} : h'[q] = h[q]
  BY DEF Moved
<1>3. n # "idle" => Stage(r)' = Stage(r) /\ h'[r].cand = h[r].cand /\ h'[r].id = h[r].id
  BY DEF Stage, Moved, PersistSteps
<1>4. n = "idle" => h'[r] = Idle
  BY DEF Moved
<1>5. HandlerOK(r)'
  <2>1. CASE n = "idle"
    BY <1>1, <1>4, <2>1 DEF HandlerOK, Stage, At, Idle, PersistSteps, WorkStages, ValidateStages,
                            SignStages
  <2>2. CASE n # "idle"
    BY <1>1, <1>3, <2>2 DEF HandlerOK, At, mem
  <2> QED
    BY <2>1, <2>2
<1>6. \A q \in Handlers : HandlerOK(q)'
  BY <1>2, <1>5, OthersKept DEF mem
<1>7. \A q \in Handlers : h'[q].at = "file" <=> fpc'[q] # "idle"
  BY <1>2 DEF TypeOK
<1>8. TypeOK'
  BY <1>2, <1>7 DEF TypeOK, mem
<1> QED
  BY <1>1, <1>6, <1>8

LEMMA ProceedType ==
  ASSUME TypeInv, NEW r \in Handlers, Proceed(r)
  PROVE  TypeInv'
<1>1. TypeOK /\ HandlerOK(r) /\ h[r] \in Handler
  BY DEF TypeInv, TypeOK
<1>2. "idle" \in Returns /\ "validateRun" \in Returns /\ "validateFinish" \in Returns
        /\ "ackReject" \in Returns /\ "signMark" \in Returns
  BY DEF Returns
<1>3. CASE ValidateStart(r)
  <2>1. h[r].cand \in Cands /\ cand[h[r].cand] # None /\ h[r].id \in Runs /\ h[r].at \in WorkStages
    BY <1>1, <1>3 DEF ValidateStart, At, HandlerOK, Stage, PersistSteps, WorkStages, ValidateStages
  <2>2. cand' \in [Cands -> Candidate \union {None}] /\ \A c \in Cands : cand[c] # None => cand'[c] # None
    BY <1>1, <1>3, <2>1, Assigned DEF ValidateStart, SetStatus, Statuses
  <2> QED
    BY <1>1, <1>2, <1>3, <2>1, <2>2, Persists, WorkType DEF ValidateStart, hist, TypeOK
<1>4. ASSUME NEW success \in BOOLEAN, ValidateRun(r, success)
      PROVE  TypeInv'
  <2>1. h[r].cand \in Cands /\ h[r].id \in Runs /\ h[r].at \in WorkStages
    BY <1>1, <1>4 DEF ValidateRun, At, HandlerOK, Stage, PersistSteps, WorkStages, ValidateStages
  <2>2. runs' \in [Runs -> Run \union {None}]
    BY <1>1, <1>4, <2>1 DEF ValidateRun, TypeOK, Run
  <2>3. /\ h' \in [Handlers -> Handler] /\ \A q \in Handlers \ {r} : h'[q] = h[q]
        /\ h'[r].at = IF Persistent THEN "persist" ELSE "validateFinish"
        /\ h'[r].next = IF Persistent THEN "validateFinish" ELSE h[r].next
        /\ h'[r].cand = h[r].cand /\ h'[r].id = h[r].id
    BY <1>1, <1>4 DEF ValidateRun, TypeOK, Handler, Steps
  <2>4. HandlerOK(r)' /\ h'[r].at \notin {"idle", "file"} /\ up /\ h[r].at # "file"
    BY <1>1, <1>4, <2>1, <2>3
    DEF HandlerOK, At, Returns, WorkStages, ValidateStages, SignStages, PersistSteps, Stage,
        ValidateRun
  <2>5. \A q \in Handlers : HandlerOK(q)'
    BY <1>4, <2>3, <2>4, OthersKept DEF ValidateRun
  <2>6. \A q \in Handlers : h'[q].at = "file" <=> fpc'[q] # "idle"
    BY <1>1, <1>4, <2>3, <2>4 DEF TypeOK, ValidateRun, file
  <2>7. F!TypeOK'
    BY <1>1, <1>4 DEF ValidateRun, file, TypeOK, F!TypeOK
  <2>8. TypeOK'
    BY <1>1, <1>4, <2>2, <2>3, <2>6, <2>7 DEF TypeOK, ValidateRun, hist
  <2> QED
    BY <1>4, <2>4, <2>5, <2>8 DEF TypeInv, ValidateRun
<1>5. CASE ValidateFinish(r)
  <2>1. h[r].cand \in Cands /\ cand[h[r].cand] # None /\ h[r].id \in Runs /\ h[r].at \in WorkStages
    BY <1>1, <1>5 DEF ValidateFinish, At, HandlerOK, Stage, PersistSteps, WorkStages, ValidateStages
  <2>2. cand' \in [Cands -> Candidate \union {None}] /\ \A c \in Cands : cand[c] # None => cand'[c] # None
    BY <1>1, <1>5, <2>1, AssignedRun, ZenonT(40) DEF ValidateFinish, Statuses
  <2> QED
    BY <1>1, <1>2, <1>5, <2>1, <2>2, Persists, WorkType DEF ValidateFinish, hist, TypeOK
<1>6. CASE Approve(r)
  <2>1. h[r].cand \in Cands /\ cand[h[r].cand] # None /\ h[r].at \in WorkStages
    BY <1>1, <1>6 DEF Approve, At, HandlerOK, Stage, PersistSteps, WorkStages
  <2>2. cand' \in [Cands -> Candidate \union {None}] /\ \A c \in Cands : cand[c] # None => cand'[c] # None
    BY <1>1, <1>6, <2>1, Assigned DEF Approve, SetStatus, Statuses
  <2> QED
    BY <1>1, <1>2, <1>6, <2>1, <2>2, Persists, WorkType DEF Approve, TypeOK
<1>7. CASE Reject(r)
  <2>1. h[r].cand \in Cands /\ cand[h[r].cand] # None /\ h[r].at \in WorkStages
    BY <1>1, <1>7 DEF Reject, At, HandlerOK, Stage, PersistSteps, WorkStages
  <2>2. cand' \in [Cands -> Candidate \union {None}] /\ \A c \in Cands : cand[c] # None => cand'[c] # None
    BY <1>1, <1>7, <2>1, Assigned DEF Reject, SetStatus, Statuses
  <2> QED
    BY <1>1, <1>2, <1>7, <2>1, <2>2, Persists, WorkType DEF Reject, hist, TypeOK
<1>8. CASE Sign(r)
  <2>1. h[r].cand \in Cands /\ h[r].id \in Packs /\ h[r].at \in WorkStages
    BY <1>1, <1>8 DEF Sign, At, HandlerOK, Stage, PersistSteps, WorkStages, SignStages
  <2>2. packs' \in [Packs -> Cands \union {None}]
    BY <1>1, <1>8, <2>1 DEF Sign, TypeOK
  <2> QED
    BY <1>1, <1>2, <1>8, <2>1, <2>2, Persists, WorkType DEF Sign, hist, TypeOK
<1>9. CASE SignMark(r)
  <2>1. h[r].cand \in Cands /\ cand[h[r].cand] # None /\ h[r].id \in Packs /\ h[r].at \in WorkStages
    BY <1>1, <1>9 DEF SignMark, At, HandlerOK, Stage, PersistSteps, WorkStages, SignStages
  <2>2. cand' \in [Cands -> Candidate \union {None}] /\ \A c \in Cands : cand[c] # None => cand'[c] # None
    BY <1>1, <1>9, <2>1, AssignedPack DEF SignMark, Statuses
  <2> QED
    BY <1>1, <1>2, <1>9, <2>1, <2>2, Persists, WorkType DEF SignMark, hist, TypeOK
<1>10. CASE SignFails(r) \/ AckReject(r)
  <2>1. "idle" \in Steps /\ Goto(r, "idle") /\ h[r].at \in {"sign", "ackReject"}
    BY <1>10 DEF Steps, SignFails, AckReject, At
  <2>2. rejectAcked' \subseteq Cands /\ F!TypeOK'
    BY <1>1, <1>10 DEF SignFails, AckReject, TypeOK, HandlerOK, Stage, At, PersistSteps, hist, file,
                      F!TypeOK
  <2> QED
    BY <1>1, <1>10, <2>1, <2>2, Moves, CalmType
    DEF SignFails, AckReject, hist, file, TypeOK, PersistSteps
<1>11. CASE MarshalResearch(r) \/ MarshalCands(r) \/ MarshalRuns(r)
  <2>1. PICK n \in {"readCands", "readRuns", "readPacks"}, s \in Snapshot :
           /\ Goto(r, n) /\ rd' = [rd EXCEPT ![r] = s]
           /\ h[r].at \in {"persist", "readCands", "readRuns"}
           /\ UNCHANGED <<mem, up, faults, hist, file>>
    BY <1>1, <1>11, MarshalTypes DEF MarshalResearch, MarshalCands, MarshalRuns, MarshalStep, At
  <2>2. n \in Steps \ {"idle", "file"} /\ n \in PersistSteps /\ h[r].at \in PersistSteps \ {"file", "idle"}
    BY <2>1 DEF Steps, PersistSteps
  <2>3. F!TypeOK'
    BY <1>1, <2>1 DEF file, TypeOK, F!TypeOK
  <2>4. rd' \in [Handlers -> Snapshot]
    BY <1>1, <2>1 DEF TypeOK
  <2> QED
    BY <1>1, <2>1, <2>2, <2>3, <2>4, Moves, CalmType DEF hist, file, TypeOK
<1>12. CASE MarshalPacks(r)
  <2>1. "file" \in Steps /\ "file" \in PersistSteps /\ h[r].at \in PersistSteps \ {"idle"}
    BY <1>12 DEF Steps, PersistSteps, MarshalPacks, At
  <2>2. F!TypeOK'
    BY <1>1, <1>12, MarshalTypes, FileType DEF MarshalPacks, TypeOK
  <2>3. fpc'[r] # "idle" /\ \A q \in Handlers \ {r} : fpc'[q] = fpc[q]
    BY <1>1, <1>12 DEF MarshalPacks, F!Marshal, TypeOK, F!TypeOK
  <2>4. rd' \in [Handlers -> Snapshot]
    BY <1>1, <1>12, NoDataType DEF MarshalPacks, TypeOK
  <2> QED
    BY <1>1, <1>12, <2>1, <2>2, <2>3, <2>4, Moves, CalmType DEF MarshalPacks, hist, TypeOK
<1>13. CASE PersistOpen(r) \/ PersistWrite(r)
  <2>1. F!TypeOK'
    BY <1>1, <1>13, FileType DEF PersistOpen, PersistWrite, TypeOK
  <2>2. fpc'[r] # "idle" /\ \A q \in Handlers \ {r} : fpc'[q] = fpc[q]
    BY <1>1, <1>13 DEF PersistOpen, PersistWrite, F!OpenTmp, F!WriteTmp, TypeOK, F!TypeOK
  <2>3. h[r].at = "file" /\ UNCHANGED <<mem, h, rd, up, faults, hist>>
    BY <1>13 DEF PersistOpen, PersistWrite, At
  <2>4. Moved(r)
    BY <1>1, <2>3 DEF Moved, TypeInv, HandlerOK, At, TypeOK
  <2> QED
    BY <1>1, <2>1, <2>2, <2>3, <2>4, CalmType DEF hist, TypeOK, PersistSteps, Steps
<1>14. CASE PersistRename(r)
  <2>1. F!TypeOK'
    BY <1>1, <1>14, FileType DEF PersistRename, TypeOK
  <2>2. fpc'[r] = "idle" /\ \A q \in Handlers \ {r} : fpc'[q] = fpc[q]
    BY <1>1, <1>14 DEF PersistRename, F!Rename, TypeOK, F!TypeOK
  <2>3. h[r].at = "file" /\ UNCHANGED <<mem, rd, up, faults, hist>>
    BY <1>14 DEF PersistRename, At
  <2>4. PICK n \in {"idle", h[r].next} : Goto(r, n)
    BY <1>14 DEF PersistRename, OnError
  <2>5. n \in Steps /\ n \notin PersistSteps /\ Stage(r) = h[r].next
    BY <1>1, <2>3, <2>4 DEF HandlerOK, Stage, PersistSteps, Returns, Steps
  <2> QED
    BY <1>1, <2>1, <2>2, <2>3, <2>4, <2>5, Moves, CalmType DEF hist, TypeOK, PersistSteps
<1> QED
  BY <1>3, <1>4, <1>5, <1>6, <1>7, <1>8, <1>9, <1>10, <1>11, <1>12, <1>13, <1>14 DEF Proceed

LEMMA FaultType ==
  ASSUME TypeInv, NEW r \in Handlers, Fault(r)
  PROVE  TypeInv'
<1>1. TypeOK /\ HandlerOK(r) /\ h[r].at \in {"persist", "file"}
  BY DEF TypeInv, Fault, PersistWriteFails, PersistMkdirFails, At
<1>2. faults' \in 0 .. MaxFaults /\ UNCHANGED <<mem, rd, up, hist>>
  BY <1>1, PipelineAssumption DEF Fault, PersistWriteFails, PersistMkdirFails, TypeOK
<1>3. PICK n \in {"idle", h[r].next} : Goto(r, n)
  BY DEF Fault, PersistWriteFails, PersistMkdirFails, OnError
<1>4. n \in Steps /\ n \notin PersistSteps /\ Stage(r) = h[r].next
  BY <1>1, <1>3 DEF HandlerOK, Stage, PersistSteps, Returns, Steps
<1>5. F!TypeOK' /\ fpc'[r] = "idle" /\ \A q \in Handlers \ {r} : fpc'[q] = fpc[q]
  <2>1. CASE PersistWriteFails(r)
    BY <1>1, <2>1, FileType DEF PersistWriteFails, F!WriteFails, TypeOK, F!TypeOK
  <2>2. CASE PersistMkdirFails(r)
    BY <1>1, <2>2 DEF PersistMkdirFails, file, At, TypeOK, F!TypeOK
  <2> QED
    BY <2>1, <2>2 DEF Fault
<1> QED
  BY <1>1, <1>2, <1>3, <1>4, <1>5, Moves, CalmType DEF hist, TypeOK, PersistSteps

LEMMA CrashType == ASSUME TypeInv, Crash PROVE TypeInv'
<1>1. F!TypeOK' /\ \A q \in Handlers : fpc'[q] = "idle"
  BY PipelineAssumption DEF Crash, F!Crash, TypeInv, TypeOK, F!TypeOK, F!Data, F!Entry
<1>2. Idle \in Handler /\ Idle.at = "idle"
  BY DEF Idle, Handler, Steps
<1>3. h' = [r \in Handlers |-> Idle] /\ Memory' = NoData /\ faults' = faults + 1 /\ ~up' /\ faults < MaxFaults
        /\ rd' = [r \in Handlers |-> NoData] /\ UNCHANGED hist
  BY DEF Crash, Memory, NoData
<1>4. research' \subseteq Research /\ cand' \in [Cands -> Candidate \union {None}]
        /\ runs' \in [Runs -> Run \union {None}] /\ packs' \in [Packs -> Cands \union {None}]
  BY NoDataType, FieldTypes DEF Crash
<1>5. \A r \in Handlers : HandlerOK(r)'
  BY <1>2, <1>3 DEF HandlerOK, Stage, At, PersistSteps, WorkStages, ValidateStages, SignStages
<1>6. up' \in BOOLEAN /\ faults' \in 0 .. MaxFaults
  <2>1. up' \in BOOLEAN
    BY DEF Crash
  <2>2. faults \in 0 .. MaxFaults
    BY DEF TypeInv, TypeOK
  <2> QED
    BY <1>3, <2>1, <2>2, PipelineAssumption
<1>7. h' \in [Handlers -> Handler] /\ rd' \in [Handlers -> Snapshot]
        /\ \A q \in Handlers : h'[q].at = "file" <=> fpc'[q] # "idle"
  BY <1>1, <1>2, <1>3, NoDataType
<1>8. TypeOK'
  BY <1>1, <1>3, <1>4, <1>6, <1>7 DEF TypeOK, hist, TypeInv
<1> QED
  BY <1>3, <1>5, <1>6, <1>8, PipelineAssumption DEF TypeInv, TypeOK

LEMMA RestartType == ASSUME TypeInv, Restart PROVE TypeInv'
<1>1. Loaded \in Snapshot /\ up' /\ research' = Loaded.research /\ cand' = Loaded.cand
        /\ runs' = Loaded.runs /\ packs' = Loaded.packs /\ UNCHANGED <<h, rd, faults, hist, file>>
  BY DEF Restart
<1>2. research' \subseteq Research /\ cand' \in [Cands -> Candidate \union {None}]
        /\ runs' \in [Runs -> Run \union {None}] /\ packs' \in [Packs -> Cands \union {None}]
  BY <1>1, FieldTypes
<1>3. \A r \in Handlers : h[r] = Idle
  BY DEF TypeInv, HandlerOK, Restart
<1>4. \A r \in Handlers : HandlerOK(r)'
  <2> SUFFICES ASSUME NEW r \in Handlers PROVE HandlerOK(r)'
    OBVIOUS
  <2>1. h'[r] = Idle /\ Idle.at = "idle"
    BY <1>1, <1>3 DEF Idle
  <2> QED
    BY <2>1 DEF HandlerOK, Stage, At, PersistSteps, WorkStages, ValidateStages, SignStages
<1>5. F!TypeOK'
  BY <1>1 DEF file, TypeInv, TypeOK, F!TypeOK
<1>6. TypeOK'
  BY <1>1, <1>2, <1>5 DEF TypeInv, TypeOK, hist, file
<1> QED
  BY <1>1, <1>4, <1>6 DEF TypeInv

LEMMA StutterType == ASSUME TypeInv, UNCHANGED vars PROVE TypeInv'
<1>1. F!TypeOK'
  BY DEF vars, file, TypeInv, TypeOK, F!TypeOK
<1> QED
  BY <1>1 DEF vars, mem, hist, file, TypeInv, TypeOK, HandlerOK, Stage, At, Memory

LEMMA NextType == TypeInv /\ [Next]_vars => TypeInv'
  BY RequestType, ProceedType, FaultType, CrashType, RestartType, StutterType DEF Next

(***************************************************************************)
(* The maps, the handlers and the file keep their types, a handler has the *)
(* candidate and the id its step uses, and nothing outlives the process.   *)
(***************************************************************************)
THEOREM TypeInvariance == Spec => []TypeInv
  BY InitType, NextType, PTL DEF Spec

(***************************************************************************)
(* Every step of the service either is one step of the file protocol or    *)
(* leaves the file alone: only persist (MarshalPacks to PersistRename) and *)
(* the end of the process touch it, one handler at a time.                 *)
(***************************************************************************)
LEMMA FileStep == TypeInv /\ [Next]_vars => [F!Next]_F!vars
<1> SUFFICES ASSUME TypeInv, [Next]_vars PROVE F!Next \/ UNCHANGED file
  BY DEF file, F!vars
<1>1. TypeOK
  BY DEF TypeInv
<1>2. ASSUME NEW r \in Handlers, Request(r) PROVE UNCHANGED file
  <2>1. ASSUME NEW n, NEW c, NEW i, Admit(r, n, c, i) PROVE UNCHANGED file
    BY <2>1 DEF Admit
  <2>2. ASSUME NEW i, CreateResearch(r, i) PROVE UNCHANGED file
    BY <2>2 DEF CreateResearch
  <2>3. ASSUME NEW c, CreateCandidate(r, c) PROVE UNCHANGED file
    BY <2>3 DEF CreateCandidate
  <2>4. ASSUME NEW c, NEW v, ValidateAdmit(r, c, v) PROVE UNCHANGED file
    BY <2>1, <2>4 DEF ValidateAdmit
  <2>5. ASSUME NEW c, ApproveAdmit(r, c) \/ RejectAdmit(r, c) PROVE UNCHANGED file
    BY <2>1, <2>5 DEF ApproveAdmit, RejectAdmit
  <2>6. ASSUME NEW c, NEW p, SignAdmit(r, c, p) PROVE UNCHANGED file
    BY <2>1, <2>6 DEF SignAdmit
  <2> QED
    BY <1>2, <2>2, <2>3, <2>4, <2>5, <2>6 DEF Request
<1>3. ASSUME NEW r \in Handlers, Proceed(r) PROVE F!Next \/ UNCHANGED file
  <2>1. CASE \/ ValidateStart(r) \/ (\E success \in BOOLEAN : ValidateRun(r, success))
             \/ ValidateFinish(r) \/ Approve(r) \/ Reject(r) \/ AckReject(r)
             \/ Sign(r) \/ SignFails(r) \/ SignMark(r)
             \/ MarshalResearch(r) \/ MarshalCands(r) \/ MarshalRuns(r)
    BY <2>1 DEF ValidateStart, ValidateRun, ValidateFinish, Approve, Reject, AckReject, Sign,
                SignFails, SignMark, MarshalResearch, MarshalCands, MarshalRuns, MarshalStep
  <2>2. CASE MarshalPacks(r)
    BY <1>1, <2>2, MarshalTypes DEF MarshalPacks, F!Next
  <2>3. CASE PersistOpen(r) \/ PersistWrite(r) \/ PersistRename(r)
    BY <2>3 DEF PersistOpen, PersistWrite, PersistRename, F!Next
  <2> QED
    BY <1>3, <2>1, <2>2, <2>3 DEF Proceed
<1>4. ASSUME NEW r \in Handlers, Fault(r) PROVE F!Next \/ UNCHANGED file
  BY <1>4 DEF Fault, PersistWriteFails, PersistMkdirFails, F!Next
<1>5. ASSUME Crash PROVE F!Next
  BY <1>5 DEF Crash, F!Next
<1>6. ASSUME Restart PROVE UNCHANGED file
  BY <1>6 DEF Restart
<1>7. ASSUME UNCHANGED vars PROVE UNCHANGED file
  BY <1>7 DEF vars
<1> QED
  BY <1>2, <1>3, <1>4, <1>5, <1>6, <1>7 DEF Next

(***************************************************************************)
(* Composition: the handlers of the service, with their requests, races    *)
(* and crashes, drive the state file through the steps of SnapshotFile     *)
(* only (Store.persist), so what holds of that module holds of their file. *)
(***************************************************************************)
THEOREM PipelineDrivesFile == Spec => F!Spec
<1>1. Init => F!Init
  BY DEF Init
<1> QED
  BY <1>1, FileStep, TypeInvariance, PTL DEF Spec, F!Spec

-----------------------------------------------------------------------------
(***************************************************************************)
(* References and reviews.  A snapshot is sound when its ids were issued,  *)
(* its references are whole, what is past validation has a successful run  *)
(* and what is approved, signed or packed was approved.  The memory and    *)
(* every snapshot on its way to the file are sound; a marshal in progress  *)
(* is sound if the maps it has not read yet are taken as they are now,     *)
(* because runs and packs only grow while the process runs.                *)
(***************************************************************************)
Sound(s, ids, approved) ==
    /\ \A c \in Cands : s.cand[c] # None => c \in ids
    /\ \A v \in Runs : s.runs[v] # None => v \in ids
    /\ \A p \in Packs : s.packs[p] # None => p \in ids /\ s.packs[p] \in approved
    /\ RefsOK(s)
    /\ Reviewed(s)
    /\ \A c \in Cands : s.cand[c] # None /\ s.cand[c].status \in {"approved", "signed"} => c \in approved

Passed(c) == \E v \in Runs : runs[v] # None /\ runs[v].cand = c /\ runs[v].success

(***************************************************************************)
(* What a handler knows at its step: its id is its own and was issued, the *)
(* run or pack of that id is not there before it has stored it and is what *)
(* it stored afterwards, and what it approves or signs has passed.         *)
(***************************************************************************)
WorkOK(r) ==
    /\ h[r].id # None => h[r].id \in issued
    /\ Stage(r) \in {"validateStart", "validateRun"} => runs[h[r].id] = None
    /\ Stage(r) = "validateFinish" =>
          runs[h[r].id] = [cand |-> h[r].cand, success |-> h[r].ok]
    /\ Stage(r) = "sign" => packs[h[r].id] = None
    /\ Stage(r) = "signMark" => packs[h[r].id] = h[r].cand
    /\ Stage(r) \in SignStages \union {"approve"} => Passed(h[r].cand)
    /\ Stage(r) \in SignStages => h[r].cand \in approvedEver

ReadOK(r) ==
    /\ At(r, "readRuns") =>
          Sound([rd[r] EXCEPT !.runs = runs, !.packs = packs], issued, approvedEver)
    /\ At(r, "readPacks") => Sound([rd[r] EXCEPT !.packs = packs], issued, approvedEver)

DataInv ==
    /\ Sound(Memory, issued, approvedEver)
    /\ \A i \in Inodes : data[i] \in Snapshot => Sound(data[i], issued, approvedEver)
    /\ \A r \in Handlers : snap[r] \in Snapshot => Sound(snap[r], issued, approvedEver)
    /\ \A r \in Handlers : ReadOK(r)
    /\ \A r \in Handlers : WorkOK(r)
    /\ \A q, r \in Handlers : h[q].id = h[r].id /\ h[q].id # None => q = r

LEMMA SoundLater ==
  ASSUME NEW s, NEW ids, NEW ids2, NEW approved, NEW approved2,
         ids \subseteq ids2, approved \subseteq approved2, Sound(s, ids, approved)
  PROVE  Sound(s, ids2, approved2)
  BY DEF Sound

(***************************************************************************)
(* Runs and packs may be added to a sound snapshot.                        *)
(***************************************************************************)
LEMMA SoundGrown ==
  ASSUME NEW s \in Snapshot, NEW t \in Snapshot, NEW ids, NEW approved,
         Sound(s, ids, approved), t.cand = s.cand,
         \A v \in Runs : s.runs[v] # None => t.runs[v] = s.runs[v],
         \A p \in Packs : s.packs[p] # None => t.packs[p] = s.packs[p],
         \A v \in Runs : t.runs[v] # None => v \in ids,
         \A p \in Packs : t.packs[p] # None => p \in ids /\ t.packs[p] \in approved
  PROVE  Sound(t, ids, approved)
<1>1. RefsOK(t)
  <2> SUFFICES ASSUME NEW c \in Cands, t.cand[c] # None
               PROVE  /\ t.cand[c].lastRun # None =>
                            t.runs[t.cand[c].lastRun] # None /\ t.runs[t.cand[c].lastRun].cand = c
                      /\ t.cand[c].pack # None => t.packs[t.cand[c].pack] = c
    BY DEF RefsOK
  <2>1. t.cand[c] \in Candidate
    BY FieldTypes
  <2>2. t.cand[c].lastRun \in Runs \union {None} /\ t.cand[c].pack \in Packs \union {None} /\ c # None
    BY <2>1, PipelineAssumption DEF Candidate
  <2> QED
    BY <2>2 DEF Sound, RefsOK
<1>2. Reviewed(t)
  BY DEF Sound, Reviewed
<1> QED
  BY <1>1, <1>2 DEF Sound

LEMMA NoDataSound == \A ids, approved : Sound(NoData, ids, approved)
  BY DEF Sound, RefsOK, Reviewed, NoData

LEMMA MemoryType == TypeOK => Memory \in Snapshot
  BY DEF TypeOK, Memory, Snapshot

LEMMA InitData == Init => DataInv
<1> SUFFICES ASSUME Init PROVE DataInv
  OBVIOUS
<1>1. Memory = NoData
  BY DEF Init, Memory, NoData
<1>2. \A r \in Handlers : snap[r] \notin Snapshot /\ h[r] = Idle /\ Idle.at = "idle" /\ Idle.id = None
  BY BytesAssumption DEF Init, F!Init, Idle
<1>3. \A i \in Inodes : data[i] \notin Snapshot
  BY BytesAssumption DEF Init, F!Init
<1>4. \A r \in Handlers : WorkOK(r) /\ ReadOK(r)
  BY <1>2 DEF WorkOK, ReadOK, Stage, PersistSteps, At, SignStages
<1> QED
  BY <1>1, <1>2, <1>3, <1>4, NoDataSound DEF DataInv

(***************************************************************************)
(* A step of handler r keeps DataInv when it stores nothing but a run or a *)
(* pack under its own new id, keeps the memory sound and writes to the     *)
(* file only what it has marshalled.                                       *)
(***************************************************************************)
LEMMA DataStep ==
  ASSUME TypeInv, TypeInv', DataInv, NEW r \in Handlers,
         \A q \in Handlers \ {r} : h'[q] = h[q] /\ rd'[q] = rd[q],
         h'[r].id = h[r].id \/ h'[r].id = None \/ h'[r].id \notin issued,
         \A v \in Runs : runs'[v] = runs[v] \/ (v = h[r].id /\ runs[v] = None),
         \A p \in Packs : packs'[p] = packs[p] \/ (p = h[r].id /\ packs[p] = None),
         issued \subseteq issued', approvedEver \subseteq approvedEver',
         Sound(Memory, issued, approvedEver)', WorkOK(r)', ReadOK(r)',
         \A i \in Inodes : data'[i] \in {data[i], snap[r], Empty, Torn},
         \A q \in Handlers \ {r} : snap'[q] = snap[q],
         snap'[r] = snap[r] \/ snap'[r] = Empty \/ Sound(snap'[r], issued', approvedEver')
  PROVE  DataInv'
<1> USE DEF DataInv
<1>1. \A i \in Inodes : data'[i] \in Snapshot => Sound(data'[i], issued', approvedEver')
  BY SoundLater, BytesAssumption
<1>2. \A q \in Handlers : snap'[q] \in Snapshot => Sound(snap'[q], issued', approvedEver')
  BY SoundLater, BytesAssumption
<1>3. /\ \A v \in Runs : runs[v] # None => runs'[v] = runs[v]
      /\ \A p \in Packs : packs[p] # None => packs'[p] = packs[p]
      /\ \A v \in Runs : runs'[v] # None => v \in issued'
      /\ \A p \in Packs : packs'[p] # None => p \in issued' /\ packs'[p] \in approvedEver'
      /\ runs' \in [Runs -> Run \union {None}] /\ packs' \in [Packs -> Cands \union {None}]
      /\ runs \in [Runs -> Run \union {None}] /\ packs \in [Packs -> Cands \union {None}]
  BY DEF Sound, Memory, TypeInv, TypeOK
<1>4. ASSUME NEW q \in Handlers \ {r} PROVE WorkOK(q)' /\ ReadOK(q)'
  <2>1. h'[q] = h[q] /\ rd'[q] = rd[q] /\ rd[q] \in Snapshot /\ WorkOK(q) /\ ReadOK(q) /\ HandlerOK(q)
    BY DEF TypeInv, TypeOK
  <2>2. /\ h[q].id # None => h[q].id # h[r].id
        /\ Stage(q)' = Stage(q)
    BY <2>1 DEF Stage
  <2>3. Stage(q) \in ValidateStages => h[q].id \in Runs /\ runs'[h[q].id] = runs[h[q].id]
    BY <2>1, <2>2, PipelineAssumption DEF HandlerOK, ValidateStages
  <2>4. Stage(q) \in SignStages => h[q].id \in Packs /\ packs'[h[q].id] = packs[h[q].id]
    BY <2>1, <2>2, PipelineAssumption DEF HandlerOK, SignStages
  <2>5. \A c : Passed(c) => Passed(c)'
    BY <1>3 DEF Passed
  <2>6. WorkOK(q)'
    BY <2>1, <2>2, <2>3, <2>4, <2>5 DEF WorkOK, SignStages, ValidateStages
  <2>7. ASSUME At(q, "readRuns") PROVE Sound([rd[q] EXCEPT !.runs = runs', !.packs = packs'], issued', approvedEver')
    <3> DEFINE s == [rd[q] EXCEPT !.runs = runs, !.packs = packs]
               t == [rd[q] EXCEPT !.runs = runs', !.packs = packs']
    <3>1. s \in Snapshot /\ t \in Snapshot
      BY <1>3, <2>1 DEF Snapshot
    <3>2. t.cand = s.cand /\ s.runs = runs /\ s.packs = packs /\ t.runs = runs' /\ t.packs = packs'
      BY <2>1 DEF Snapshot
    <3>3. Sound(s, issued', approvedEver')
      BY <2>1, <2>7, SoundLater DEF ReadOK
    <3> HIDE DEF s, t
    <3>4. Sound(t, issued', approvedEver')
      BY <1>3, <3>1, <3>2, <3>3, SoundGrown
    <3> QED
      BY <3>4 DEF t
  <2>8. ASSUME At(q, "readPacks") PROVE Sound([rd[q] EXCEPT !.packs = packs'], issued', approvedEver')
    <3> DEFINE s == [rd[q] EXCEPT !.packs = packs]
               t == [rd[q] EXCEPT !.packs = packs']
    <3>1. s \in Snapshot /\ t \in Snapshot
      BY <1>3, <2>1 DEF Snapshot
    <3>2. t.cand = s.cand /\ t.runs = s.runs /\ s.packs = packs /\ t.packs = packs'
      BY <2>1 DEF Snapshot
    <3>3. Sound(s, issued', approvedEver') /\ Sound(s, issued, approvedEver)
      BY <2>1, <2>8, SoundLater DEF ReadOK
    <3> HIDE DEF s, t
    <3>4. \A v \in Runs : t.runs[v] # None => v \in issued'
      BY <3>2, <3>3 DEF Sound
    <3>5. Sound(t, issued', approvedEver')
      BY <1>3, <3>1, <3>2, <3>3, <3>4, SoundGrown
    <3> QED
      BY <3>5 DEF t
  <2>9. ReadOK(q)'
    BY <2>1, <2>7, <2>8 DEF ReadOK, At
  <2> QED
    BY <2>6, <2>9
<1>5. \A p, q \in Handlers : h'[p].id = h'[q].id /\ h'[p].id # None => p = q
  <2>1. \A q \in Handlers : h[q].id # None => h[q].id \in issued
    BY DEF WorkOK
  <2>2. ASSUME NEW q \in Handlers \ {r}, h'[q].id # None PROVE h'[q].id # h'[r].id
    <3>1. h'[q].id = h[q].id /\ h[q].id \in issued /\ h[q].id # h[r].id
      BY <2>1, <2>2
    <3> QED
      BY <2>2, <3>1
  <2>3. \A p, q \in Handlers \ {r} : h'[p].id = h'[q].id /\ h'[p].id # None => p = q
    OBVIOUS
  <2> QED
    BY <2>2, <2>3
<1> QED
  BY <1>1, <1>2, <1>4, <1>5

(***************************************************************************)
(* The memory stays sound when one candidate is replaced by x whose        *)
(* references are whole and whose review is in order, ...                  *)
(***************************************************************************)
LEMMA MemoryAssigned ==
  ASSUME TypeOK, Sound(Memory, issued, approvedEver), NEW c \in Cands, NEW x \in Candidate,
         cand'[c] = x, \A d \in Cands \ {c} : cand'[d] = cand[d],
         runs' = runs, packs' = packs,
         c \in issued', issued \subseteq issued', approvedEver \subseteq approvedEver',
         x.lastRun # None => runs[x.lastRun] # None /\ runs[x.lastRun].cand = c,
         x.pack # None => packs[x.pack] = c,
         x.status \in {"ready_for_review", "approved", "signed"} => Passed(c),
         x.status \in {"approved", "signed"} => c \in approvedEver'
  PROVE  Sound(Memory, issued, approvedEver)'
<1>1. RefsOK(Memory)'
  BY DEF Sound, RefsOK, Memory
<1>2. Reviewed(Memory)'
  BY DEF Sound, Reviewed, Memory, Passed
<1> QED
  BY <1>1, <1>2 DEF Sound, Memory

(***************************************************************************)
(* ... and when a run or a pack is added.                                  *)
(***************************************************************************)
LEMMA MemoryStored ==
  ASSUME TypeOK, TypeOK', Sound(Memory, issued, approvedEver), cand' = cand,
         NEW v, NEW p, issued' = issued, approvedEver' = approvedEver,
         \A w \in Runs : runs'[w] = runs[w] \/ (w = v /\ runs[w] = None),
         \A q \in Packs : packs'[q] = packs[q]
                             \/ (q = p /\ packs[q] = None /\ packs'[q] \in approvedEver),
         v \in Runs => runs'[v] = runs[v] \/ v \in issued,
         p \in Packs => packs'[p] = packs[p] \/ p \in issued
  PROVE  Sound(Memory, issued, approvedEver)'
<1>1. Memory \in Snapshot /\ Memory' \in Snapshot
  BY MemoryType DEF Memory, TypeOK, Snapshot
<1>2. /\ Memory'.cand = Memory.cand /\ Memory.runs = runs /\ Memory.packs = packs
      /\ Memory'.runs = runs' /\ Memory'.packs = packs'
  BY DEF Memory
<1>3. /\ \A w \in Runs : runs[w] # None => runs'[w] = runs[w]
      /\ \A q \in Packs : packs[q] # None => packs'[q] = packs[q]
      /\ \A w \in Runs : runs'[w] # None => w \in issued
      /\ \A q \in Packs : packs'[q] # None => q \in issued /\ packs'[q] \in approvedEver
  BY <1>2 DEF Sound
<1> QED
  BY <1>1, <1>2, <1>3, SoundGrown

LEMMA FileKept ==
  ASSUME UNCHANGED file, NEW r \in Handlers
  PROVE  /\ \A i \in Inodes : data'[i] \in {data[i], snap[r], Empty, Torn}
         /\ \A q \in Handlers \ {r} : snap'[q] = snap[q]
         /\ snap'[r] = snap[r]
  BY DEF file

LEMMA RequestData ==
  ASSUME TypeInv, TypeInv', DataInv, NEW r \in Handlers, Request(r)
  PROVE  DataInv'
<1> USE DEF DataInv
<1>0. TypeOK /\ h[r] = Idle /\ Idle.id = None /\ rd' = rd /\ approvedEver' = approvedEver
        /\ UNCHANGED file /\ issued \subseteq issued'
  BY DEF Request, CreateResearch, CreateCandidate, ValidateAdmit, ApproveAdmit, RejectAdmit,
         SignAdmit, Admit, Arrives, HandlerOK, At, TypeInv, Idle
<1>1. ASSUME NEW n \in WorkStages, NEW c \in Cands, NEW i \in Runs \union Packs \union {None},
             Admit(r, n, c, i),
             n \notin {"validateRun", "validateFinish", "signMark"},
             n \in ValidateStages => i \in Runs /\ runs[i] = None,
             n \in SignStages => i \in Packs /\ packs[i] = None,
             n \in SignStages \union {"approve"} => Passed(c),
             n \in SignStages => c \in approvedEver
      PROVE  DataInv'
  <2>1. /\ \A q \in Handlers \ {r} : h'[q] = h[q]
        /\ h'[r].at = n /\ h'[r].cand = c /\ h'[r].id = i
        /\ Stage(r)' = n
        /\ n \notin PersistSteps \union {"idle", "ackReject", "file"}
    BY <1>0, <1>1, Admitted
  <2>2. UNCHANGED mem /\ i \notin issued /\ (i # None => i \in issued')
    BY <1>1 DEF Admit, Arrives
  <2>3. WorkOK(r)'
    <3>1. Passed(c) => Passed(c)'
      BY <2>2 DEF Passed, mem
    <3> QED
      BY <1>0, <1>1, <2>1, <2>2, <3>1 DEF WorkOK, mem, ValidateStages, SignStages
  <2>4. ReadOK(r)'
    BY <2>1 DEF ReadOK, At, PersistSteps
  <2>5. Sound(Memory, issued, approvedEver)'
    <3>1. Memory' = Memory
      BY <2>2 DEF Memory, mem
    <3> QED
      BY <1>0, <3>1, SoundLater
  <2> QED
    BY <1>0, <2>1, <2>2, <2>3, <2>4, <2>5, FileKept, DataStep DEF mem
<1>2. ASSUME NEW c \in Cands, CreateCandidate(r, c) PROVE DataInv'
  <2>1. Moved(r) /\ Stage(r)' = "idle" /\ h'[r].at \in {"persist", "idle"}
    BY <1>0, <1>2, Persists DEF CreateCandidate, Returns
  <2>2. [status |-> "draft", lastRun |-> None, pack |-> None] \in Candidate
    BY DEF Candidate, Statuses
  <2>3. c \in issued' /\ UNCHANGED <<research, runs, packs>>
    BY <1>2, PipelineAssumption DEF CreateCandidate, Arrives
  <2>4. Sound(Memory, issued, approvedEver)'
    BY <1>0, <1>2, <2>2, <2>3, MemoryAssigned DEF CreateCandidate, TypeOK
  <2>5. WorkOK(r)'
    BY <1>0, <2>1 DEF WorkOK, Moved, ValidateStages, SignStages
  <2>6. ReadOK(r)'
    BY <2>1 DEF ReadOK, At
  <2> QED
    BY <1>0, <2>1, <2>3, <2>4, <2>5, <2>6, FileKept, DataStep DEF Moved
<1>3. ASSUME NEW i \in Research, CreateResearch(r, i) PROVE DataInv'
  <2>1. Moved(r) /\ Stage(r)' = "idle" /\ h'[r].at \in {"persist", "idle"}
    BY <1>0, <1>3, Persists DEF CreateResearch, Returns
  <2>2. UNCHANGED <<cand, runs, packs>>
    BY <1>3 DEF CreateResearch
  <2>3. Sound(Memory, issued, approvedEver)'
    <3>1. Sound(Memory', issued, approvedEver)
      BY <2>2 DEF Sound, Memory, RefsOK, Reviewed
    <3> QED
      BY <1>0, <3>1, SoundLater
  <2>4. WorkOK(r)'
    BY <1>0, <2>1 DEF WorkOK, Moved, ValidateStages, SignStages
  <2>5. ReadOK(r)'
    BY <2>1 DEF ReadOK, At
  <2> QED
    BY <1>0, <2>1, <2>2, <2>3, <2>4, <2>5, FileKept, DataStep DEF Moved
<1>4. ASSUME NEW c \in Cands, NEW v \in Runs, ValidateAdmit(r, c, v) PROVE DataInv'
  <2>1. Admit(r, "validateStart", c, v) /\ v \notin issued
    BY <1>4 DEF ValidateAdmit, Admit, Arrives
  <2>2. runs[v] = None
    BY <2>1 DEF Sound, Memory
  <2> QED
    BY <1>1, <2>1, <2>2 DEF WorkStages, ValidateStages, SignStages
<1>5. ASSUME NEW c \in Cands, ApproveAdmit(r, c) PROVE DataInv'
  <2>1. Admit(r, "approve", c, None) /\ cand[c] # None /\ cand[c].status = "ready_for_review"
    BY <1>5 DEF ApproveAdmit
  <2>2. Passed(c)
    BY <2>1 DEF Sound, Reviewed, Memory, Passed
  <2> QED
    BY <1>1, <2>1, <2>2 DEF WorkStages, ValidateStages, SignStages
<1>6. ASSUME NEW c \in Cands, RejectAdmit(r, c) PROVE DataInv'
  BY <1>1, <1>6 DEF RejectAdmit, WorkStages, ValidateStages, SignStages
<1>7. ASSUME NEW c \in Cands, NEW p \in Packs, SignAdmit(r, c, p) PROVE DataInv'
  <2>1. Admit(r, "sign", c, p) /\ p \notin issued /\ cand[c] # None /\ cand[c].status = "approved"
    BY <1>7 DEF SignAdmit, Admit, Arrives
  <2>2. packs[p] = None /\ Passed(c) /\ c \in approvedEver
    BY <2>1 DEF Sound, Reviewed, Memory, Passed
  <2> QED
    BY <1>1, <2>1, <2>2 DEF WorkStages, ValidateStages, SignStages
<1> QED
  BY <1>2, <1>3, <1>4, <1>5, <1>6, <1>7 DEF Request

(***************************************************************************)
(* A handler at work that assigns or stores, and persists.                 *)
(***************************************************************************)
LEMMA WorkData ==
  ASSUME TypeInv, TypeInv', DataInv, NEW r \in Handlers, NEW n \in Returns,
         Moved(r), Stage(r)' = n, h'[r].at \in {"persist", n},
         \A v \in Runs : runs'[v] = runs[v] \/ (v = h[r].id /\ runs[v] = None),
         \A p \in Packs : packs'[p] = packs[p] \/ (p = h[r].id /\ packs[p] = None),
         issued' = issued, approvedEver \subseteq approvedEver', rd' = rd, UNCHANGED file,
         Sound(Memory, issued, approvedEver)',
         n = "validateRun" => runs'[h[r].id] = None,
         n = "validateFinish" =>
            h'[r].at # "idle" /\ runs'[h[r].id] = [cand |-> h[r].cand, success |-> h'[r].ok],
         n = "signMark" => /\ packs'[h[r].id] = h[r].cand
                           /\ Passed(h[r].cand) /\ runs' = runs /\ h[r].cand \in approvedEver'
  PROVE  DataInv'
<1> USE DEF DataInv
<1>1. h[r].id # None => h[r].id \in issued
  BY DEF WorkOK
<1>2. WorkOK(r)'
  <2>1. h'[r].id # None => h'[r].id \in issued'
    BY <1>1 DEF Moved
  <2>2. CASE h'[r].at = "idle"
    BY <2>1, <2>2 DEF WorkOK, Stage, PersistSteps, SignStages, Returns
  <2>3. CASE h'[r].at # "idle"
    <3>1. h'[r].cand = h[r].cand /\ h'[r].id = h[r].id
      BY <2>3 DEF Moved
    <3>2. n = "signMark" => Passed(h[r].cand)'
      BY <3>1 DEF Passed
    <3> QED
      BY <2>1, <3>1, <3>2 DEF WorkOK, SignStages, Returns
  <2> QED
    BY <2>2, <2>3
<1>3. ReadOK(r)'
  BY DEF ReadOK, At, Returns
<1> QED
  BY <1>2, <1>3, FileKept, DataStep DEF Moved

LEMMA CalmData ==
  ASSUME TypeInv, TypeInv', DataInv, NEW r \in Handlers, h[r].at # "idle", NEW n \in Steps,
         Moved(r), h'[r].at = n,
         n # "idle" => h'[r].next = h[r].next /\ h'[r].ok = h[r].ok,
         n \in PersistSteps => h[r].at \in PersistSteps,
         n \notin PersistSteps => n \in {"idle", Stage(r)},
         \A q \in Handlers \ {r} : rd'[q] = rd[q], UNCHANGED mem,
         issued' = issued, approvedEver' = approvedEver, ReadOK(r)',
         \A i \in Inodes : data'[i] \in {data[i], snap[r], Empty, Torn},
         \A q \in Handlers \ {r} : snap'[q] = snap[q],
         snap'[r] = snap[r] \/ snap'[r] = Empty \/ Sound(snap'[r], issued', approvedEver')
  PROVE  DataInv'
<1> USE DEF DataInv
<1>1. WorkOK(r)'
  <2>1. CASE n = "idle"
    BY <2>1 DEF Moved, Idle, WorkOK, Stage, PersistSteps, SignStages
  <2>2. CASE n # "idle"
    <3>1. Stage(r)' = Stage(r) /\ h'[r].cand = h[r].cand /\ h'[r].id = h[r].id /\ h'[r].ok = h[r].ok
      BY <2>2 DEF Stage, Moved, PersistSteps
    <3>2. \A c : Passed(c)' <=> Passed(c)
      BY DEF Passed, mem
    <3> QED
      BY <3>1, <3>2 DEF WorkOK, mem
  <2> QED
    BY <2>1, <2>2
<1>2. Sound(Memory, issued, approvedEver)'
  BY DEF Memory, mem
<1> QED
  BY <1>1, <1>2, DataStep DEF Moved, mem

LEMMA WorkProceedData ==
  ASSUME TypeInv, TypeInv', DataInv, NEW r \in Handlers,
         \/ ValidateStart(r) \/ ValidateFinish(r) \/ Approve(r) \/ Reject(r) \/ Sign(r)
         \/ SignMark(r) \/ \E success \in BOOLEAN : ValidateRun(r, success)
  PROVE  DataInv'
<1>1. TypeOK /\ TypeOK' /\ HandlerOK(r) /\ WorkOK(r) /\ Sound(Memory, issued, approvedEver) /\ h[r] \in Handler
  BY DEF TypeInv, TypeOK, DataInv
<1>2. "idle" \in Returns /\ "validateRun" \in Returns /\ "validateFinish" \in Returns
        /\ "ackReject" \in Returns /\ "signMark" \in Returns
  BY DEF Returns
<1>3. ASSUME h[r].cand \in Cands, cand[h[r].cand] # None
      PROVE  /\ h[r].cand \in issued /\ cand[h[r].cand] \in Candidate
             /\ cand[h[r].cand].lastRun # None =>
                   runs[cand[h[r].cand].lastRun] # None /\ runs[cand[h[r].cand].lastRun].cand = h[r].cand
             /\ cand[h[r].cand].pack # None => packs[cand[h[r].cand].pack] = h[r].cand
  BY <1>1, <1>3 DEF Sound, Memory, RefsOK, TypeOK
<1>4. ASSUME NEW s \in {"validating", "approved", "rejected"}, SetStatus(r, s),
             h[r].cand \in Cands, cand[h[r].cand] # None,
             issued' = issued, approvedEver \subseteq approvedEver', runs' = runs, packs' = packs,
             s = "approved" => Passed(h[r].cand) /\ h[r].cand \in approvedEver'
      PROVE  Sound(Memory, issued, approvedEver)'
  <2> DEFINE x == [cand[h[r].cand] EXCEPT !.status = s]
  <2>1. s \in Statuses
    BY DEF Statuses
  <2>2. cand'[h[r].cand] = x /\ \A d \in Cands \ {h[r].cand} : cand'[d] = cand[d]
    BY <1>1, <1>4, <2>1, Assigned DEF SetStatus
  <2>3. x \in Candidate
    BY <1>3, <1>4, <2>1 DEF Candidate
  <2>4. x.status = s /\ x.lastRun = cand[h[r].cand].lastRun /\ x.pack = cand[h[r].cand].pack
    BY <1>3, <1>4 DEF Candidate
  <2> HIDE DEF x
  <2> QED
    BY <1>1, <1>3, <1>4, <2>2, <2>3, <2>4, MemoryAssigned
<1>5. CASE ValidateStart(r)
  <2>1. h[r].cand \in Cands /\ cand[h[r].cand] # None /\ runs[h[r].id] = None
    BY <1>1, <1>5 DEF ValidateStart, At, HandlerOK, WorkOK, Stage, PersistSteps, WorkStages, ValidateStages
  <2>2. Sound(Memory, issued, approvedEver)'
    BY <1>4, <1>5, <2>1 DEF ValidateStart, hist
  <2> QED
    BY <1>1, <1>2, <1>5, <2>1, <2>2, Persists, WorkData DEF ValidateStart, hist
<1>6. CASE Approve(r)
  <2>1. h[r].cand \in Cands /\ cand[h[r].cand] # None /\ Passed(h[r].cand)
    BY <1>1, <1>6 DEF Approve, At, HandlerOK, WorkOK, Stage, PersistSteps, WorkStages
  <2>2. Sound(Memory, issued, approvedEver)'
    BY <1>4, <1>6, <2>1 DEF Approve
  <2> QED
    BY <1>1, <1>2, <1>6, <2>1, <2>2, Persists, WorkData DEF Approve
<1>7. CASE Reject(r)
  <2>1. h[r].cand \in Cands /\ cand[h[r].cand] # None
    BY <1>1, <1>7 DEF Reject, At, HandlerOK, Stage, PersistSteps, WorkStages
  <2>2. Sound(Memory, issued, approvedEver)'
    BY <1>4, <1>7, <2>1 DEF Reject, hist
  <2> QED
    BY <1>1, <1>2, <1>7, <2>1, <2>2, Persists, WorkData DEF Reject, hist
<1>8. CASE ValidateFinish(r)
  <2> DEFINE s == IF h[r].ok THEN "ready_for_review" ELSE "validation_failed"
             x == [cand[h[r].cand] EXCEPT !.status = s, !.lastRun = h[r].id]
  <2>1. /\ h[r].cand \in Cands /\ cand[h[r].cand] # None /\ h[r].id \in Runs
        /\ runs[h[r].id] = [cand |-> h[r].cand, success |-> h[r].ok]
    BY <1>1, <1>8 DEF ValidateFinish, At, HandlerOK, WorkOK, Stage, PersistSteps, WorkStages, ValidateStages
  <2>2. s \in Statuses
    BY DEF Statuses
  <2>3. cand'[h[r].cand] = x /\ \A d \in Cands \ {h[r].cand} : cand'[d] = cand[d]
    BY <1>1, <1>8, <2>1, <2>2, AssignedRun DEF ValidateFinish
  <2>4. x \in Candidate /\ x.status = s /\ x.lastRun = h[r].id /\ x.pack = cand[h[r].cand].pack
    BY <1>3, <2>1, <2>2 DEF Candidate
  <2>5. runs[h[r].id] # None /\ runs[h[r].id].cand = h[r].cand /\ runs[h[r].id].success = h[r].ok
    <3>1. h[r].ok \in BOOLEAN
      BY <1>1 DEF Handler
    <3>2. runs[h[r].id] \in Run
      BY <2>1, <3>1 DEF Run
    <3> QED
      BY <2>1, <3>2, NilAssumption
  <2>6. s \in {"ready_for_review", "approved", "signed"} => Passed(h[r].cand)
    BY <2>1, <2>5 DEF Passed
  <2>7. s \notin {"approved", "signed"}
    OBVIOUS
  <2> HIDE DEF x, s
  <2>8. issued' = issued /\ approvedEver' = approvedEver /\ runs' = runs /\ packs' = packs
    BY <1>8 DEF ValidateFinish, hist
  <2>9. Sound(Memory, issued, approvedEver)'
    BY <1>1, <1>3, <2>1, <2>3, <2>4, <2>5, <2>6, <2>7, <2>8, MemoryAssigned
  <2> QED
    BY <1>1, <1>2, <1>8, <2>8, <2>9, Persists, WorkData DEF ValidateFinish
<1>9. CASE SignMark(r)
  <2> DEFINE x == [cand[h[r].cand] EXCEPT !.status = "signed", !.pack = h[r].id]
  <2>1. /\ h[r].cand \in Cands /\ cand[h[r].cand] # None /\ h[r].id \in Packs
        /\ packs[h[r].id] = h[r].cand /\ Passed(h[r].cand) /\ h[r].cand \in approvedEver
    BY <1>1, <1>9 DEF SignMark, At, HandlerOK, WorkOK, Stage, PersistSteps, WorkStages, SignStages
  <2>2. "signed" \in Statuses
    BY DEF Statuses
  <2>3. cand'[h[r].cand] = x /\ \A d \in Cands \ {h[r].cand} : cand'[d] = cand[d]
    BY <1>1, <1>9, <2>1, <2>2, AssignedPack DEF SignMark
  <2>4. x \in Candidate /\ x.status = "signed" /\ x.lastRun = cand[h[r].cand].lastRun /\ x.pack = h[r].id
    BY <1>3, <2>1, <2>2 DEF Candidate
  <2> HIDE DEF x
  <2>5. issued' = issued /\ approvedEver' = approvedEver /\ runs' = runs /\ packs' = packs
    BY <1>9 DEF SignMark, hist
  <2>6. Sound(Memory, issued, approvedEver)'
    BY <1>1, <1>3, <2>1, <2>3, <2>4, <2>5, MemoryAssigned
  <2> QED
    BY <1>1, <1>2, <1>9, <2>5, <2>6, Persists, WorkData DEF SignMark
<1>10. CASE Sign(r)
  <2>1. /\ h[r].cand \in Cands /\ h[r].id \in Packs /\ packs[h[r].id] = None /\ h[r].id # None
        /\ Passed(h[r].cand) /\ h[r].cand \in approvedEver /\ h[r].id \in issued
    BY <1>1, <1>10, PipelineAssumption
    DEF Sign, At, HandlerOK, WorkOK, Stage, PersistSteps, WorkStages, SignStages
  <2>2. packs' = [packs EXCEPT ![h[r].id] = h[r].cand] /\ UNCHANGED <<research, cand, runs>>
          /\ issued' = issued /\ approvedEver' = approvedEver
    BY <1>10 DEF Sign, hist
  <2>3. packs'[h[r].id] = h[r].cand /\ \A p \in Packs \ {h[r].id} : packs'[p] = packs[p]
    BY <1>1, <2>1, <2>2 DEF TypeOK
  <2>4. Sound(Memory, issued, approvedEver)'
    BY <1>1, <2>1, <2>2, <2>3, MemoryStored
  <2> QED
    BY <1>1, <1>2, <1>10, <2>1, <2>2, <2>3, <2>4, Persists, WorkData, ZenonT(40) DEF Sign
<1>11. ASSUME NEW success \in BOOLEAN, ValidateRun(r, success) PROVE DataInv'
  <2>1. /\ h[r].cand \in Cands /\ h[r].id \in Runs /\ runs[h[r].id] = None /\ h[r].id # None
        /\ h[r].id \in issued
    BY <1>1, <1>11, PipelineAssumption
    DEF ValidateRun, At, HandlerOK, WorkOK, Stage, PersistSteps, WorkStages, ValidateStages
  <2>2. /\ runs' = [runs EXCEPT ![h[r].id] = [cand |-> h[r].cand, success |-> success]]
        /\ UNCHANGED <<research, cand, packs>> /\ issued' = issued /\ approvedEver' = approvedEver
        /\ rd' = rd /\ UNCHANGED file
    BY <1>11 DEF ValidateRun, hist
  <2>3. /\ runs'[h[r].id] = [cand |-> h[r].cand, success |-> success]
        /\ \A v \in Runs \ {h[r].id} : runs'[v] = runs[v]
    BY <1>1, <2>1, <2>2 DEF TypeOK
  <2>4. Sound(Memory, issued, approvedEver)'
    BY <1>1, <2>1, <2>2, <2>3, MemoryStored
  <2>5. /\ h' \in [Handlers -> Handler] /\ \A q \in Handlers \ {r} : h'[q] = h[q]
        /\ h'[r].at = IF Persistent THEN "persist" ELSE "validateFinish"
        /\ h'[r].next = IF Persistent THEN "validateFinish" ELSE h[r].next
        /\ h'[r].cand = h[r].cand /\ h'[r].id = h[r].id /\ h'[r].ok = success
    <3> DEFINE k == [h[r] EXCEPT !.at = IF Persistent THEN "persist" ELSE "validateFinish",
                                 !.next = IF Persistent THEN "validateFinish" ELSE @,
                                 !.ok = success]
    <3>1. h' = [h EXCEPT ![r] = k]
      BY <1>1, <1>11 DEF ValidateRun, TypeOK
    <3>2. k \in Handler
      BY <1>1 DEF Handler, Steps
    <3>3. /\ k.at = IF Persistent THEN "persist" ELSE "validateFinish"
          /\ k.next = IF Persistent THEN "validateFinish" ELSE h[r].next
          /\ k.cand = h[r].cand /\ k.id = h[r].id /\ k.ok = success
      BY <1>1 DEF Handler
    <3> HIDE DEF k
    <3> QED
      BY <1>1, <3>1, <3>2, <3>3 DEF TypeOK
  <2>6. Moved(r) /\ Stage(r)' = "validateFinish" /\ h'[r].at \in {"persist", "validateFinish"}
    <3>1. h'[r].at # "idle"
      BY <2>5
    <3>2. Stage(r)' = "validateFinish"
      BY <2>5 DEF Stage, PersistSteps
    <3> QED
      BY <2>5, <3>1, <3>2 DEF Moved
  <2> QED
    BY <1>2, <2>1, <2>2, <2>3, <2>4, <2>5, <2>6, WorkData
<1> QED
  BY <1>5, <1>6, <1>7, <1>8, <1>9, <1>10, <1>11

(***************************************************************************)
(* Completing a marshal: what has been read together with the maps as they *)
(* are now is sound.                                                       *)
(***************************************************************************)
LEMMA MarshalData ==
  ASSUME TypeInv, TypeInv', DataInv, NEW r \in Handlers,
         MarshalResearch(r) \/ MarshalCands(r) \/ MarshalRuns(r) \/ MarshalPacks(r)
  PROVE  DataInv'
<1>1. TypeOK /\ HandlerOK(r) /\ ReadOK(r) /\ Sound(Memory, issued, approvedEver) /\ rd[r] \in Snapshot
  BY DEF TypeInv, TypeOK, DataInv
<1>2. UNCHANGED <<mem, up, faults, hist>>
  BY DEF MarshalResearch, MarshalCands, MarshalRuns, MarshalPacks, MarshalStep
<1>3. CASE MarshalResearch(r)
  <2>1. Goto(r, "readCands") /\ "readCands" \in Steps /\ "readCands" \in PersistSteps /\ h[r].at = "persist"
          /\ UNCHANGED file /\ \A q \in Handlers \ {r} : rd'[q] = rd[q]
    BY <1>1, <1>3 DEF MarshalResearch, MarshalStep, Steps, PersistSteps, At, TypeOK
  <2>2. ReadOK(r)'
    BY <1>1, <2>1, Moves DEF ReadOK, At
  <2> QED
    BY <1>1, <1>2, <2>1, <2>2, Moves, FileKept, CalmData DEF hist, PersistSteps
<1>4. CASE MarshalCands(r)
  <2>1. Goto(r, "readRuns") /\ "readRuns" \in Steps /\ "readRuns" \in PersistSteps /\ h[r].at = "readCands"
          /\ UNCHANGED file /\ \A q \in Handlers \ {r} : rd'[q] = rd[q]
    BY <1>1, <1>4 DEF MarshalCands, MarshalStep, Steps, PersistSteps, At, TypeOK
  <2>2. Sound([rd'[r] EXCEPT !.runs = runs, !.packs = packs], issued, approvedEver)
    <3> DEFINE t == [rd'[r] EXCEPT !.runs = runs, !.packs = packs]
    <3>1. rd'[r] = [rd[r] EXCEPT !.cand = cand]
      BY <1>1, <1>4 DEF MarshalCands, MarshalStep, TypeOK
    <3>2. t.cand = cand /\ t.runs = runs /\ t.packs = packs
      BY <1>1, <3>1 DEF Snapshot
    <3>3. Memory.cand = cand /\ Memory.runs = runs /\ Memory.packs = packs
      BY DEF Memory
    <3> HIDE DEF t
    <3>4. Sound(t, issued, approvedEver)
      BY <1>1, <3>2, <3>3 DEF Sound, RefsOK, Reviewed
    <3> QED
      BY <3>4 DEF t
  <2>3. ReadOK(r)'
    BY <1>1, <1>2, <2>1, <2>2, Moves DEF ReadOK, At, mem, hist
  <2> QED
    BY <1>1, <1>2, <2>1, <2>3, Moves, FileKept, CalmData DEF hist, PersistSteps
<1>5. CASE MarshalRuns(r)
  <2>1. Goto(r, "readPacks") /\ "readPacks" \in Steps /\ "readPacks" \in PersistSteps /\ h[r].at = "readRuns"
          /\ UNCHANGED file /\ \A q \in Handlers \ {r} : rd'[q] = rd[q]
    BY <1>1, <1>5 DEF MarshalRuns, MarshalStep, Steps, PersistSteps, At, TypeOK
  <2>2. Sound([rd'[r] EXCEPT !.packs = packs], issued, approvedEver)
    <3>1. rd'[r] = [rd[r] EXCEPT !.runs = runs]
      BY <1>1, <1>5 DEF MarshalRuns, MarshalStep, TypeOK
    <3>2. [rd'[r] EXCEPT !.packs = packs] = [rd[r] EXCEPT !.runs = runs, !.packs = packs]
      BY <1>1, <3>1 DEF Snapshot
    <3> QED
      BY <1>1, <2>1, <3>2 DEF ReadOK, At
  <2>3. ReadOK(r)'
    BY <1>1, <1>2, <2>1, <2>2, Moves DEF ReadOK, At, mem, hist
  <2> QED
    BY <1>1, <1>2, <2>1, <2>3, Moves, FileKept, CalmData DEF hist, PersistSteps
<1>6. CASE MarshalPacks(r)
  <2>1. Goto(r, "file") /\ "file" \in Steps /\ "file" \in PersistSteps /\ h[r].at = "readPacks"
          /\ \A q \in Handlers \ {r} : rd'[q] = rd[q]
    BY <1>1, <1>6 DEF MarshalPacks, Steps, PersistSteps, At, TypeOK
  <2>2. /\ \A i \in Inodes : data'[i] = data[i]
        /\ \A q \in Handlers \ {r} : snap'[q] = snap[q]
        /\ snap'[r] = [rd[r] EXCEPT !.packs = packs]
    BY <1>1, <1>6 DEF MarshalPacks, F!Marshal, TypeOK, F!TypeOK
  <2>3. Sound(snap'[r], issued', approvedEver')
    BY <1>1, <1>2, <2>1, <2>2 DEF ReadOK, At, hist
  <2>4. ReadOK(r)'
    BY <1>1, <2>1, Moves DEF ReadOK, At
  <2> QED
    BY <1>1, <1>2, <2>1, <2>2, <2>3, <2>4, Moves, CalmData DEF hist, PersistSteps
<1> QED
  BY <1>3, <1>4, <1>5, <1>6

(***************************************************************************)
(* The bytes a step of persist puts into an inode or into a buffer.        *)
(***************************************************************************)
LEMMA FileBytes ==
  ASSUME F!TypeOK, NEW r \in Handlers,
         F!OpenTmp(r) \/ F!WriteTmp(r) \/ F!Rename(r) \/ F!WriteFails(r)
  PROVE  /\ \A i \in Inodes : data'[i] \in {data[i], snap[r], Empty, Torn}
         /\ \A q \in Handlers \ {r} : snap'[q] = snap[q]
         /\ snap'[r] = snap[r] \/ snap'[r] = Empty
<1> USE DEF F!TypeOK
<1>1. CASE F!OpenTmp(r)
  BY <1>1 DEF F!OpenTmp
<1>2. CASE F!WriteTmp(r)
  BY <1>2 DEF F!WriteTmp, F!WriteOutcomes
<1>3. CASE F!Rename(r)
  BY <1>3 DEF F!Rename
<1>4. CASE F!WriteFails(r)
  BY <1>4 DEF F!WriteFails
<1> QED
  BY <1>1, <1>2, <1>3, <1>4

LEMMA CalmProceedData ==
  ASSUME TypeInv, TypeInv', DataInv, NEW r \in Handlers,
         SignFails(r) \/ AckReject(r) \/ PersistOpen(r) \/ PersistWrite(r) \/ PersistRename(r)
            \/ Fault(r)
  PROVE  DataInv'
<1>1. TypeOK /\ HandlerOK(r) /\ F!TypeOK
  BY DEF TypeInv, TypeOK
<1>2. UNCHANGED <<mem, rd>> /\ issued' = issued /\ approvedEver' = approvedEver
  BY DEF SignFails, AckReject, PersistOpen, PersistWrite, PersistRename, Fault, PersistWriteFails,
         PersistMkdirFails, hist
<1>3. /\ \A i \in Inodes : data'[i] \in {data[i], snap[r], Empty, Torn}
      /\ \A q \in Handlers \ {r} : snap'[q] = snap[q]
      /\ snap'[r] = snap[r] \/ snap'[r] = Empty
  BY <1>1, FileBytes, FileKept
  DEF SignFails, AckReject, PersistOpen, PersistWrite, PersistRename, Fault, PersistWriteFails,
      PersistMkdirFails
<1>4. CASE SignFails(r) \/ AckReject(r)
  <2>1. Goto(r, "idle") /\ "idle" \in Steps /\ h[r].at # "idle"
    BY <1>4 DEF SignFails, AckReject, Steps, At
  <2>2. ReadOK(r)'
    BY <1>1, <2>1, Moves DEF ReadOK, At
  <2> QED
    BY <1>1, <1>2, <1>3, <2>1, <2>2, Moves, CalmData DEF PersistSteps
<1>5. CASE PersistOpen(r) \/ PersistWrite(r)
  <2>1. h' = h /\ h[r].at = "file" /\ "file" \in Steps /\ "file" \in PersistSteps
    BY <1>5 DEF PersistOpen, PersistWrite, Steps, PersistSteps, At
  <2>2. Moved(r)
    BY <1>1, <2>1 DEF Moved, TypeOK
  <2>3. ReadOK(r)'
    BY <2>1 DEF ReadOK, At
  <2> QED
    BY <1>1, <1>2, <1>3, <2>1, <2>2, <2>3, CalmData
<1>6. CASE PersistRename(r) \/ Fault(r)
  <2>1. h[r].at \in {"persist", "file"}
    BY <1>6 DEF PersistRename, Fault, PersistWriteFails, PersistMkdirFails, At
  <2>2. PICK n \in {"idle", h[r].next} : Goto(r, n)
    BY <1>6 DEF PersistRename, Fault, PersistWriteFails, PersistMkdirFails, OnError
  <2>3. n \in Steps /\ n \notin PersistSteps /\ Stage(r) = h[r].next
    BY <1>1, <2>1, <2>2 DEF HandlerOK, Stage, PersistSteps, Returns, Steps
  <2>4. ReadOK(r)'
    BY <1>1, <2>2, <2>3, Moves DEF ReadOK, At, PersistSteps
  <2> QED
    BY <1>1, <1>2, <1>3, <2>1, <2>2, <2>3, <2>4, Moves, CalmData
<1> QED
  BY <1>4, <1>5, <1>6

LEMMA CrashData == ASSUME TypeInv, TypeInv', DataInv, Crash PROVE DataInv'
<1>1. /\ Memory' = NoData /\ h' = [r \in Handlers |-> Idle] /\ data' = data
      /\ snap' = [r \in Handlers |-> Empty] /\ issued' = issued /\ approvedEver' = approvedEver
      /\ Idle.id = None /\ Idle.at = "idle"
  BY DEF Crash, F!Crash, Memory, NoData, hist, Idle
<1>2. \A r \in Handlers : WorkOK(r)' /\ ReadOK(r)'
  BY <1>1 DEF WorkOK, ReadOK, Stage, PersistSteps, At, SignStages
<1> QED
  BY <1>1, <1>2, NoDataSound, BytesAssumption DEF DataInv

LEMMA RestartData == ASSUME TypeInv, TypeInv', DataInv, Restart PROVE DataInv'
<1>1. /\ Memory' = [research |-> Loaded.research, cand |-> Loaded.cand, runs |-> Loaded.runs,
                    packs |-> Loaded.packs]
      /\ h' = h /\ data' = data /\ snap' = snap /\ rd' = rd /\ issued' = issued
      /\ approvedEver' = approvedEver /\ Loaded \in Snapshot
  BY DEF Restart, Memory, hist, file
<1>2. \A r \in Handlers : h[r] = Idle /\ Idle.id = None /\ Idle.at = "idle"
  BY DEF TypeInv, HandlerOK, Restart, Idle
<1>3. \A r \in Handlers : WorkOK(r)' /\ ReadOK(r)'
  BY <1>1, <1>2 DEF WorkOK, ReadOK, Stage, PersistSteps, At, SignStages
<1>4. Sound(Loaded, issued, approvedEver)
  <2>1. path # None => path \in Inodes
    BY DEF TypeInv, TypeOK, F!TypeOK, F!Entry
  <2> QED
    BY <1>1, <2>1, NoDataSound DEF Loaded, DataInv
<1>5. Sound(Memory, issued, approvedEver)'
  BY <1>1, <1>4 DEF Sound, RefsOK, Reviewed
<1> QED
  BY <1>1, <1>2, <1>3, <1>5 DEF DataInv

LEMMA StutterData == ASSUME DataInv, UNCHANGED vars PROVE DataInv'
<1>1. /\ Memory' = Memory /\ h' = h /\ data' = data /\ snap' = snap /\ rd' = rd /\ issued' = issued
      /\ approvedEver' = approvedEver /\ runs' = runs /\ packs' = packs
  BY DEF vars, mem, hist, file, Memory
<1>2. \A r \in Handlers : (WorkOK(r) <=> WorkOK(r)') /\ (ReadOK(r) <=> ReadOK(r)')
  BY <1>1 DEF WorkOK, ReadOK, Stage, At, Passed
<1> QED
  BY <1>1, <1>2 DEF DataInv

LEMMA NextData == TypeInv /\ DataInv /\ [Next]_vars => DataInv'
<1> SUFFICES ASSUME TypeInv, DataInv, [Next]_vars PROVE DataInv'
  OBVIOUS
<1>1. TypeInv'
  BY NextType
<1> QED
  BY <1>1, RequestData, WorkProceedData, MarshalData, CalmProceedData, CrashData, RestartData,
     StutterData
  DEF Next, Proceed

LEMMA DataInvariance == Spec => [](TypeInv /\ DataInv)
<1>1. Init => TypeInv /\ DataInv
  BY InitType, InitData
<1>2. TypeInv /\ DataInv /\ [Next]_vars => (TypeInv /\ DataInv)'
  BY NextType, NextData
<1> QED
  BY <1>1, <1>2, PTL DEF Spec

(***************************************************************************)
(* However handlers interleave, fail, crash and restart, no candidate in   *)
(* memory or in the state file refers to a run or a pack that is not       *)
(* there: the order of the maps in the snapshot struct (store.go:77-83)    *)
(* and the fresh ids of newID carry it.                                    *)
(***************************************************************************)
THEOREM ReferencesHold == Spec => []RefsSound
<1>1. TypeInv /\ DataInv => RefsSound
  <2> SUFFICES ASSUME TypeInv, DataInv PROVE RefsSound
    OBVIOUS
  <2>1. path # None => path \in Inodes
    BY DEF TypeInv, TypeOK, F!TypeOK, F!Entry
  <2> QED
    BY <2>1 DEF TypeInv, DataInv, Sound, RefsSound, RefsInMemory, RefsOnDisk
<1> QED
  BY <1>1, DataInvariance, PTL

-----------------------------------------------------------------------------
(***************************************************************************)
(* Requests one at a time.  A rejection is in memory when its handler      *)
(* persists it, in what it marshals, in the temporary file and, before it  *)
(* is answered, in the state file; no other handler can take it back.      *)
(***************************************************************************)
OnDisk(c) == path # None /\ data[path] \in Snapshot /\ data[path].cand[c] # None
                /\ data[path].cand[c].status = "rejected"

AloneOK(r) ==
    /\ Stage(r) \in WorkStages => cand[h[r].cand].status \notin {"rejected", "signed"}
    /\ Stage(r) \in SignStages => cand[h[r].cand].status = "approved"
    /\ Stage(r) = "ackReject" => cand[h[r].cand].status = "rejected"
    /\ h[r].at \in {"readRuns", "readPacks"} => rd[r].cand = cand
    /\ At(r, "file") => snap[r] \in Snapshot /\ snap[r].cand = cand
    /\ At(r, "ackReject") /\ Persistent => OnDisk(h[r].cand)

PacksMarked ==
    \A c \in Cands, p \in Packs : packs[p] = c =>
       /\ cand[c] # None
       /\ \/ cand[c].status = "signed"
          \/ \E r \in Handlers : Stage(r) = "signMark" /\ h[r].cand = c

SerialInv ==
    ~concurrent =>
       /\ \A q, r \in Handlers : ~At(q, "idle") /\ ~At(r, "idle") => q = r
       /\ ~overlap
       /\ F!SerialExclusive
       /\ \A r \in Handlers : AloneOK(r)
       /\ Persistent => \A c \in rejectAcked : OnDisk(c)
       /\ up /\ (Persistent \/ faults = 0) =>
             \A c \in rejectAcked : cand[c] # None /\ cand[c].status = "rejected"
       /\ faults = 0 => PacksMarked

(***************************************************************************)
(* A writer that is alone: it leaves the state file as it is until it      *)
(* renames, and then the file is what it has marshalled.                   *)
(***************************************************************************)
LEMMA FileAlone ==
  ASSUME F!TypeOK, F!SerialExclusive, ~overlap, ~overlap', NEW r \in Handlers,
         \/ \E c \in Snapshot : F!Marshal(r, c)
         \/ F!OpenTmp(r) \/ F!WriteTmp(r) \/ F!Rename(r) \/ F!WriteFails(r)
  PROVE  /\ F!SerialExclusive'
         /\ ~F!Rename(r) => path' = path /\ (path # None => data'[path] = data[path])
         /\ F!Rename(r) => tmp # None /\ path' # None /\ data'[path'] = snap[r]
<1> USE PipelineAssumption, BytesAssumption DEF F!TypeOK, F!Entry, F!Data
<1>1. ASSUME NEW c \in Snapshot, F!Marshal(r, c)
      PROVE  F!SerialExclusive' /\ path' = path /\ data' = data /\ ~F!Rename(r)
  <2>1. /\ fpc[r] = "idle" /\ \A v \in Handlers \ {r} : fpc[v] = "idle"
        /\ fpc' = [fpc EXCEPT ![r] = "open"] /\ snap' = [snap EXCEPT ![r] = c]
        /\ UNCHANGED <<path, tmp, data, fd, acked>>
    BY <1>1 DEF F!Marshal, F!Busy
  <2>2. \A v \in Handlers \ {r} : fpc'[v] = "idle"
    BY <2>1
  <2>3. F!SerialExclusive'
    BY <2>1, <2>2 DEF F!SerialExclusive, F!Busy
  <2> QED
    BY <2>1, <2>3 DEF F!Rename
<1>2. CASE F!OpenTmp(r)
  <2>1. PICK i \in (IF tmp = None THEN F!Free ELSE {tmp}) :
           /\ tmp' = i
           /\ data' = [data EXCEPT ![i] = Empty]
           /\ fd' = [fd EXCEPT ![r] = i]
    BY <1>2 DEF F!OpenTmp
  <2>2. i \in Inodes /\ i # None /\ (path # i \/ path = None)
    BY <2>1 DEF F!Free, F!SerialExclusive
  <2>3. F!SerialExclusive'
    BY <1>2, <2>1, <2>2 DEF F!OpenTmp, F!SerialExclusive, F!Busy
  <2> QED
    BY <1>2, <2>1, <2>2, <2>3 DEF F!OpenTmp, F!Rename
<1>3. CASE F!WriteTmp(r)
  <2>1. PICK d \in F!WriteOutcomes(fd[r], snap[r]) : data' = [data EXCEPT ![fd[r]] = d]
    BY <1>3 DEF F!WriteTmp
  <2>2. fd[r] = tmp /\ tmp # None /\ tmp \in Inodes /\ d = snap[r] /\ d \in F!Data
    BY <1>3, <2>1 DEF F!WriteTmp, F!WriteOutcomes, F!SerialExclusive
  <2>3. F!SerialExclusive'
    BY <1>3, <2>1, <2>2 DEF F!WriteTmp, F!SerialExclusive, F!Busy
  <2> QED
    BY <1>3, <2>1, <2>2, <2>3 DEF F!WriteTmp, F!Rename, F!SerialExclusive
<1>4. CASE F!WriteFails(r)
  <2>1. fd[r] = tmp /\ tmp # None /\ tmp \in Inodes
    BY <1>4 DEF F!WriteFails, F!SerialExclusive
  <2>2. F!SerialExclusive'
    BY <1>4, <2>1 DEF F!WriteFails, F!SerialExclusive, F!Busy
  <2> QED
    BY <1>4, <2>1, <2>2 DEF F!WriteFails, F!Rename, F!SerialExclusive
<1>5. CASE F!Rename(r)
  <2>1. tmp # None /\ data[tmp] = snap[r]
    BY <1>5 DEF F!Rename, F!SerialExclusive, F!Busy
  <2>2. F!SerialExclusive'
    BY <1>5, <2>1 DEF F!Rename, F!SerialExclusive, F!Busy
  <2> QED
    BY <1>5, <2>1, <2>2 DEF F!Rename
<1> QED
  BY <1>1, <1>2, <1>3, <1>4, <1>5

LEMMA InitSerial == Init => SerialInv
<1> SUFFICES ASSUME Init PROVE SerialInv
  OBVIOUS
<1>1. \A r \in Handlers : h[r] = Idle /\ Idle.at = "idle"
  BY DEF Init, Idle
<1>2. \A r \in Handlers : AloneOK(r)
  BY <1>1 DEF AloneOK, Stage, PersistSteps, WorkStages, ValidateStages, SignStages, At
<1>3. F!SerialExclusive /\ ~overlap
  BY DEF Init, F!Init, F!SerialExclusive, F!Busy
<1>4. PacksMarked
  BY PipelineAssumption DEF Init, PacksMarked, NoData
<1> QED
  BY <1>1, <1>2, <1>3, <1>4 DEF SerialInv, At, Init

LEMMA SerialStep ==
  ASSUME SerialInv, ~concurrent, NEW r \in Handlers,
         \A q \in Handlers \ {r} : At(q, "idle") /\ h'[q] = h[q],
         ~overlap', F!SerialExclusive', AloneOK(r)',
         Persistent => \A c \in rejectAcked' : OnDisk(c)',
         up' /\ (Persistent \/ faults' = 0) =>
            \A c \in rejectAcked' : cand'[c] # None /\ cand'[c].status = "rejected",
         faults' = 0 => PacksMarked'
  PROVE  SerialInv'
<1>1. ASSUME NEW q \in Handlers \ {r} PROVE h'[q].at = "idle" /\ AloneOK(q)'
  <2>1. h'[q].at = "idle"
    BY DEF At
  <2> QED
    BY <2>1 DEF AloneOK, Stage, At, PersistSteps, WorkStages, ValidateStages, SignStages
<1>2. \A q \in Handlers : AloneOK(q)'
  BY <1>1
<1>3. \A p, q \in Handlers : h'[p].at # "idle" /\ h'[q].at # "idle" => p = q
  BY <1>1
<1> QED
  BY <1>2, <1>3 DEF SerialInv, At

LEMMA FileUntouched ==
  ASSUME UNCHANGED file
  PROVE  /\ (overlap <=> overlap') /\ (F!SerialExclusive <=> F!SerialExclusive')
         /\ path' = path /\ data' = data /\ snap' = snap /\ fpc' = fpc
         /\ \A c \in Cands : OnDisk(c) <=> OnDisk(c)'
  BY DEF file, F!SerialExclusive, F!Busy, OnDisk

(***************************************************************************)
(* A request can only come alone when every handler is idle.               *)
(***************************************************************************)
LEMMA RequestSerial ==
  ASSUME TypeInv, TypeInv', DataInv, SerialInv, NEW r \in Handlers, Request(r)
  PROVE  SerialInv'
<1> SUFFICES ASSUME ~concurrent' PROVE SerialInv'
  BY DEF SerialInv
<1>0. /\ TypeOK /\ rd' = rd /\ approvedEver' = approvedEver /\ rejectAcked' = rejectAcked
      /\ up' = up /\ faults' = faults /\ UNCHANGED file /\ packs' = packs
  BY DEF Request, CreateResearch, CreateCandidate, ValidateAdmit, ApproveAdmit, RejectAdmit,
         SignAdmit, Admit, TypeInv, mem
<1>1. ~concurrent /\ \A q \in Handlers : At(q, "idle")
  BY DEF Request, CreateResearch, CreateCandidate, ValidateAdmit, ApproveAdmit, RejectAdmit,
         SignAdmit, Admit, Arrives
<1>2. \A q \in Handlers : h[q] = Idle /\ Stage(q) = "idle" /\ Idle.at = "idle"
  BY <1>1 DEF TypeInv, HandlerOK, At, Stage, PersistSteps, Idle
<1>3. /\ ~overlap' /\ F!SerialExclusive' /\ rejectAcked' \subseteq Cands
      /\ Persistent => \A c \in rejectAcked' : OnDisk(c)'
  BY <1>0, <1>1, FileUntouched DEF SerialInv, TypeOK
<1>4. ASSUME NEW n \in WorkStages, NEW c \in Cands, NEW i \in Runs \union Packs \union {None},
             Admit(r, n, c, i), cand[c] # None, cand[c].status \notin {"rejected", "signed"},
             n \in SignStages => cand[c].status = "approved"
      PROVE  SerialInv'
  <2>1. /\ \A q \in Handlers \ {r} : h'[q] = h[q]
        /\ h'[r].at = n /\ h'[r].cand = c /\ Stage(r)' = n
        /\ n \notin PersistSteps \union {"idle", "ackReject", "file"}
    BY <1>0, <1>4, Admitted
  <2>2. UNCHANGED mem
    BY <1>4 DEF Admit
  <2>3. AloneOK(r)'
    BY <1>4, <2>1, <2>2 DEF AloneOK, mem, At, PersistSteps
  <2>4. faults' = 0 => PacksMarked'
    BY <1>0, <1>1, <1>2, <2>2 DEF SerialInv, PacksMarked, mem
  <2>5. up' /\ (Persistent \/ faults' = 0) =>
            \A d \in rejectAcked' : cand'[d] # None /\ cand'[d].status = "rejected"
    BY <1>0, <1>1, <2>2 DEF SerialInv, mem
  <2> QED
    BY <1>1, <1>3, <2>1, <2>3, <2>4, <2>5, SerialStep
<1>5. ASSUME \/ \E i \in Research : CreateResearch(r, i)
             \/ \E c \in Cands : CreateCandidate(r, c)
      PROVE  SerialInv'
  <2>1. Moved(r) /\ Stage(r)' = "idle" /\ h'[r].at \in {"persist", "idle"}
    BY <1>0, <1>5, Persists DEF CreateResearch, CreateCandidate, Returns
  <2>2. AloneOK(r)'
    BY <2>1 DEF AloneOK, At, WorkStages, ValidateStages, SignStages
  <2>3. \A d \in Cands : cand[d] # None => cand'[d] = cand[d]
    <3>1. ASSUME NEW c \in Cands, CreateCandidate(r, c)
          PROVE  \A d \in Cands : cand[d] # None => cand'[d] = cand[d]
      <4>1. cand[c] = None
        BY <3>1 DEF CreateCandidate, Arrives, DataInv, Sound, Memory
      <4> QED
        BY <1>0, <3>1, <4>1 DEF CreateCandidate, TypeOK
    <3> QED
      BY <1>5, <3>1 DEF CreateResearch
  <2>4. faults' = 0 => PacksMarked'
    BY <1>0, <1>1, <1>2, <2>3 DEF SerialInv, PacksMarked
  <2>5. up' /\ (Persistent \/ faults' = 0) =>
            \A d \in rejectAcked' : cand'[d] # None /\ cand'[d].status = "rejected"
    BY <1>0, <1>1, <1>3, <2>3 DEF SerialInv
  <2> QED
    BY <1>1, <1>3, <2>1, <2>2, <2>4, <2>5, SerialStep DEF Moved
<1> QED
  BY <1>4, <1>5
  DEF Request, ValidateAdmit, ApproveAdmit, RejectAdmit, SignAdmit, WorkStages, ValidateStages,
      SignStages

(***************************************************************************)
(* The handler at work is the only one: it assigns x to its candidate and  *)
(* persists.                                                               *)
(***************************************************************************)
LEMMA Others ==
  ASSUME SerialInv, ~concurrent, NEW r \in Handlers, ~At(r, "idle")
  PROVE  \A q \in Handlers \ {r} : At(q, "idle")
  BY DEF SerialInv

LEMMA AssignSerial ==
  ASSUME TypeInv, TypeInv', SerialInv, ~concurrent, NEW r \in Handlers, h[r].at \in WorkStages,
         NEW n \in {"idle", "validateRun", "ackReject"}, Moved(r), Stage(r)' = n,
         h'[r].at = IF Persistent THEN "persist" ELSE n,
         NEW x, x # None, cand'[h[r].cand] = x,
         \A d \in Cands \ {h[r].cand} : cand'[d] = cand[d],
         n = "validateRun" => x.status = "validating",
         n = "ackReject" => x.status = "rejected",
         h[r].at = "signMark" => x.status = "signed",
         packs' = packs, up' = up, faults' = faults, UNCHANGED file, rejectAcked' = rejectAcked
  PROVE  SerialInv'
<1> DEFINE c == h[r].cand
<1>1. /\ Stage(r) = h[r].at /\ h[r].at \in WorkStages /\ h[r].at # "idle"
      /\ c \in Cands /\ cand[c] # None /\ cand[c].status \notin {"rejected", "signed"}
  BY DEF SerialInv, AloneOK, TypeInv, HandlerOK, Stage, PersistSteps, WorkStages, ValidateStages,
         SignStages
<1>2. \A q \in Handlers \ {r} : At(q, "idle") /\ Stage(q) = "idle" /\ h'[q] = h[q]
  BY <1>1, Others DEF At, Moved, Stage, PersistSteps
<1>3. /\ ~overlap' /\ F!SerialExclusive' /\ rejectAcked' \subseteq Cands
      /\ Persistent => \A d \in rejectAcked' : OnDisk(d)'
  BY FileUntouched DEF SerialInv, TypeInv, TypeOK
<1>4. AloneOK(r)'
  <2>1. CASE n = "idle"
    BY <2>1 DEF AloneOK, At, WorkStages, ValidateStages, SignStages
  <2>2. CASE n # "idle"
    <3>1. h'[r].cand = c /\ h'[r].at \in {"persist", n}
      BY <2>2 DEF Moved
    <3>2. ~(h'[r].at = "ackReject" /\ Persistent)
      OBVIOUS
    <3> QED
      BY <2>2, <3>1, <3>2 DEF AloneOK, At, WorkStages, ValidateStages, SignStages
  <2> QED
    BY <2>1, <2>2
<1>5. up' /\ (Persistent \/ faults' = 0) =>
         \A d \in rejectAcked' : cand'[d] # None /\ cand'[d].status = "rejected"
  BY <1>1, <1>3 DEF SerialInv
<1>6. faults' = 0 => PacksMarked'
  <2> SUFFICES ASSUME faults = 0, NEW d \in Cands, NEW p \in Packs, packs[p] = d
               PROVE  cand'[d] # None /\ cand'[d].status = "signed"
    BY DEF PacksMarked
  <2>1. /\ cand[d] # None
        /\ cand[d].status = "signed" \/ \E q \in Handlers : Stage(q) = "signMark" /\ h[q].cand = d
    BY DEF SerialInv, PacksMarked
  <2>2. CASE cand[d].status = "signed"
    BY <1>1, <2>1, <2>2
  <2>3. ASSUME NEW q \in Handlers, Stage(q) = "signMark", h[q].cand = d
        PROVE  cand'[d] # None /\ cand'[d].status = "signed"
    BY <1>1, <1>2, <2>3
  <2> QED
    BY <2>1, <2>2, <2>3
<1> QED
  BY <1>2, <1>3, <1>4, <1>5, <1>6, SerialStep

LEMMA WorkSerial ==
  ASSUME TypeInv, TypeInv', SerialInv, ~concurrent, NEW r \in Handlers,
         \/ ValidateStart(r) \/ ValidateFinish(r) \/ Approve(r) \/ Reject(r) \/ SignMark(r)
  PROVE  SerialInv'
<1>1. TypeOK /\ HandlerOK(r) /\ h[r] \in Handler
  BY DEF TypeInv, TypeOK
<1>2. {"validating", "approved", "rejected", "signed", "ready_for_review", "validation_failed"} \subseteq Statuses
        /\ {"idle", "validateRun", "ackReject"} \subseteq Returns
  BY DEF Statuses, Returns
<1>3. /\ h[r].at \in WorkStages /\ h[r].cand \in Cands /\ cand[h[r].cand] # None
      /\ cand[h[r].cand] \in Candidate
  BY <1>1 DEF ValidateStart, ValidateFinish, Approve, Reject, SignMark, At, HandlerOK, Stage,
              PersistSteps, WorkStages, ValidateStages, SignStages, TypeOK
<1>4. packs' = packs /\ up' = up /\ faults' = faults /\ UNCHANGED file /\ rejectAcked' = rejectAcked
  BY DEF ValidateStart, ValidateFinish, Approve, Reject, SignMark, hist
<1>5. ASSUME NEW s \in {"validating", "approved", "rejected"}, SetStatus(r, s)
      PROVE  /\ cand'[h[r].cand] # None /\ cand'[h[r].cand].status = s
             /\ \A d \in Cands \ {h[r].cand} : cand'[d] = cand[d]
  <2>1. /\ cand'[h[r].cand] = [cand[h[r].cand] EXCEPT !.status = s] /\ cand'[h[r].cand] # None
        /\ \A d \in Cands \ {h[r].cand} : cand'[d] = cand[d]
    BY <1>1, <1>2, <1>3, <1>5, Assigned DEF SetStatus
  <2> QED
    BY <1>3, <2>1 DEF Candidate
<1>6. CASE ValidateStart(r)
  <2>1. SetStatus(r, "validating") /\ Persisting(r, "validateRun") /\ h[r].at = "validateStart"
    BY <1>6 DEF ValidateStart, At
  <2> QED
    BY <1>1, <1>2, <1>3, <1>4, <1>5, <2>1, Persists, AssignSerial
<1>7. CASE Approve(r)
  <2>1. SetStatus(r, "approved") /\ Persisting(r, "idle") /\ h[r].at = "approve"
    BY <1>7 DEF Approve, At
  <2> QED
    BY <1>1, <1>2, <1>3, <1>4, <1>5, <2>1, Persists, AssignSerial
<1>8. CASE Reject(r)
  <2>1. SetStatus(r, "rejected") /\ Persisting(r, "ackReject") /\ h[r].at = "reject"
    BY <1>8 DEF Reject, At
  <2> QED
    BY <1>1, <1>2, <1>3, <1>4, <1>5, <2>1, Persists, AssignSerial
<1>9. CASE ValidateFinish(r)
  <2>1. Persisting(r, "idle") /\ h[r].at = "validateFinish" /\ h[r].id \in Runs
    BY <1>1, <1>9 DEF ValidateFinish, At, HandlerOK, Stage, PersistSteps, ValidateStages
  <2>2. cand'[h[r].cand] # None /\ \A d \in Cands \ {h[r].cand} : cand'[d] = cand[d]
    BY <1>1, <1>2, <1>3, <1>9, <2>1, AssignedRun DEF ValidateFinish
  <2>3. Moved(r) /\ Stage(r)' = "idle" /\ h'[r].at = IF Persistent THEN "persist" ELSE "idle"
    BY <1>1, <1>2, <2>1, Persists
  <2> QED
    BY <1>3, <1>4, <2>1, <2>2, <2>3, AssignSerial
<1>10. CASE SignMark(r)
  <2>1. Persisting(r, "idle") /\ h[r].at = "signMark" /\ h[r].id \in Packs
    BY <1>1, <1>10 DEF SignMark, At, HandlerOK, Stage, PersistSteps, SignStages
  <2>2. /\ cand'[h[r].cand] = [cand[h[r].cand] EXCEPT !.status = "signed", !.pack = h[r].id]
        /\ cand'[h[r].cand] # None /\ \A d \in Cands \ {h[r].cand} : cand'[d] = cand[d]
    BY <1>1, <1>2, <1>3, <1>10, <2>1, AssignedPack DEF SignMark
  <2>3. cand'[h[r].cand].status = "signed"
    BY <1>3, <2>2 DEF Candidate
  <2>4. Moved(r) /\ Stage(r)' = "idle" /\ h'[r].at = IF Persistent THEN "persist" ELSE "idle"
    BY <1>1, <1>2, <2>1, Persists
  <2>5. \A d \in Cands \ {h[r].cand} : cand'[d] = cand[d]
    BY <2>2
  <2>6. cand'[h[r].cand] # None
    BY <2>2
  <2> QED
    BY <1>3, <1>4, <2>3, <2>4, <2>5, <2>6, AssignSerial
<1> QED
  BY <1>6, <1>7, <1>8, <1>9, <1>10

(***************************************************************************)
(* Storing a run or a pack: no status changes.                             *)
(***************************************************************************)
LEMMA StoreSerial ==
  ASSUME TypeInv, TypeInv', SerialInv, ~concurrent, NEW r \in Handlers,
         Sign(r) \/ \E success \in BOOLEAN : ValidateRun(r, success)
  PROVE  SerialInv'
<1>1. TypeOK /\ HandlerOK(r) /\ h[r] \in Handler /\ AloneOK(r)
  BY DEF TypeInv, TypeOK, SerialInv
<1>2. /\ cand' = cand /\ up' = up /\ faults' = faults /\ UNCHANGED file /\ rejectAcked' = rejectAcked
      /\ h[r].at \in {"sign", "validateRun"} /\ Stage(r) = h[r].at
  BY DEF Sign, ValidateRun, hist, At, Stage, PersistSteps
<1>3. \A q \in Handlers \ {r} : At(q, "idle") /\ Stage(q) = "idle"
  BY <1>2, Others DEF At, Stage, PersistSteps
<1>4. /\ ~overlap' /\ F!SerialExclusive' /\ rejectAcked' \subseteq Cands
      /\ Persistent => \A d \in rejectAcked' : OnDisk(d)'
      /\ up' /\ (Persistent \/ faults' = 0) =>
            \A d \in rejectAcked' : cand'[d] # None /\ cand'[d].status = "rejected"
  BY <1>1, <1>2, FileUntouched DEF SerialInv, TypeOK
<1>5. CASE Sign(r)
  <2>1. Persisting(r, "signMark") /\ h[r].at = "sign" /\ "signMark" \in Returns
          /\ packs' = [packs EXCEPT ![h[r].id] = h[r].cand]
    BY <1>5 DEF Sign, At, Returns
  <2>2. Moved(r) /\ Stage(r)' = "signMark" /\ h'[r].at \in {"persist", "signMark"}
    BY <1>1, <2>1, Persists
  <2>3. h'[r].cand = h[r].cand /\ h[r].id \in Packs /\ h[r].cand \in Cands /\ cand[h[r].cand] # None
    BY <1>1, <1>2, <2>1, <2>2 DEF Moved, HandlerOK, SignStages, WorkStages
  <2>4. cand[h[r].cand].status = "approved"
    BY <1>1, <1>2, <2>1 DEF AloneOK, SignStages
  <2>5. AloneOK(r)'
    BY <1>2, <2>2, <2>3, <2>4 DEF AloneOK, At, WorkStages, SignStages, ValidateStages
  <2>6. packs'[h[r].id] = h[r].cand /\ \A p \in Packs \ {h[r].id} : packs'[p] = packs[p]
    BY <1>1, <2>1, <2>3 DEF TypeOK
  <2>7. faults' = 0 => PacksMarked'
    <3> SUFFICES ASSUME faults = 0, NEW c \in Cands, NEW p \in Packs, packs'[p] = c
                 PROVE  /\ cand[c] # None
                        /\ \/ cand[c].status = "signed"
                           \/ \E q \in Handlers : Stage(q)' = "signMark" /\ h'[q].cand = c
      BY <1>2 DEF PacksMarked
    <3>1. CASE p = h[r].id
      BY <2>2, <2>3, <2>6, <3>1
    <3>2. CASE p # h[r].id
      <4>1. packs[p] = c
        BY <2>6, <3>2
      <4>2. \A q \in Handlers : Stage(q) # "signMark"
        BY <1>2, <1>3, <2>1
      <4> QED
        BY <4>1, <4>2 DEF SerialInv, PacksMarked
    <3> QED
      BY <3>1, <3>2
  <2> QED
    BY <1>3, <1>4, <2>2, <2>5, <2>7, SerialStep DEF Moved
<1>6. ASSUME NEW success \in BOOLEAN, ValidateRun(r, success) PROVE SerialInv'
  <2>1. /\ h' = [h EXCEPT ![r].at = IF Persistent THEN "persist" ELSE "validateFinish",
                          ![r].next = IF Persistent THEN "validateFinish" ELSE @,
                          ![r].ok = success]
        /\ packs' = packs /\ h[r].at = "validateRun"
    BY <1>6 DEF ValidateRun, At
  <2>2. /\ \A q \in Handlers \ {r} : h'[q] = h[q]
        /\ h'[r].at = IF Persistent THEN "persist" ELSE "validateFinish"
        /\ h'[r].next = IF Persistent THEN "validateFinish" ELSE h[r].next
        /\ h'[r].cand = h[r].cand
    BY <1>1, <2>1 DEF TypeOK, Handler
  <2>3. Stage(r)' = "validateFinish" /\ h'[r].at \in {"persist", "validateFinish"}
    BY <2>2 DEF Stage, PersistSteps
  <2>4. AloneOK(r)'
    BY <1>1, <1>2, <2>1, <2>2, <2>3 DEF AloneOK, At, WorkStages, SignStages, ValidateStages
  <2>5. \A q \in Handlers : Stage(q) # "signMark"
    BY <1>2, <1>3, <2>1
  <2>6. faults' = 0 => PacksMarked'
    BY <1>2, <2>1, <2>5 DEF SerialInv, PacksMarked
  <2> QED
    BY <1>3, <1>4, <2>2, <2>4, <2>6, SerialStep
<1> QED
  BY <1>5, <1>6

(***************************************************************************)
(* The ends of a request that change no map.                               *)
(***************************************************************************)
LEMMA EndSerial ==
  ASSUME TypeInv, TypeInv', SerialInv, ~concurrent, NEW r \in Handlers,
         SignFails(r) \/ AckReject(r)
  PROVE  SerialInv'
<1>1. TypeOK /\ HandlerOK(r) /\ AloneOK(r) /\ "idle" \in Steps
  BY DEF TypeInv, SerialInv, Steps
<1>2. /\ cand' = cand /\ packs' = packs /\ up' = up /\ faults' = faults /\ UNCHANGED file
      /\ h[r].at \in {"sign", "ackReject"} /\ Stage(r) = h[r].at /\ Goto(r, "idle")
  BY DEF SignFails, AckReject, mem, At, Stage, PersistSteps
<1>3. \A q \in Handlers \ {r} : At(q, "idle") /\ Stage(q) = "idle"
  BY <1>2, Others DEF At, Stage, PersistSteps
<1>4. Moved(r) /\ h'[r].at = "idle"
  BY <1>1, <1>2, Moves
<1>5. AloneOK(r)'
  BY <1>4 DEF AloneOK, Stage, At, PersistSteps, WorkStages, ValidateStages, SignStages
<1>6. faults' = 0 => PacksMarked'
  BY <1>2, <1>3 DEF SerialInv, PacksMarked
<1>7. \A d \in rejectAcked' : \/ d \in rejectAcked
                              \/ d = h[r].cand /\ h[r].at = "ackReject"
  BY DEF SignFails, AckReject, hist, At
<1>8. h[r].at = "ackReject" => /\ h[r].cand \in Cands /\ cand[h[r].cand] # None
                               /\ cand[h[r].cand].status = "rejected"
                               /\ Persistent => OnDisk(h[r].cand)
  BY <1>1, <1>2 DEF HandlerOK, AloneOK, At
<1>9. rejectAcked \subseteq Cands
  BY <1>1 DEF TypeOK
<1>10. Persistent => \A d \in rejectAcked' : OnDisk(d)'
  BY <1>2, <1>7, <1>8, <1>9, FileUntouched DEF SerialInv
<1>11. up' /\ (Persistent \/ faults' = 0) =>
          \A d \in rejectAcked' : cand'[d] # None /\ cand'[d].status = "rejected"
  BY <1>2, <1>7, <1>8 DEF SerialInv
<1>12. ~overlap' /\ F!SerialExclusive'
  BY <1>2, FileUntouched DEF SerialInv
<1> QED
  BY <1>3, <1>4, <1>5, <1>6, <1>10, <1>11, <1>12, SerialStep DEF Moved

(***************************************************************************)
(* A persist by the only handler at work: what it reads is the memory, and *)
(* what it renames into place is what it has read.                         *)
(***************************************************************************)
LEMMA PersistSerial ==
  ASSUME TypeInv, TypeInv', SerialInv, ~concurrent, NEW r \in Handlers,
         \/ MarshalResearch(r) \/ MarshalCands(r) \/ MarshalRuns(r) \/ MarshalPacks(r)
         \/ PersistOpen(r) \/ PersistWrite(r) \/ PersistRename(r) \/ Fault(r)
  PROVE  SerialInv'
<1>1. /\ TypeOK /\ HandlerOK(r) /\ AloneOK(r) /\ rd[r] \in Snapshot /\ F!TypeOK
      /\ ~overlap /\ F!SerialExclusive
  BY DEF TypeInv, TypeOK, SerialInv
<1>2. /\ UNCHANGED mem /\ up' = up /\ rejectAcked' = rejectAcked /\ h[r].at \in PersistSteps
  BY DEF MarshalResearch, MarshalCands, MarshalRuns, MarshalPacks, MarshalStep, PersistOpen,
         PersistWrite, PersistRename, Fault, PersistWriteFails, PersistMkdirFails, hist, At,
         PersistSteps
<1>3. Persistent /\ up /\ rejectAcked \subseteq Cands /\ Stage(r) = h[r].next /\ h[r].next \in Returns
  BY <1>1, <1>2 DEF HandlerOK, TypeOK, At, PersistSteps, Stage
<1>4. \A q \in Handlers \ {r} : At(q, "idle") /\ Stage(q) = "idle"
  BY <1>2, Others DEF At, Stage, PersistSteps
<1>5. up' /\ (Persistent \/ faults' = 0) =>
         \A d \in rejectAcked' : cand'[d] # None /\ cand'[d].status = "rejected"
  BY <1>2, <1>3 DEF SerialInv, mem
<1>6. \A q \in Handlers \ {r} : fpc[q] = "idle"
  BY <1>1, <1>4 DEF TypeOK, At
(*************************************************************************)
(* Within the persist the stage is the same, and so is what AloneOK says *)
(* of it.                                                                *)
(*************************************************************************)
<1>7. ASSUME NEW n \in PersistSteps, Moved(r), h'[r].at = n, h'[r].next = h[r].next,
             n \in {"readRuns", "readPacks"} => rd'[r].cand = cand,
             n = "file" => snap'[r] \in Snapshot /\ snap'[r].cand = cand,
             faults' = faults, ~overlap', F!SerialExclusive',
             path' = path, path # None => data'[path] = data[path]
      PROVE  SerialInv'
  <2>1. Stage(r)' = Stage(r) /\ h'[r].cand = h[r].cand
    BY <1>2, <1>7 DEF Stage, Moved, PersistSteps
  <2>2. AloneOK(r)'
    BY <1>1, <1>2, <1>7, <2>1 DEF AloneOK, At, mem, PersistSteps
  <2>3. Persistent => \A d \in rejectAcked' : OnDisk(d)'
    BY <1>2, <1>3, <1>7 DEF SerialInv, OnDisk
  <2>4. faults' = 0 => PacksMarked'
    <3> SUFFICES ASSUME faults = 0, NEW c \in Cands, NEW p \in Packs, packs[p] = c
                 PROVE  /\ cand[c] # None
                        /\ \/ cand[c].status = "signed"
                           \/ \E q \in Handlers : Stage(q)' = "signMark" /\ h'[q].cand = c
      BY <1>2, <1>7 DEF PacksMarked, mem
    <3>1. /\ cand[c] # None
          /\ cand[c].status = "signed" \/ \E q \in Handlers : Stage(q) = "signMark" /\ h[q].cand = c
      BY DEF SerialInv, PacksMarked
    <3> QED
      BY <1>4, <2>1, <3>1
  <2> QED
    BY <1>4, <1>5, <1>7, <2>2, <2>3, <2>4, SerialStep DEF Moved
<1>8. CASE MarshalResearch(r) \/ MarshalCands(r) \/ MarshalRuns(r)
  <2>1. PICK n \in {"readCands", "readRuns", "readPacks"} : Goto(r, n)
           /\ rd' = [rd EXCEPT ![r] = IF n = "readCands" THEN [NoData EXCEPT !.research = research]
                                      ELSE IF n = "readRuns" THEN [rd[r] EXCEPT !.cand = cand]
                                      ELSE [rd[r] EXCEPT !.runs = runs]]
           /\ (n = "readPacks" => h[r].at = "readRuns")
           /\ UNCHANGED file /\ faults' = faults
    BY <1>8 DEF MarshalResearch, MarshalCands, MarshalRuns, MarshalStep, At
  <2>2. n \in Steps /\ n \in PersistSteps /\ n # "file" /\ n # "idle"
    BY DEF Steps, PersistSteps
  <2>3. n = "readRuns" => rd'[r].cand = cand
    BY <1>1, <2>1 DEF TypeOK, Snapshot
  <2>4. n = "readPacks" => rd'[r].cand = cand
    BY <1>1, <2>1 DEF TypeOK, Snapshot, AloneOK
  <2>5. path' = path /\ data' = data /\ ~overlap' /\ F!SerialExclusive'
    BY <1>1, <2>1, FileUntouched
  <2> QED
    BY <1>1, <1>7, <2>1, <2>2, <2>3, <2>4, <2>5, Moves
<1>9. CASE MarshalPacks(r)
  <2>1. Goto(r, "file") /\ faults' = faults /\ h[r].at = "readPacks"
          /\ F!Marshal(r, [rd[r] EXCEPT !.packs = packs])
    BY <1>9 DEF MarshalPacks, At
  <2>2. "file" \in Steps /\ "file" \in PersistSteps
    BY DEF Steps, PersistSteps
  <2>3. [rd[r] EXCEPT !.packs = packs] \in Snapshot /\ [rd[r] EXCEPT !.packs = packs].cand = rd[r].cand
          /\ rd[r].cand = cand
    BY <1>1, <2>1, MarshalTypes DEF Snapshot, AloneOK
  <2>4. snap'[r] = [rd[r] EXCEPT !.packs = packs]
    BY <1>1, <2>1 DEF F!Marshal, F!TypeOK
  <2>5. ~overlap'
    BY <1>1, <1>6, <2>1 DEF F!Marshal, F!Busy
  <2>6. F!SerialExclusive' /\ path' = path /\ (path # None => data'[path] = data[path])
    BY <1>1, <2>1, <2>3, <2>5, FileAlone DEF F!Marshal
  <2> QED
    BY <1>1, <1>7, <2>1, <2>2, <2>3, <2>4, <2>5, <2>6, Moves
<1>10. CASE PersistOpen(r) \/ PersistWrite(r)
  <2>1. h' = h /\ rd' = rd /\ faults' = faults /\ h[r].at = "file" /\ (F!OpenTmp(r) \/ F!WriteTmp(r))
    BY <1>10 DEF PersistOpen, PersistWrite, At
  <2>2. snap' = snap /\ overlap' = overlap /\ path' = path
    BY <2>1 DEF F!OpenTmp, F!WriteTmp
  <2>3. F!SerialExclusive' /\ (path # None => data'[path] = data[path])
    <3>1. ~F!Rename(r)
      BY <2>1 DEF F!OpenTmp, F!WriteTmp, F!Rename
    <3> QED
      BY <1>1, <2>1, <2>2, <3>1, FileAlone
  <2>4. Moved(r) /\ "file" \in PersistSteps
    BY <1>1, <2>1 DEF Moved, TypeOK, PersistSteps
  <2>5. snap[r] \in Snapshot /\ snap[r].cand = cand
    BY <1>1, <2>1 DEF AloneOK, At
  <2> QED
    BY <1>1, <1>7, <2>1, <2>2, <2>3, <2>4, <2>5
<1>11. CASE PersistRename(r)
  <2>1. h[r].at = "file" /\ F!Rename(r) /\ faults' = faults /\ overlap' = overlap
          /\ Goto(r, IF tmp # None THEN h[r].next ELSE OnError(r))
    BY <1>11 DEF PersistRename, At, F!Rename
  <2>2. F!SerialExclusive' /\ tmp # None /\ path' # None /\ data'[path'] = snap[r]
    BY <1>1, <2>1, FileAlone
  <2>3. snap[r] \in Snapshot /\ snap[r].cand = cand
    BY <1>1, <2>1 DEF AloneOK, At
  <2>4. \A d \in Cands : cand[d] # None /\ cand[d].status = "rejected" => OnDisk(d)'
    BY <2>2, <2>3 DEF OnDisk
  <2>5. Moved(r) /\ h'[r].at = h[r].next /\ h[r].next \notin PersistSteps /\ h[r].next \in Steps
    BY <1>1, <1>3, <2>1, <2>2, Moves DEF Returns, Steps, PersistSteps
  <2>6. Stage(r)' = Stage(r)
    BY <1>3, <2>5 DEF Stage
  <2>7. AloneOK(r)'
    <3>1. CASE h[r].next = "idle"
      BY <2>5, <3>1 DEF AloneOK, Stage, At, PersistSteps, WorkStages, ValidateStages, SignStages
    <3>2. CASE h[r].next # "idle"
      <4>1. h'[r].cand = h[r].cand
        BY <2>5, <3>2 DEF Moved
      <4>2. h[r].next = "ackReject" => OnDisk(h[r].cand)'
        <5>1. h[r].next = "ackReject" => /\ h[r].cand \in Cands /\ cand[h[r].cand] # None
                                         /\ cand[h[r].cand].status = "rejected"
          BY <1>1, <1>3 DEF HandlerOK, AloneOK
        <5> QED
          BY <2>2, <2>3, <4>1, <5>1 DEF OnDisk
      <4> QED
        BY <1>1, <1>2, <2>5, <2>6, <4>1, <4>2 DEF AloneOK, At, mem, PersistSteps
    <3> QED
      BY <3>1, <3>2
  <2>8. \A d \in rejectAcked' : OnDisk(d)'
    BY <1>2, <1>3, <2>4 DEF SerialInv
  <2>9. faults' = 0 => PacksMarked'
    <3> SUFFICES ASSUME faults = 0, NEW c \in Cands, NEW p \in Packs, packs[p] = c
                 PROVE  /\ cand[c] # None
                        /\ \/ cand[c].status = "signed"
                           \/ \E q \in Handlers : Stage(q)' = "signMark" /\ h'[q].cand = c
      BY <1>2, <2>1 DEF PacksMarked, mem
    <3>1. /\ cand[c] # None
          /\ cand[c].status = "signed" \/ \E q \in Handlers : Stage(q) = "signMark" /\ h[q].cand = c
      BY DEF SerialInv, PacksMarked
    <3>2. Stage(r) = "signMark" => h'[r].cand = h[r].cand
      BY <1>3, <2>5 DEF Moved
    <3> QED
      BY <1>4, <2>6, <3>1, <3>2
  <2> QED
    BY <1>1, <1>4, <1>5, <2>1, <2>2, <2>5, <2>7, <2>8, <2>9, SerialStep DEF Moved
<1>12. CASE Fault(r)
  <2>1. PICK n \in {"idle", h[r].next} : Goto(r, n) /\ n # "ackReject" /\ n # "signMark"
    BY <1>12 DEF Fault, PersistWriteFails, PersistMkdirFails, OnError
  <2>2. faults' # 0 /\ overlap' = overlap
    BY <1>1, <1>12, PipelineAssumption
    DEF Fault, PersistWriteFails, PersistMkdirFails, TypeOK, F!WriteFails, file
  <2>3. F!SerialExclusive' /\ path' = path /\ (path # None => data'[path] = data[path])
    <3>1. CASE PersistWriteFails(r)
      <4>1. F!WriteFails(r) /\ ~F!Rename(r)
        BY <3>1 DEF PersistWriteFails, F!WriteFails, F!Rename
      <4> QED
        BY <1>1, <2>2, <4>1, FileAlone
    <3>2. CASE PersistMkdirFails(r)
      BY <1>1, <3>2, FileUntouched DEF PersistMkdirFails
    <3> QED
      BY <1>12, <3>1, <3>2 DEF Fault
  <2>4. Moved(r) /\ h'[r].at = n /\ n \notin PersistSteps
    BY <1>1, <1>3, <2>1, Moves DEF Returns, Steps, PersistSteps
  <2>5. AloneOK(r)'
    <3>1. CASE n = "idle"
      BY <2>4, <3>1 DEF AloneOK, Stage, At, PersistSteps, WorkStages, ValidateStages, SignStages
    <3>2. CASE n # "idle"
      <4>1. h'[r].cand = h[r].cand /\ Stage(r)' = Stage(r) /\ n = h[r].next
        BY <1>3, <2>1, <2>4, <3>2 DEF Moved, Stage
      <4> QED
        BY <1>1, <1>2, <2>1, <2>4, <4>1 DEF AloneOK, At, mem, PersistSteps
    <3> QED
      BY <3>1, <3>2
  <2>6. \A d \in rejectAcked' : OnDisk(d)'
    BY <1>2, <1>3, <2>3 DEF SerialInv, OnDisk
  <2> QED
    BY <1>1, <1>4, <1>5, <2>2, <2>3, <2>4, <2>5, <2>6, SerialStep DEF Moved
<1> QED
  BY <1>8, <1>9, <1>10, <1>11, <1>12

(***************************************************************************)
(* A crash loses the handlers and the maps; the restart reads the file, in *)
(* which every answered rejection is.                                      *)
(***************************************************************************)
LEMMA AllIdle ==
  ASSUME SerialInv, ~overlap', F!SerialExclusive', \A r \in Handlers : h'[r] = Idle, faults' # 0,
         path' = path, data' = data, rejectAcked' = rejectAcked, rejectAcked \subseteq Cands,
         concurrent' = concurrent,
         up' /\ Persistent => \A c \in rejectAcked : cand'[c] # None /\ cand'[c].status = "rejected"
  PROVE  SerialInv'
<1> SUFFICES ASSUME ~concurrent PROVE SerialInv'
  BY DEF SerialInv
<1>1. Idle.at = "idle"
  BY DEF Idle
<1>2. \A r \in Handlers : AloneOK(r)' /\ h'[r].at = "idle"
  BY <1>1 DEF AloneOK, Stage, At, PersistSteps, WorkStages, ValidateStages, SignStages
<1>3. Persistent => \A c \in rejectAcked' : OnDisk(c)'
  BY DEF SerialInv, OnDisk
<1> QED
  BY <1>2, <1>3 DEF SerialInv, At

LEMMA CrashSerial == ASSUME TypeInv, SerialInv, Crash PROVE SerialInv'
<1> SUFFICES ASSUME ~concurrent PROVE SerialInv'
  BY DEF SerialInv, Crash, hist
<1>1. F!SerialExclusive /\ ~overlap /\ F!Crash /\ rejectAcked \subseteq Cands /\ faults \in Nat
  BY PipelineAssumption DEF SerialInv, Crash, TypeInv, TypeOK
<1>2. F!SerialExclusive' /\ ~overlap' /\ path' = path /\ data' = data
  BY <1>1 DEF F!Crash, F!SerialExclusive, F!Busy
<1>3. faults' # 0 /\ ~up' /\ rejectAcked' = rejectAcked /\ concurrent' = concurrent
  BY <1>1 DEF Crash, hist
<1>4. \A r \in Handlers : h'[r] = Idle
  BY DEF Crash
<1> QED
  BY <1>1, <1>2, <1>3, <1>4, AllIdle

LEMMA RestartSerial == ASSUME TypeInv, SerialInv, Restart PROVE SerialInv'
<1> SUFFICES ASSUME ~concurrent PROVE SerialInv'
  BY DEF SerialInv, Restart, hist
<1>1. /\ ~overlap' /\ F!SerialExclusive' /\ path' = path /\ data' = data
  BY FileUntouched DEF Restart, SerialInv
<1>2. /\ faults' # 0 /\ rejectAcked' = rejectAcked /\ rejectAcked \subseteq Cands
      /\ concurrent' = concurrent /\ \A r \in Handlers : h'[r] = Idle
  BY PipelineAssumption DEF Restart, hist, TypeInv, TypeOK, HandlerOK
<1>3. Persistent => \A c \in rejectAcked : cand'[c] # None /\ cand'[c].status = "rejected"
  BY DEF SerialInv, OnDisk, Restart, Loaded
<1> QED
  BY <1>1, <1>2, <1>3, AllIdle

LEMMA StutterSerial == ASSUME SerialInv, UNCHANGED vars PROVE SerialInv'
<1>1. UNCHANGED mem /\ h' = h /\ rd' = rd /\ up' = up /\ faults' = faults /\ UNCHANGED file
      /\ rejectAcked' = rejectAcked /\ concurrent' = concurrent
  BY DEF vars, hist
<1>2. /\ (overlap <=> overlap') /\ (F!SerialExclusive <=> F!SerialExclusive')
      /\ path' = path /\ data' = data /\ snap' = snap
  BY <1>1, FileUntouched
<1>3. \A r \in Handlers : AloneOK(r) <=> AloneOK(r)'
  BY <1>1, <1>2 DEF AloneOK, Stage, At, OnDisk, mem
<1>4. PacksMarked <=> PacksMarked'
  BY <1>1 DEF PacksMarked, Stage, mem
<1> QED
  BY <1>1, <1>2, <1>3, <1>4 DEF SerialInv, At, OnDisk, mem

LEMMA NextSerial == TypeInv /\ DataInv /\ SerialInv /\ [Next]_vars => SerialInv'
<1> SUFFICES ASSUME TypeInv, DataInv, SerialInv, [Next]_vars PROVE SerialInv'
  OBVIOUS
<1>1. TypeInv'
  BY NextType
<1>2. ASSUME NEW r \in Handlers, Proceed(r) \/ Fault(r) PROVE SerialInv'
  <2>1. concurrent' = concurrent
    BY <1>2
    DEF Proceed, Fault, ValidateStart, ValidateRun, ValidateFinish, Approve, Reject, AckReject,
        Sign, SignFails, SignMark, MarshalResearch, MarshalCands, MarshalRuns, MarshalStep,
        MarshalPacks, PersistOpen, PersistWrite, PersistRename, PersistWriteFails,
        PersistMkdirFails, hist
  <2>2. CASE concurrent
    BY <2>1, <2>2 DEF SerialInv
  <2>3. CASE ~concurrent
    BY <1>1, <1>2, <2>3, WorkSerial, StoreSerial, EndSerial, PersistSerial DEF Proceed
  <2> QED
    BY <2>2, <2>3
<1> QED
  BY <1>1, <1>2, RequestSerial, CrashSerial, RestartSerial, StutterSerial DEF Next

LEMMA SerialInvariance == Spec => [](TypeInv /\ DataInv /\ SerialInv)
<1>1. Init => TypeInv /\ DataInv /\ SerialInv
  BY InitType, InitData, InitSerial
<1>2. TypeInv /\ DataInv /\ SerialInv /\ [Next]_vars => (TypeInv /\ DataInv /\ SerialInv)'
  BY NextType, NextData, NextSerial
<1> QED
  BY <1>1, <1>2, PTL DEF Spec

(***************************************************************************)
(* The state file as a store.  A handler holds bytes exactly while it is   *)
(* in the file part of persist; while no two are, each step of the service *)
(* is one of the abstract store or does not show in it.                    *)
(***************************************************************************)
LEMMA BytesInHand ==
  F!TypeOK /\ F!SnapInPersist /\ [F!Next]_F!vars => F!SnapInPersist'
<1> SUFFICES ASSUME F!TypeOK, F!SnapInPersist, [F!Next]_F!vars PROVE F!SnapInPersist'
  OBVIOUS
<1> USE BytesAssumption DEF F!TypeOK, F!Data, F!SnapInPersist, F!Busy
<1>1. ASSUME NEW r \in Handlers, NEW c \in Snapshot, F!Marshal(r, c) PROVE F!SnapInPersist'
  BY <1>1 DEF F!Marshal
<1>2. ASSUME NEW r \in Handlers, F!OpenTmp(r) \/ F!WriteTmp(r) PROVE F!SnapInPersist'
  BY <1>2 DEF F!OpenTmp, F!WriteTmp
<1>3. ASSUME NEW r \in Handlers, F!WriteFails(r) \/ F!Rename(r) PROVE F!SnapInPersist'
  BY <1>3 DEF F!WriteFails, F!Rename
<1>4. ASSUME F!Crash \/ UNCHANGED F!vars PROVE F!SnapInPersist'
  BY <1>4 DEF F!Crash, F!vars
<1> QED
  BY <1>1, <1>2, <1>3, <1>4 DEF F!Next

LEMMA AbstractStep ==
  F!TypeOK /\ F!SnapInPersist /\ F!SerialExclusive /\ ~overlap /\ [F!Next]_F!vars
     => [F!Abstract!StoreNext]_F!Abstract!storeVars
<1> SUFFICES ASSUME F!TypeOK, F!SnapInPersist, F!SerialExclusive, ~overlap, [F!Next]_F!vars
             PROVE  F!Abstract!StoreNext \/ UNCHANGED <<F!Load, acked, snap>>
  BY DEF F!Abstract!storeVars
<1> USE PipelineAssumption, BytesAssumption DEF F!TypeOK, F!SnapInPersist, F!Data, F!Entry
<1>1. ASSUME NEW r \in Handlers, NEW c \in Snapshot, F!Marshal(r, c)
      PROVE  F!Abstract!HandIn(r, c)
  BY <1>1 DEF F!Marshal, F!Load, F!Busy, F!Abstract!HandIn
<1>2. ASSUME NEW r \in Handlers, F!OpenTmp(r) \/ F!WriteTmp(r)
      PROVE  UNCHANGED <<F!Load, acked, snap>>
  BY <1>2 DEF F!OpenTmp, F!WriteTmp, F!Free, F!Load, F!SerialExclusive
<1>3. ASSUME NEW r \in Handlers, F!WriteFails(r) PROVE F!Abstract!GiveUp(r)
  BY <1>3 DEF F!WriteFails, F!Load, F!SerialExclusive, F!Busy, F!Abstract!GiveUp
<1>4. ASSUME NEW r \in Handlers, F!Rename(r) PROVE F!Abstract!Commit(r)
  BY <1>4 DEF F!Rename, F!Load, F!SerialExclusive, F!Busy, F!Abstract!Commit
<1>5. ASSUME F!Crash PROVE F!Abstract!Restart
  BY <1>5 DEF F!Crash, F!Load, F!Abstract!Restart
<1>6. ASSUME UNCHANGED F!vars PROVE UNCHANGED <<F!Load, acked, snap>>
  BY <1>6 DEF F!vars, F!Load
<1> QED
  BY <1>1, <1>2, <1>3, <1>4, <1>5, <1>6 DEF F!Next, F!Abstract!StoreNext

(***************************************************************************)
(* Refinement of the whole service: when requests come one at a time, what *)
(* a restart of it would find is the one value of an abstract store, which *)
(* changes in the step that confirms a persist and in no other, whatever   *)
(* crashes and failed writes there are (store.go:85-110).                  *)
(***************************************************************************)
THEOREM SerialServiceIsAStore == Spec /\ []~concurrent => F!Abstract!StoreSpec
<1>1. Init => F!Abstract!StoreInit /\ F!SnapInPersist
  BY PipelineAssumption DEF Init, F!Init, F!Load, F!SnapInPersist, F!Busy, F!Abstract!StoreInit
<1>2. TypeInv => F!TypeOK
  BY DEF TypeInv, TypeOK
<1>3. SerialInv /\ ~concurrent => F!SerialExclusive /\ ~overlap
  BY DEF SerialInv
<1> QED
  BY <1>1, <1>2, <1>3, BytesInHand, AbstractStep, PipelineDrivesFile, SerialInvariance, PTL
  DEF Spec, F!Spec, F!Abstract!StoreSpec

(***************************************************************************)
(* Only what a validation has passed is up for review, every signed pack   *)
(* is of a candidate some reviewer has approved (both under every          *)
(* interleaving), and with requests one at a time an answered rejection    *)
(* stays, through failed persists, crashes and restarts.                   *)
(***************************************************************************)
THEOREM ReviewHolds == Spec => []ReviewSound
<1>1. TypeInv /\ DataInv /\ SerialInv => ReviewSound
  <2> SUFFICES ASSUME TypeInv, DataInv, SerialInv PROVE ReviewSound
    OBVIOUS
  <2>1. path # None => path \in Inodes
    BY DEF TypeInv, TypeOK, F!TypeOK, F!Entry
  <2>2. ReviewedAfterSuccess
    BY <2>1 DEF DataInv, Sound, ReviewedAfterSuccess
  <2>3. PacksApproved
    BY DEF DataInv, Sound, PacksApproved, Memory
  <2>4. AckedRejectionFinal
    BY DEF SerialInv, AckedRejectionFinal
  <2> QED
    BY <2>2, <2>3, <2>4 DEF ReviewSound
<1> QED
  BY <1>1, SerialInvariance, PTL

(***************************************************************************)
(* handleSign's last assignment, alone: it finds the candidate as          *)
(* approved as its test did.                                               *)
(***************************************************************************)
LEMMA SignStep ==
  ASSUME TypeInv, SerialInv, [Next]_vars, ~concurrent, NEW c \in Cands,
         cand[c] # None, cand'[c] # None, cand[c] # cand'[c], cand'[c].status = "signed"
  PROVE  cand[c].status = "approved"
<1>1. TypeOK
  BY DEF TypeInv
<1>2. ASSUME NEW r \in Handlers, Request(r) PROVE FALSE
  <2>1. ASSUME NEW d \in Cands, CreateCandidate(r, d) PROVE FALSE
    <3>1. cand' = [cand EXCEPT ![d] = [status |-> "draft", lastRun |-> None, pack |-> None]]
      BY <2>1 DEF CreateCandidate
    <3> QED
      BY <1>1, <3>1 DEF TypeOK
  <2> QED
    BY <1>2, <2>1
    DEF Request, CreateResearch, ValidateAdmit, ApproveAdmit, RejectAdmit, SignAdmit, Admit, mem
<1>3. ASSUME NEW r \in Handlers,
             ValidateStart(r) \/ ValidateFinish(r) \/ Approve(r) \/ Reject(r)
      PROVE  FALSE
  <2>1. h[r].cand \in Cands /\ cand[h[r].cand] \in Candidate
    <3>1. Stage(r) \in WorkStages /\ HandlerOK(r)
      BY <1>3
      DEF ValidateStart, ValidateFinish, Approve, Reject, At, Stage, PersistSteps, WorkStages,
          ValidateStages, TypeInv
    <3> QED
      BY <1>1, <3>1 DEF HandlerOK, TypeOK
  <2>2. \A d \in Cands \ {h[r].cand} : cand'[d] = cand[d]
    BY <1>1, <1>3 DEF ValidateStart, ValidateFinish, Approve, Reject, SetStatus, TypeOK
  <2>3. cand'[h[r].cand].status # "signed"
    BY <1>1, <1>3, <2>1
    DEF ValidateStart, ValidateFinish, Approve, Reject, SetStatus, TypeOK, Candidate
  <2> QED
    BY <2>2, <2>3
<1>4. ASSUME NEW r \in Handlers, SignMark(r) PROVE cand[c].status = "approved"
  <2>1. Stage(r) = "signMark" /\ AloneOK(r)
    BY <1>4 DEF SignMark, At, Stage, PersistSteps, SerialInv
  <2>2. c = h[r].cand
    BY <1>1, <1>4 DEF SignMark, TypeOK
  <2> QED
    BY <2>1, <2>2 DEF AloneOK, SignStages
<1>5. ASSUME NEW r \in Handlers, Proceed(r) PROVE cand[c].status = "approved"
  BY <1>3, <1>4, <1>5
  DEF Proceed, ValidateRun, AckReject, Sign, SignFails, MarshalResearch, MarshalCands, MarshalRuns,
      MarshalStep, MarshalPacks, PersistOpen, PersistWrite, PersistRename, mem
<1>6. ASSUME NEW r \in Handlers, Fault(r) PROVE FALSE
  BY <1>6 DEF Fault, PersistWriteFails, PersistMkdirFails, mem
<1>7. ~Crash
  BY DEF Crash, NoData
<1>8. ~Restart
  BY DEF Restart, TypeInv, Memory, NoData
<1>9. ~UNCHANGED vars
  BY DEF vars, mem
<1> QED
  BY <1>2, <1>5, <1>6, <1>7, <1>8, <1>9 DEF Next

(***************************************************************************)
(* With requests one at a time, no pack of a rejected candidate is served  *)
(* as long as no persist has failed, and nothing but an approved candidate *)
(* is signed.                                                              *)
(***************************************************************************)
THEOREM SigningHolds == Spec => SigningSound
<1>1. TypeInv /\ SerialInv => TypeOK /\ RejectedNotServed
  <2> SUFFICES ASSUME TypeInv, SerialInv, ~concurrent, faults = 0,
                      NEW c \in Cands, cand[c] # None, cand[c].status = "rejected",
                      NEW p \in Packs, packs[p] = c
               PROVE  FALSE
    BY DEF RejectedNotServed, TypeInv
  <2>1. PICK r \in Handlers : Stage(r) = "signMark" /\ h[r].cand = c
    BY DEF SerialInv, PacksMarked
  <2> QED
    BY <2>1 DEF SerialInv, AloneOK, SignStages
<1>2. TypeInv /\ SerialInv /\ [Next]_vars =>
         [\A c \in Cands :
            ( /\ ~concurrent
              /\ cand[c] # None /\ cand'[c] # None /\ cand[c] # cand'[c]
              /\ cand'[c].status = "signed" )
               => cand[c].status = "approved"]_vars
  BY SignStep
<1> QED
  BY <1>1, <1>2, SerialInvariance, PTL DEF Spec, SigningSound, SignFromApproved

-----------------------------------------------------------------------------
(***************************************************************************)
(* The evaluation of rules.  Its recursion first: clauses nest to a finite *)
(* depth, so there is one verdict for each, which follows from the         *)
(* verdicts of the clauses it lists.                                       *)
(***************************************************************************)
VerdictFrom(v, c, b) ==
    IF c.leaf = "group" THEN EvalGroup(c.op, c.min, [i \in DOMAIN c.of |-> v[c.of[i]]])
    ELSE EvalLeaf(c, b)

Ranks(depth) ==
    /\ depth \in [Groups -> 0..MaxNesting]
    /\ \A c \in Groups : \A i \in DOMAIN c.of : c.of[i] \in Groups => depth[c.of[i]] < depth[c]

Shallow(depth, c, n) == c \in Groups => depth[c] < n

LEMMA ClauseLists ==
  ASSUME NEW c \in Groups
  PROVE  c \in RuleClauses /\ c.leaf = "group" /\ \A i \in DOMAIN c.of : c.of[i] \in RuleClauses
<1>1. c.of \in Seq(RuleClauses)
  BY RuleEvalAssumption
<1> QED
  BY <1>1 DEF Groups

LEMMA ChildrenShallow ==
  ASSUME NEW depth, Ranks(depth), NEW n \in Nat, NEW c \in Groups, Shallow(depth, c, n + 1),
         NEW i \in DOMAIN c.of
  PROVE  Shallow(depth, c.of[i], n)
<1>1. depth[c] \in Nat
  BY RuleEvalAssumption DEF Ranks
<1>2. ASSUME c.of[i] \in Groups PROVE depth[c.of[i]] < n
  <2>1. depth[c.of[i]] \in Nat /\ depth[c.of[i]] < depth[c]
    BY <1>2, RuleEvalAssumption DEF Ranks
  <2> QED
    BY <1>1, <2>1 DEF Shallow
<1> QED
  BY <1>2 DEF Shallow

LEMMA AllShallow ==
  ASSUME NEW depth, Ranks(depth), NEW c
  PROVE  Shallow(depth, c, MaxNesting + 1)
  BY RuleEvalAssumption DEF Ranks, Shallow

(* What a group says depends on the verdicts of the clauses it lists only. *)
LEMMA SameVerdict ==
  ASSUME NEW v, NEW w, NEW b, NEW c \in RuleClauses,
         c \in Groups => \A i \in DOMAIN c.of : v[c.of[i]] = w[c.of[i]]
  PROVE  VerdictFrom(v, c, b) = VerdictFrom(w, c, b)
<1>1. CASE c.leaf = "group"
  <2>1. [i \in DOMAIN c.of |-> v[c.of[i]]] = [i \in DOMAIN c.of |-> w[c.of[i]]]
    BY <1>1 DEF Groups
  <2> QED
    BY <1>1, <2>1 DEF VerdictFrom
<1>2. CASE c.leaf # "group"
  BY <1>2 DEF VerdictFrom
<1> QED
  BY <1>1, <1>2

LEMMA EvalExists ==
  ASSUME NEW b
  PROVE  \E v : v = [c \in RuleClauses |-> VerdictFrom(v, c, b)]
<1>1. PICK depth : Ranks(depth)
  BY RuleEvalAssumption DEF Ranks
<1> DEFINE Evaluates(v, n) ==
             /\ v = [c \in RuleClauses |-> v[c]]
             /\ \A c \in RuleClauses : Shallow(depth, c, n) => v[c] = VerdictFrom(v, c, b)
           T == {n \in Nat : \E v : Evaluates(v, n)}
<1>2. 0 \in T
  <2>1. PICK v : v = [c \in RuleClauses |-> EvalLeaf(c, b)]
    OBVIOUS
  <2>2. ASSUME NEW c \in RuleClauses, Shallow(depth, c, 0) PROVE v[c] = VerdictFrom(v, c, b)
    <3>1. c \notin Groups
      <4> SUFFICES ASSUME c \in Groups PROVE FALSE
        OBVIOUS
      <4>1. depth[c] \in Nat /\ depth[c] < 0
        BY <1>1, <2>2, RuleEvalAssumption DEF Ranks, Shallow
      <4> QED
        BY <4>1
    <3> QED
      BY <2>1, <3>1 DEF Groups, VerdictFrom
  <2>3. Evaluates(v, 0)
    BY <2>1, <2>2
  <2> HIDE DEF Evaluates
  <2> QED
    BY <2>3
<1>3. ASSUME NEW n \in Nat, n \in T PROVE n + 1 \in T
  <2>1. PICK v : Evaluates(v, n)
    BY <1>3
  <2>2. PICK w : w = [c \in RuleClauses |-> IF Shallow(depth, c, n) THEN v[c]
                                            ELSE VerdictFrom(v, c, b)]
    OBVIOUS
  <2>3. ASSUME NEW c \in RuleClauses, Shallow(depth, c, n + 1) PROVE w[c] = VerdictFrom(w, c, b)
    <3>1. ASSUME c \in Groups, NEW i \in DOMAIN c.of PROVE v[c.of[i]] = w[c.of[i]]
      BY <1>1, <2>2, <2>3, <3>1, ClauseLists, ChildrenShallow
    <3>2. VerdictFrom(v, c, b) = VerdictFrom(w, c, b)
      BY <3>1, SameVerdict
    <3>3. w[c] = VerdictFrom(v, c, b)
      BY <2>1, <2>2
    <3> QED
      BY <3>2, <3>3
  <2>4. Evaluates(w, n + 1)
    BY <2>2, <2>3
  <2> HIDE DEF Evaluates
  <2> QED
    BY <2>4
<1>4. MaxNesting + 1 \in T
  <2> HIDE DEF T
  <2> QED
    BY <1>2, <1>3, SetInduction, RuleEvalAssumption
<1>5. PICK v : Evaluates(v, MaxNesting + 1)
  BY <1>4
<1>6. \A c \in RuleClauses : v[c] = VerdictFrom(v, c, b)
  BY <1>1, <1>5, AllShallow
<1> QED
  BY <1>5, <1>6

LEMMA EvalUnfolds ==
  ASSUME NEW b
  PROVE  \A c \in RuleClauses : Evaluation(b)[c] = VerdictFrom(Evaluation(b), c, b)
<1>1. PICK w : w = [c \in RuleClauses |-> VerdictFrom(w, c, b)]
  BY EvalExists
<1>2. w = [c \in RuleClauses |->
             IF c.leaf = "group" THEN EvalGroup(c.op, c.min, [i \in DOMAIN c.of |-> w[c.of[i]]])
             ELSE EvalLeaf(c, b)]
  BY <1>1, Zenon DEF VerdictFrom
<1>3. Evaluation(b) =
        [c \in RuleClauses |->
             IF c.leaf = "group"
             THEN EvalGroup(c.op, c.min, [i \in DOMAIN c.of |-> Evaluation(b)[c.of[i]]])
             ELSE EvalLeaf(c, b)]
  BY <1>2, Zenon DEF Evaluation
<1>4. Evaluation(b) = [c \in RuleClauses |-> VerdictFrom(Evaluation(b), c, b)]
  BY <1>3, Zenon DEF VerdictFrom
<1>5. PICK v : v = Evaluation(b)
  OBVIOUS
<1>6. v = [c \in RuleClauses |-> VerdictFrom(v, c, b)]
  BY <1>4, <1>5, Zenon
<1> QED
  BY <1>5, <1>6

(***************************************************************************)
(* Monotonicity.  A batch with more in it: what was indexed is indexed as  *)
(* it was.                                                                 *)
(***************************************************************************)
Within(b, later) ==
    /\ \A g \in DOMAIN b.procs : g \in DOMAIN later.procs /\ later.procs[g] = b.procs[g]
    /\ b.dns \subseteq later.dns /\ b.flow \subseteq later.flow
    /\ b.sase \subseteq later.sase /\ b.ext \subseteq later.ext

Decided(x) == x \in {"yes", "no"}

LEMMA VerdictsDecided == \A bool : Decided(Verdict(bool)) /\ (Verdict(bool) = "yes" <=> bool)
  BY DEF Decided, Verdict

LEMMA ProcessMatchKept ==
  ASSUME NEW b, NEW later, Within(b, later), NEW leaf, NEW proc, MatchProcess(b, leaf, proc)
  PROVE  MatchProcess(later, leaf, proc)
<1>1. CASE proc.parent \in DOMAIN b.procs
  <2>1. ParentWords(later, proc) = ParentWords(b, proc)
    BY <1>1 DEF ParentWords, Within
  <2> QED
    BY <2>1 DEF MatchProcess
<1>2. CASE proc.parent \notin DOMAIN b.procs
  <2>1. ParentWords(b, proc) = {}
    BY <1>2 DEF ParentWords
  <2>2. "parents" \notin DOMAIN leaf
    BY <2>1 DEF MatchProcess, SubstringAny
  <2> QED
    BY <2>2 DEF MatchProcess
<1> QED
  BY <1>1, <1>2

LEMMA LeafKept ==
  ASSUME NEW b, NEW later, Within(b, later), NEW c, c.leaf \in Leaves
  PROVE  /\ Decided(EvalLeaf(c, b))
         /\ EvalLeaf(c, b) = "yes" => EvalLeaf(c, later) = "yes"
<1>1. EvalProcessLeaf(c, b) => EvalProcessLeaf(c, later)
  <2> SUFFICES ASSUME NEW g \in DOMAIN b.procs, MatchProcess(b, c, b.procs[g])
               PROVE  EvalProcessLeaf(c, later)
    BY DEF EvalProcessLeaf
  <2>1. g \in DOMAIN later.procs /\ MatchProcess(later, c, later.procs[g])
    BY ProcessMatchKept DEF Within
  <2> QED
    BY <2>1 DEF EvalProcessLeaf
<1>2. EvalDNSLeaf(c, b) => EvalDNSLeaf(c, later)
  BY DEF EvalDNSLeaf, Within
<1>3. EvalFlowLeaf(c, b) => EvalFlowLeaf(c, later)
  BY DEF EvalFlowLeaf, Within
<1>4. EvalSASELeaf(c, b) => EvalSASELeaf(c, later)
  BY DEF EvalSASELeaf, Within
<1>5. EvalExtLeaf(c, b) => EvalExtLeaf(c, later)
  BY DEF EvalExtLeaf, Within
<1> DEFINE holds(x) == \/ c.leaf = "process" /\ EvalProcessLeaf(c, x)
                       \/ c.leaf = "dns" /\ EvalDNSLeaf(c, x)
                       \/ c.leaf = "flow" /\ EvalFlowLeaf(c, x)
                       \/ c.leaf = "sase" /\ EvalSASELeaf(c, x)
                       \/ c.leaf = "ext" /\ EvalExtLeaf(c, x)
<1>6. holds(b) => holds(later)
  BY <1>1, <1>2, <1>3, <1>4, <1>5
<1>7. EvalLeaf(c, b) = Verdict(holds(b)) /\ EvalLeaf(c, later) = Verdict(holds(later))
  BY DEF EvalLeaf
<1> HIDE DEF holds
<1> QED
  BY <1>6, <1>7, VerdictsDecided

(* The first clause that is not good, if there is one.                     *)
LEMMA FirstFound ==
  ASSUME NEW n \in Nat, NEW vs, DOMAIN vs = 1..n, NEW good
  PROVE  \/ (\A i \in 1..n : vs[i] = good) /\ FirstNot(vs, good) = good
         \/ \E i \in 1..n : vs[i] # good /\ FirstNot(vs, good) = vs[i]
<1>1. PICK bad : bad = {i \in DOMAIN vs : vs[i] # good}
  OBVIOUS
<1>2. CASE bad = {}
  BY <1>1, <1>2 DEF FirstNot
<1>3. CASE bad # {}
  <2>1. bad \subseteq Nat
    BY <1>1
  <2>2. PICK i \in bad : \A j \in bad : ~(<<j, i>> \in OpToRel(<, Nat))
    BY <1>3, <2>1, NatLessThanWellFounded, WFMin, Zenon
  <2>3. \A j \in bad : ~(j < i)
    BY <2>1, <2>2, Zenon DEF OpToRel
  <2>4. \A j \in bad : i <= j
    BY <2>1, <2>3
  <2>5. PICK k : k = CHOOSE i_1 \in bad : \A j \in bad : i_1 <= j
    OBVIOUS
  <2>6. k \in bad
    BY <2>4, <2>5, Zenon
  <2>7. FirstNot(vs, good) = vs[k]
    BY <1>1, <1>3, <2>5, Zenon DEF FirstNot
  <2> QED
    BY <1>1, <2>6, <2>7
<1> QED
  BY <1>2, <1>3

LEMMA GroupKept ==
  ASSUME NEW n \in Nat, NEW vs, NEW ws, DOMAIN vs = 1..n, DOMAIN ws = 1..n,
         \A i \in 1..n : Decided(vs[i]) /\ Decided(ws[i]) /\ (vs[i] = "yes" => ws[i] = "yes"),
         NEW op \in {"all_of", "any_of"}, NEW min \in Int
  PROVE  /\ Decided(EvalGroup(op, min, vs))
         /\ EvalGroup(op, min, vs) = "yes" => EvalGroup(op, min, ws) = "yes"
<1>1. CASE op = "all_of"
  <2>1. EvalGroup(op, min, vs) = FirstNot(vs, "yes") /\ EvalGroup(op, min, ws) = FirstNot(ws, "yes")
    BY <1>1 DEF EvalGroup
  <2>2. Decided(FirstNot(vs, "yes"))
    BY FirstFound DEF Decided
  <2>3. ASSUME FirstNot(vs, "yes") = "yes" PROVE FirstNot(ws, "yes") = "yes"
    <3>1. \A i \in 1..n : vs[i] = "yes"
      BY <2>3, FirstFound
    <3>2. \A i \in 1..n : ws[i] = "yes"
      BY <3>1
    <3> QED
      BY <3>2, FirstFound
  <2> QED
    BY <2>1, <2>2, <2>3
<1>2. CASE op = "any_of"
  <2> DEFINE met(xs) == {i \in DOMAIN xs : xs[i] = "yes"}
  <2>1. /\ EvalGroup(op, min, vs) = Verdict(MinMet(Cardinality(met(vs)), min))
        /\ EvalGroup(op, min, ws) = Verdict(MinMet(Cardinality(met(ws)), min))
    BY <1>2 DEF EvalGroup, Decided
  <2>2. met(vs) \subseteq met(ws) /\ met(ws) \subseteq 1..n
    OBVIOUS
  <2>3. IsFiniteSet(1..n)
    BY FS_Interval
  <2>4. IsFiniteSet(met(ws)) /\ IsFiniteSet(met(vs))
    BY <2>2, <2>3, FS_Subset
  <2>5. /\ Cardinality(met(vs)) \in Nat /\ Cardinality(met(ws)) \in Nat
        /\ Cardinality(met(vs)) <= Cardinality(met(ws))
    BY <2>2, <2>4, FS_Subset, FS_CardinalityType
  <2> HIDE DEF met
  <2>6. MinMet(Cardinality(met(vs)), min) => MinMet(Cardinality(met(ws)), min)
    BY <2>5 DEF MinMet
  <2> QED
    BY <2>1, <2>6, VerdictsDecided
<1> QED
  BY <1>1, <1>2

(* The clauses the schema accepts are known, all the way down.             *)
LEMMA SchemaClosed ==
  ASSUME NEW c \in SchemaClauses
  PROVE  /\ c \in RuleClauses
         /\ c \notin Groups => c.leaf \in Leaves
         /\ c \in Groups => /\ c.op \in {"all_of", "any_of"}
                            /\ \A i \in DOMAIN c.of : c.of[i] \in SchemaClauses
<1>1. CASE c \in SchemaLeaves
  BY <1>1 DEF SchemaLeaves, Groups, Leaves
<1>2. ASSUME NEW S \in SUBSET Groups, c \in S,
             \A d \in S : /\ d.op \in {"all_of", "any_of"}
                          /\ \A i \in DOMAIN d.of : d.of[i] \in S \union SchemaLeaves
      PROVE  /\ c \in Groups /\ c.op \in {"all_of", "any_of"}
             /\ \A i \in DOMAIN c.of : c.of[i] \in SchemaClauses
  <2>1. S \subseteq SchemaClauses
    BY <1>2 DEF SchemaClauses
  <2>2. SchemaLeaves \subseteq SchemaClauses
    BY DEF SchemaClauses
  <2> QED
    BY <1>2, <2>1, <2>2
<1> QED
  BY <1>1, <1>2 DEF SchemaClauses, Groups

LEMMA MatchKept ==
  ASSUME NEW b, NEW later, Within(b, later), NEW clause \in SchemaClauses,
         Evaluation(b)[clause] = "yes"
  PROVE  Evaluation(later)[clause] = "yes"
<1>1. PICK depth : Ranks(depth)
  BY RuleEvalAssumption DEF Ranks
<1>2. PICK v, w : v = Evaluation(b) /\ w = Evaluation(later)
  OBVIOUS
<1> DEFINE Grows(c) == Decided(v[c]) /\ Decided(w[c]) /\ (v[c] = "yes" => w[c] = "yes")
           T == {n \in Nat : \A c \in SchemaClauses : Shallow(depth, c, n) => Grows(c)}
<1>3. ASSUME NEW c \in SchemaClauses, c \notin Groups PROVE Grows(c)
  <2>1. c.leaf \in Leaves /\ c \in RuleClauses /\ c.leaf # "group"
    BY <1>3, SchemaClosed DEF Groups
  <2>2. v[c] = EvalLeaf(c, b) /\ w[c] = EvalLeaf(c, later)
    BY <1>2, <2>1, EvalUnfolds DEF VerdictFrom
  <2>3. Within(later, later)
    BY DEF Within
  <2> QED
    BY <2>1, <2>2, <2>3, LeafKept
<1>4. 0 \in T
  <2> SUFFICES ASSUME NEW c \in SchemaClauses, Shallow(depth, c, 0) PROVE c \notin Groups
    BY <1>3
  <2> QED
    BY <1>1, RuleEvalAssumption DEF Ranks, Shallow
<1>5. ASSUME NEW n \in Nat, n \in T PROVE n + 1 \in T
  <2> SUFFICES ASSUME NEW c \in SchemaClauses, Shallow(depth, c, n + 1), c \in Groups PROVE Grows(c)
    BY <1>3
  <2>1. /\ c \in RuleClauses /\ c.leaf = "group" /\ c.op \in {"all_of", "any_of"}
        /\ c.of \in Seq(RuleClauses) /\ c.min \in Int
        /\ \A i \in DOMAIN c.of : c.of[i] \in SchemaClauses
    BY SchemaClosed, ClauseLists, RuleEvalAssumption
  <2>2. PICK m \in Nat : DOMAIN c.of = 1..m
    BY <2>1
  <2>3. \A i \in 1..m : Grows(c.of[i])
    BY <1>1, <1>5, <2>1, <2>2, ChildrenShallow
  <2>4. PICK vs, ws : vs = [i \in DOMAIN c.of |-> v[c.of[i]]] /\ ws = [i \in DOMAIN c.of |-> w[c.of[i]]]
    OBVIOUS
  <2>5. v[c] = EvalGroup(c.op, c.min, vs) /\ w[c] = EvalGroup(c.op, c.min, ws)
    BY <1>2, <2>1, <2>4, EvalUnfolds DEF VerdictFrom
  <2>6. /\ DOMAIN vs = 1..m /\ DOMAIN ws = 1..m
        /\ \A i \in 1..m : Decided(vs[i]) /\ Decided(ws[i]) /\ (vs[i] = "yes" => ws[i] = "yes")
    BY <2>2, <2>3, <2>4
  <2>7. \A i \in 1..m : Decided(ws[i]) /\ Decided(ws[i]) /\ (ws[i] = "yes" => ws[i] = "yes")
    BY <2>6
  <2>8. Decided(v[c]) /\ (v[c] = "yes" => w[c] = "yes")
    BY <2>1, <2>5, <2>6, GroupKept
  <2>9. Decided(w[c])
    BY <2>1, <2>5, <2>6, <2>7, GroupKept
  <2> QED
    BY <2>8, <2>9
<1>6. MaxNesting + 1 \in T
  <2> HIDE DEF T
  <2> QED
    BY <1>4, <1>5, SetInduction, RuleEvalAssumption
<1>7. Grows(clause)
  BY <1>1, <1>6, AllShallow
<1> QED
  BY <1>2, <1>7

(***************************************************************************)
(* The batch.  Of the processes with one guid the latest is indexed, and   *)
(* there is exactly one such.                                              *)
(***************************************************************************)
LEMMA GreatestExists ==
  ASSUME NEW n \in Nat, NEW S, S \subseteq 1..n, S # {}
  PROVE  \E m \in S : \A j \in S : j <= m
<1> DEFINE Bounded(k) == \A U \in SUBSET (1..k) : U # {} => \E m \in U : \A j \in U : j <= m
           T == {k \in Nat : Bounded(k)}
<1>1. 0 \in T
  <2>1. \A U \in SUBSET (1..0) : U = {}
    OBVIOUS
  <2> QED
    BY <2>1, Zenon
<1>2. ASSUME NEW k \in Nat, k \in T PROVE k + 1 \in T
  <2> SUFFICES ASSUME NEW U \in SUBSET (1..(k + 1)), U # {}
               PROVE  \E m \in U : \A j \in U : j <= m
    OBVIOUS
  <2>1. CASE k + 1 \in U
    BY <2>1
  <2>2. CASE k + 1 \notin U
    <3>1. U \in SUBSET (1..k)
      BY <2>2
    <3> QED
      BY <1>2, <3>1
  <2> QED
    BY <2>1, <2>2
<1>3. n \in T
  <2> HIDE DEF T
  <2> QED
    BY <1>1, <1>2, SetInduction
<1> QED
  BY <1>3

LEMMA LatestIsOne ==
  ASSUME NEW es \in Seq(EvidencePool), NEW i \in Started(es)
  PROVE  \E m \in Started(es) : es[m].guid = es[i].guid /\ LatestOf(es, es[i].guid) = {m}
<1>1. PICK S : S = {k \in Started(es) : es[k].guid = es[i].guid}
  OBVIOUS
<1>2. S \subseteq 1..Len(es) /\ S # {} /\ Len(es) \in Nat
  BY <1>1 DEF Started
<1>3. PICK m \in S : \A j \in S : j <= m
  BY <1>2, GreatestExists
<1>4. \A k \in S : (\A j \in S : j <= k) => k = m
  BY <1>2, <1>3
<1>5. LatestOf(es, es[i].guid) = {k \in S : \A j \in S : j <= k}
  BY <1>1 DEF LatestOf
<1>6. LatestOf(es, es[i].guid) = {m}
  BY <1>3, <1>4, <1>5
<1> QED
  BY <1>1, <1>6

LEMMA IndexedIs ==
  ASSUME NEW es, NEW g, NEW m \in Started(es), es[m].guid = g, LatestOf(es, g) = {m}
  PROVE  g \in DOMAIN Processes(es) /\ Processes(es)[g] = es[m]
<1>1. DOMAIN Processes(es) = {es[i].guid : i \in Started(es)}
  BY DEF Processes
<1>2. g \in DOMAIN Processes(es)
  BY <1>1
<1>3. (CHOOSE i \in LatestOf(es, g) : TRUE) = m
  OBVIOUS
<1>4. Processes(es)[g] = es[CHOOSE i \in LatestOf(es, g) : TRUE]
  BY <1>1, <1>2, Zenon DEF Processes
<1> QED
  BY <1>2, <1>3, <1>4

LEMMA GuidOfOne ==
  ASSUME NEW e, e.kind = "process"
  PROVE  e.guid \in Guids(<<e>>)
  BY DEF Guids

LEMMA GuidsOf ==
  ASSUME NEW es, NEW i \in Started(es)
  PROVE  es[i].guid \in Guids(es)
  BY DEF Guids, Started

(* One event more, whose guid is new: the batch has more in it.            *)
LEMMA BatchGrows ==
  ASSUME NEW es \in Seq(EvidencePool), NEW e \in EvidencePool,
         Guids(<<e>>) \intersect Guids(es) = {}
  PROVE  Within(BuildBatch(es), BuildBatch(Append(es, e)))
<1>1. PICK n \in Nat : n = Len(es) /\ DOMAIN es = 1..n
  OBVIOUS
<1>2. PICK fs : fs = Append(es, e)
  OBVIOUS
<1>3. /\ fs \in Seq(EvidencePool) /\ DOMAIN fs = 1..(n + 1) /\ fs[n + 1] = e
      /\ \A i \in 1..n : fs[i] = es[i]
  BY <1>1, <1>2
<1>4. \A kind : OfKind(kind, es) \subseteq OfKind(kind, fs)
  BY <1>1, <1>3 DEF OfKind
<1>5. ASSUME NEW g \in DOMAIN Processes(es)
      PROVE  g \in DOMAIN Processes(fs) /\ Processes(fs)[g] = Processes(es)[g]
  <2>1. PICK i \in Started(es) : g = es[i].guid
    BY <1>5 DEF Processes
  <2>2. PICK m \in Started(es) : es[m].guid = g /\ LatestOf(es, g) = {m}
    BY <2>1, LatestIsOne
  <2>3. \A k \in 1..n : k \in Started(fs) <=> k \in Started(es)
    BY <1>1, <1>3 DEF Started
  <2>4. ~(n + 1 \in Started(fs) /\ fs[n + 1].guid = g)
    <3> SUFFICES ASSUME n + 1 \in Started(fs), e.guid = g PROVE FALSE
      BY <1>3
    <3>1. e.kind = "process"
      BY <1>3 DEF Started
    <3>2. e.guid \in Guids(<<e>>)
      BY <3>1, GuidOfOne
    <3>3. g \in Guids(es)
      BY <2>1, GuidsOf
    <3> QED
      BY <3>2, <3>3
  <2>5. \A k : (k \in Started(fs) /\ fs[k].guid = g) <=> (k \in Started(es) /\ es[k].guid = g)
    <3>1. \A k \in Started(fs) : k \in 1..n \/ k = n + 1
      BY <1>3 DEF Started
    <3>2. \A k \in Started(es) : k \in 1..n
      BY <1>1 DEF Started
    <3> QED
      BY <1>3, <2>3, <2>4, <3>1, <3>2
  <2>6. LatestOf(fs, g) = LatestOf(es, g)
    BY <2>5 DEF LatestOf
  <2>7. m \in Started(fs) /\ fs[m].guid = g /\ fs[m] = es[m]
    BY <1>1, <1>3, <2>2, <2>3 DEF Started
  <2> QED
    BY <2>2, <2>6, <2>7, IndexedIs
<1> QED
  BY <1>2, <1>4, <1>5 DEF Within, BuildBatch

(***************************************************************************)
(* Two neighbours exchanged.                                               *)
(***************************************************************************)
Exchanged(i, j) == IF j = i THEN i + 1 ELSE IF j = i + 1 THEN i ELSE j

LEMMA SwappedIs ==
  ASSUME NEW es \in Seq(EvidencePool), NEW i \in 1..(Len(es) - 1)
  PROVE  /\ Swapped(es, i) \in Seq(EvidencePool) /\ Len(Swapped(es, i)) = Len(es)
         /\ \A j \in 1..Len(es) :
               /\ Exchanged(i, j) \in 1..Len(es) /\ Exchanged(i, Exchanged(i, j)) = j
               /\ Swapped(es, i)[Exchanged(i, j)] = es[j]
               /\ Swapped(es, i)[j] = es[Exchanged(i, j)]
<1>1. PICK n \in Nat : n = Len(es)
  OBVIOUS
<1>2. i \in 1..n /\ i + 1 \in 1..n /\ i # i + 1 /\ DOMAIN es = 1..n
  BY <1>1
<1>3. PICK fs : fs = Swapped(es, i)
  OBVIOUS
<1>4. /\ fs \in [1..n -> EvidencePool] /\ fs[i] = es[i + 1] /\ fs[i + 1] = es[i]
      /\ \A j \in 1..n : j # i /\ j # i + 1 => fs[j] = es[j]
  BY <1>2, <1>3 DEF Swapped
<1>5. fs \in Seq(EvidencePool) /\ Len(fs) = n
  BY <1>4
<1>6. ASSUME NEW j \in 1..n
      PROVE  /\ Exchanged(i, j) \in 1..n /\ Exchanged(i, Exchanged(i, j)) = j
             /\ fs[Exchanged(i, j)] = es[j] /\ fs[j] = es[Exchanged(i, j)]
  BY <1>2, <1>4 DEF Exchanged
<1> QED
  BY <1>1, <1>3, <1>5, <1>6

LEMMA LatestExchanged ==
  ASSUME NEW es \in Seq(EvidencePool), NEW i \in 1..(Len(es) - 1),
         Guids(<<es[i]>>) \intersect Guids(<<es[i + 1]>>) = {},
         NEW k \in Started(es)
  PROVE  /\ es[k].guid \in DOMAIN Processes(Swapped(es, i))
         /\ Processes(Swapped(es, i))[es[k].guid] = Processes(es)[es[k].guid]
<1>1. PICK n \in Nat : n = Len(es)
  OBVIOUS
<1>2. PICK fs : fs = Swapped(es, i)
  OBVIOUS
<1>3. /\ fs \in Seq(EvidencePool) /\ DOMAIN fs = 1..n /\ DOMAIN es = 1..n
      /\ \A j \in 1..n : /\ Exchanged(i, j) \in 1..n /\ Exchanged(i, Exchanged(i, j)) = j
                         /\ fs[Exchanged(i, j)] = es[j] /\ fs[j] = es[Exchanged(i, j)]
  <2>1. /\ fs \in Seq(EvidencePool) /\ Len(fs) = n
        /\ \A j \in 1..n : /\ Exchanged(i, j) \in 1..n /\ Exchanged(i, Exchanged(i, j)) = j
                           /\ fs[Exchanged(i, j)] = es[j] /\ fs[j] = es[Exchanged(i, j)]
    BY <1>1, <1>2, SwappedIs, Zenon
  <2> QED
    BY <1>1, <2>1
<1>4. PICK g : g = es[k].guid
  OBVIOUS
<1>5. PICK m \in Started(es) : es[m].guid = g /\ LatestOf(es, g) = {m}
  BY <1>4, LatestIsOne
<1>6. \A j \in Started(es) : es[j].guid = g => j <= m
  BY <1>5 DEF LatestOf
<1>7. \A j \in 1..n : j \in Started(fs) <=> Exchanged(i, j) \in Started(es)
  BY <1>3 DEF Started
<1>8. m \in 1..n /\ Started(fs) \subseteq 1..n /\ i \in Nat
  BY <1>1, <1>3, <1>5 DEF Started
<1>9. Exchanged(i, m) \in Started(fs) /\ fs[Exchanged(i, m)].guid = g /\ fs[Exchanged(i, m)] = es[m]
  BY <1>3, <1>5, <1>7, <1>8
<1>10. ~(i \in Started(es) /\ i + 1 \in Started(es) /\ es[i].guid = g /\ es[i + 1].guid = g)
  <2> SUFFICES ASSUME i \in Started(es), i + 1 \in Started(es), es[i].guid = g, es[i + 1].guid = g
               PROVE  FALSE
    OBVIOUS
  <2>1. es[i].kind = "process" /\ es[i + 1].kind = "process"
    BY DEF Started
  <2>2. es[i].guid \in Guids(<<es[i]>>) /\ es[i + 1].guid \in Guids(<<es[i + 1]>>)
    BY <2>1, GuidOfOne
  <2> QED
    BY <2>2
<1>11. ASSUME NEW j \in Started(fs), fs[j].guid = g PROVE j <= Exchanged(i, m)
  <2>1. j \in 1..n /\ Exchanged(i, j) \in Started(es) /\ es[Exchanged(i, j)].guid = g
    BY <1>3, <1>7, <1>8, <1>11
  <2>2. Exchanged(i, j) <= m
    BY <1>6, <2>1
  <2>3. ~(j = i + 1 /\ m = i + 1)
    BY <1>5, <1>8, <1>10, <2>1 DEF Exchanged
  <2> QED
    BY <1>8, <2>1, <2>2, <2>3 DEF Exchanged
<1>12. LatestOf(fs, g) = {Exchanged(i, m)}
  <2>1. Exchanged(i, m) \in LatestOf(fs, g)
    BY <1>9, <1>11 DEF LatestOf
  <2>2. ASSUME NEW j \in LatestOf(fs, g) PROVE j = Exchanged(i, m)
    <3>1. j \in Started(fs) /\ fs[j].guid = g /\ Exchanged(i, m) <= j
      BY <1>9 DEF LatestOf
    <3>2. j <= Exchanged(i, m)
      BY <1>11, <3>1
    <3>3. j \in Nat /\ Exchanged(i, m) \in Nat
      BY <1>3, <1>8, <3>1
    <3> QED
      BY <3>1, <3>2, <3>3
  <2> QED
    BY <2>1, <2>2
<1>13. g \in DOMAIN Processes(fs) /\ Processes(fs)[g] = es[m]
  BY <1>9, <1>12, IndexedIs
<1>14. Processes(es)[g] = es[m]
  BY <1>5, IndexedIs
<1> QED
  BY <1>2, <1>4, <1>13, <1>14

LEMMA BatchKept ==
  ASSUME NEW es \in Seq(EvidencePool), NEW i \in 1..(Len(es) - 1),
         Guids(<<es[i]>>) \intersect Guids(<<es[i + 1]>>) = {}
  PROVE  BuildBatch(Swapped(es, i)) = BuildBatch(es)
<1>1. PICK n \in Nat : n = Len(es)
  OBVIOUS
<1>2. PICK fs : fs = Swapped(es, i)
  OBVIOUS
<1>3. /\ fs \in Seq(EvidencePool) /\ DOMAIN fs = 1..n /\ DOMAIN es = 1..n
      /\ \A j \in 1..n : /\ Exchanged(i, j) \in 1..n /\ Exchanged(i, Exchanged(i, j)) = j
                         /\ fs[Exchanged(i, j)] = es[j] /\ fs[j] = es[Exchanged(i, j)]
  <2>1. /\ fs \in Seq(EvidencePool) /\ Len(fs) = n
        /\ \A j \in 1..n : /\ Exchanged(i, j) \in 1..n /\ Exchanged(i, Exchanged(i, j)) = j
                           /\ fs[Exchanged(i, j)] = es[j] /\ fs[j] = es[Exchanged(i, j)]
    BY <1>1, <1>2, SwappedIs, Zenon
  <2> QED
    BY <1>1, <2>1
<1>4. ASSUME NEW kind PROVE OfKind(kind, fs) = OfKind(kind, es)
  <2>1. OfKind(kind, fs) \subseteq OfKind(kind, es)
    BY <1>3 DEF OfKind
  <2>2. OfKind(kind, es) \subseteq OfKind(kind, fs)
    BY <1>3 DEF OfKind
  <2> QED
    BY <2>1, <2>2
<1>5. /\ DOMAIN Processes(es) = {es[k].guid : k \in Started(es)}
      /\ DOMAIN Processes(fs) = {fs[k].guid : k \in Started(fs)}
  BY DEF Processes
<1>6. \A k \in Started(fs) : Exchanged(i, k) \in Started(es) /\ es[Exchanged(i, k)].guid = fs[k].guid
  BY <1>3 DEF Started
<1>7. \A g \in DOMAIN Processes(es) : g \in DOMAIN Processes(fs) /\ Processes(fs)[g] = Processes(es)[g]
  BY <1>2, <1>5, LatestExchanged
<1>8. DOMAIN Processes(fs) = DOMAIN Processes(es)
  BY <1>5, <1>6, <1>7
<1>9. \A hs : Processes(hs) = [g \in DOMAIN Processes(hs) |-> Processes(hs)[g]]
  BY DEF Processes
<1>10. Processes(fs) = Processes(es)
  BY <1>7, <1>8, <1>9
<1> QED
  BY <1>2, <1>4, <1>10 DEF BuildBatch

(* More evidence never takes a match of a rule the schema accepts away,    *)
(* unless it reuses a guid, and the order of the evidence does not matter, *)
(* for every pool of events and every rule of finite nesting.              *)
THEOREM MatchesHold == EvidenceSpec => MatchesSound
<1>1. EvidenceInit => EvidenceTypeOK
  BY RuleEvalAssumption DEF EvidenceInit, EvidenceTypeOK
<1>2. EvidenceTypeOK /\ [EvidenceNext]_evidence => EvidenceTypeOK'
  <2> SUFFICES ASSUME EvidenceTypeOK, [EvidenceNext]_evidence PROVE EvidenceTypeOK'
    OBVIOUS
  <2>1. ASSUME NEW e \in EvidencePool, FetchEvent(e) PROVE EvidenceTypeOK'
    BY <2>1, RuleEvalAssumption DEF EvidenceTypeOK, FetchEvent
  <2>2. CASE UNCHANGED evidence
    BY <2>2 DEF EvidenceTypeOK
  <2> QED
    BY <2>1, <2>2 DEF EvidenceNext
<1>3. EvidenceTypeOK => OrderIrrelevant
  BY BatchKept DEF EvidenceTypeOK, OrderIrrelevant, RuleMatches
<1>4. ASSUME EvidenceTypeOK, [EvidenceNext]_evidence, evidence' # evidence, NEW c \in SchemaClauses,
             RuleMatches(evidence)[c] = "yes",
             Guids(<<evidence'[Len(evidence')]>>) \intersect Guids(evidence) = {}
      PROVE  RuleMatches(evidence')[c] = "yes"
  <2>1. PICK e \in EvidencePool : FetchEvent(e)
    BY <1>4 DEF EvidenceNext
  <2>2. evidence \in Seq(EvidencePool) /\ evidence' = Append(evidence, e)
    BY <1>4, <2>1 DEF EvidenceTypeOK, FetchEvent
  <2>3. evidence'[Len(evidence')] = e
    BY <2>2
  <2>4. Within(BuildBatch(evidence), BuildBatch(evidence'))
    BY <1>4, <2>2, <2>3, BatchGrows
  <2> QED
    BY <1>4, <2>4, MatchKept DEF RuleMatches
<1> DEFINE Stays == ( /\ evidence' # evidence
                     /\ Guids(<<evidence'[Len(evidence')]>>) \cap Guids(evidence) = {} ) =>
                       \A c \in SchemaClauses :
                          RuleMatches(evidence)[c] = "yes" => RuleMatches(evidence')[c] = "yes"
<1>5. EvidenceTypeOK /\ [EvidenceNext]_evidence => [Stays]_evidence
  BY <1>4
<1>6. EvidenceSpec => []EvidenceTypeOK
  BY <1>1, <1>2, PTL DEF EvidenceSpec
<1>7. EvidenceSpec => [][Stays]_evidence
  BY <1>5, <1>6, PTL DEF EvidenceSpec
<1> QED
  BY <1>3, <1>6, <1>7, PTL DEF MatchesSound, MatchesPersist
===============================================================================
