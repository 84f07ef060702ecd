-------------------------- MODULE DetectionPipeline --------------------------
(***************************************************************************)
(* The candidate workflow of the detection pipeline: research item ->      *)
(* candidate -> validation -> review -> approved -> signed pack            *)
(* (backend/detection-pipeline/internal/api/server.go over                 *)
(* internal/store/ops.go).                                                 *)
(*                                                                         *)
(* Each HTTP request is a goroutine.  The store's lock covers one map      *)
(* access only: a handler gets the candidate POINTER, tests its status,    *)
(* and assigns to it later without any lock, so every handler below is a   *)
(* test step followed by one step per assignment, and the steps of two     *)
(* handlers interleave.  Every Put ends in Store.persist: the maps are     *)
(* marshalled one after the other, unlocked, and written by the protocol   *)
(* of SnapshotFile.  The persistence path is optional in the code          *)
(* (Persistent).  A crash loses the maps; a restart loads the file.        *)
(*                                                                         *)
(* A request that is refused (400, 404, 409) changes nothing and is not an *)
(* action.  The assignments to one candidate's fields that follow each     *)
(* other without a call in between are one step.                           *)
(***************************************************************************)
EXTENDS Naturals, FiniteSets

CONSTANTS
    Handlers,       \* concurrently served requests
    Research,       \* research item ids
    Cands,          \* candidate ids
    Runs,           \* validation run ids (bounds the number of validations)
    Packs,          \* signed artifact ids (bounds the number of signings)
    Persistent,     \* is a persistence path configured?
    MaxFaults,      \* bound on crashes and failed persists
    Inodes, None, Empty, Torn      \* see SnapshotFile

ASSUME PipelineAssumption ==
    /\ Persistent \in BOOLEAN
    /\ MaxFaults \in Nat
    /\ None \notin Research \union Cands \union Runs \union Packs \union Inodes

VARIABLES
    research,       \* Store.Research
    cand,           \* Store.Candidates
    runs,           \* Store.Validations
    packs,          \* Store.SignedPacks: the candidate each was made from
    h,              \* the handler goroutines
    rd,             \* what a marshal in progress has read so far
    up,             \* is the process running?
    faults,         \* crashes and failed persists so far
    issued,         \* the ids newID has returned
    approvedEver,   \* history: candidates some approve handler has approved
    rejectAcked,    \* history: candidates whose rejection was answered 200
    concurrent,     \* history: has a request come while another was served?
    path, tmp, data, fpc, snap, fd, acked, overlap    \* see SnapshotFile

mem == <<research, cand, runs, packs>>
hist == <<issued, approvedEver, rejectAcked, concurrent>>
file == <<path, tmp, data, fpc, snap, fd, acked, overlap>>
vars == <<mem, h, rd, up, faults, hist, file>>

Statuses == {"draft", "validating", "validation_failed", "ready_for_review",
             "approved", "rejected", "signed"}
Candidate == [status : Statuses, lastRun : Runs \union {None}, pack : Packs \union {None}]
Run == [cand : Cands, success : BOOLEAN]
Snapshot == [research : SUBSET Research,
             cand : [Cands -> Candidate \union {None}],
             runs : [Runs -> Run \union {None}],
             packs : [Packs -> Cands \union {None}]]

NoData == [research |-> {}, cand |-> [c \in Cands |-> None],
           runs |-> [v \in Runs |-> None], packs |-> [p \in Packs |-> None]]

\* nil is no value of the maps; what Load rejects is no snapshot.
ASSUME NilAssumption == None \notin Candidate /\ None \notin Run
ASSUME BytesAssumption == Empty \notin Snapshot /\ Torn \notin Snapshot /\ Empty # Torn

F == INSTANCE SnapshotFile
        WITH Writers <- Handlers, Contents <- Snapshot, pc <- fpc

(***************************************************************************)
(* A handler: the step it is at, the step after the persist it is in, its  *)
(* candidate, the id it has drawn and the outcome of its validation.       *)
(***************************************************************************)
Steps == {"idle", "persist", "readCands", "readRuns", "readPacks", "file",
          "validateStart", "validateRun", "validateFinish",
          "approve", "reject", "ackReject", "sign", "signMark"}
Handler == [at : Steps, next : Steps, cand : Cands \union {None},
            id : Runs \union Packs \union {None}, ok : BOOLEAN]

Idle == [at |-> "idle", next |-> "idle", cand |-> None, id |-> None, ok |-> FALSE]

TypeOK ==
    /\ research \subseteq Research
    /\ cand \in [Cands -> Candidate \union {None}]
    /\ runs \in [Runs -> Run \union {None}]
    /\ packs \in [Packs -> Cands \union {None}]
    /\ h \in [Handlers -> Handler]
    /\ rd \in [Handlers -> Snapshot]
    /\ up \in BOOLEAN
    /\ faults \in 0 .. MaxFaults
    /\ issued \subseteq Research \union Cands \union Runs \union Packs
    /\ approvedEver \subseteq Cands
    /\ rejectAcked \subseteq Cands
    /\ concurrent \in BOOLEAN
    /\ F!TypeOK
    /\ \A r \in Handlers : h[r].at = "file" <=> fpc[r] # "idle"

Init ==
    /\ research = {}
    /\ cand = NoData.cand
    /\ runs = NoData.runs
    /\ packs = NoData.packs
    /\ h = [r \in Handlers |-> Idle]
    /\ rd = [r \in Handlers |-> NoData]
    /\ up = TRUE
    /\ faults = 0
    /\ issued = {}
    /\ approvedEver = {}
    /\ rejectAcked = {}
    /\ concurrent = FALSE
    /\ F!Init

(***************************************************************************)
(* Control of a handler.                                                   *)
(***************************************************************************)
At(r, n) == h[r].at = n

\* The handler goes on at n; "idle" is the end of the request.
Goto(r, n) == h' = [h EXCEPT ![r] = IF n = "idle" THEN Idle ELSE [@ EXCEPT !.at = n]]

\* A request comes and gets the id i, if it needs one.
Arrives(r, i) ==
    /\ up
    /\ At(r, "idle")
    /\ i \notin issued
    /\ issued' = issued \union ({i} \ {None})
    /\ concurrent' = (concurrent \/ \E q \in Handlers : ~At(q, "idle"))

\* It passes its tests and goes on at n, with the candidate c.
Admit(r, n, c, i) ==
    /\ Arrives(r, i)
    /\ h' = [h EXCEPT ![r] = [Idle EXCEPT !.at = n, !.cand = c, !.id = i]]
    /\ UNCHANGED <<mem, rd, up, faults, approvedEver, rejectAcked, file>>

\* A Put has changed a map: it persists, and the handler goes on at n.
Persisting(r, n) ==
    IF Persistent THEN h' = [h EXCEPT ![r].at = "persist", ![r].next = n] ELSE Goto(r, n)

SetStatus(r, s) == cand' = [cand EXCEPT ![h[r].cand].status = s]

(***************************************************************************)
(* handleCreateResearch and handleCreateCandidate: one map insertion each. *)
(* A candidate needs an existing research item (RequireResearch).          *)
(***************************************************************************)
CreateResearch(r, i) ==
    /\ Arrives(r, i)
    /\ research' = research \union {i}
    /\ Persisting(r, "idle")
    /\ UNCHANGED <<cand, runs, packs, rd, up, faults, approvedEver, rejectAcked, file>>

CreateCandidate(r, c) ==
    /\ Arrives(r, c)
    /\ research # {}
    /\ cand' = [cand EXCEPT ![c] = [status |-> "draft", lastRun |-> None, pack |-> None]]
    /\ Persisting(r, "idle")
    /\ UNCHANGED <<research, runs, packs, rd, up, faults, approvedEver, rejectAcked, file>>

(***************************************************************************)
(* handleValidateCandidate: admitted from three states; marks the          *)
(* candidate validating; queries ingest and evaluates the rules, which     *)
(* succeeds or not; records the run; then assigns the final status WITHOUT *)
(* looking at the status again.  Persist errors are ignored.               *)
(***************************************************************************)
ValidateAdmit(r, c, v) ==
    /\ cand[c] # None
    /\ cand[c].status \in {"draft", "validation_failed", "ready_for_review"}
    /\ Admit(r, "validateStart", c, v)

ValidateStart(r) ==
    /\ At(r, "validateStart")
    /\ SetStatus(r, "validating")
    /\ Persisting(r, "validateRun")
    /\ UNCHANGED <<research, runs, packs, rd, up, faults, hist, file>>

ValidateRun(r, success) ==
    /\ At(r, "validateRun")
    /\ runs' = [runs EXCEPT ![h[r].id] = [cand |-> h[r].cand, success |-> success]]
    /\ h' = [h EXCEPT ![r].at = IF Persistent THEN "persist" ELSE "validateFinish",
                      ![r].next = IF Persistent THEN "validateFinish" ELSE @,
                      ![r].ok = success]
    /\ UNCHANGED <<research, cand, packs, rd, up, faults, hist, file>>

\* Mutant: the final status is forgotten.
ValidateFinish_KeepsStatus(r) ==
    /\ At(r, "validateFinish")
    /\ cand' = [cand EXCEPT ![h[r].cand].lastRun = h[r].id]
    /\ Persisting(r, "idle")
    /\ UNCHANGED <<research, runs, packs, rd, up, faults, hist, file>>

ValidateFinish(r) ==
    /\ At(r, "validateFinish")
    /\ cand' = [cand EXCEPT ![h[r].cand].status =
                               IF h[r].ok THEN "ready_for_review" ELSE "validation_failed",
                            ![h[r].cand].lastRun = h[r].id]
    /\ Persisting(r, "idle")
    /\ UNCHANGED <<research, runs, packs, rd, up, faults, hist, file>>

(***************************************************************************)
(* handleApprove, handleReject.  The rejection is answered 200 once its    *)
(* persist has returned nil.                                               *)
(***************************************************************************)
ApproveAdmit(r, c) ==
    /\ cand[c] # None
    /\ cand[c].status = "ready_for_review"
    /\ Admit(r, "approve", c, None)

Approve(r) ==
    /\ At(r, "approve")
    /\ SetStatus(r, "approved")
    /\ approvedEver' = approvedEver \union {h[r].cand}
    /\ Persisting(r, "idle")
    /\ UNCHANGED <<research, runs, packs, rd, up, faults, issued, rejectAcked, concurrent, file>>

\* Mutant: a signed candidate can be rejected too.
RejectAdmit_Any(r, c) ==
    /\ cand[c] # None
    /\ cand[c].status # "rejected"
    /\ Admit(r, "reject", c, None)

RejectAdmit(r, c) ==
    /\ cand[c] # None
    /\ cand[c].status \in {"draft", "validating", "validation_failed",
                           "ready_for_review", "approved"}
    /\ Admit(r, "reject", c, None)

\* Mutant: the answer is sent before the store is persisted.
Reject_AckFirst(r) ==
    /\ At(r, "reject")
    /\ SetStatus(r, "rejected")
    /\ rejectAcked' = rejectAcked \union {h[r].cand}
    /\ Persisting(r, "idle")
    /\ UNCHANGED <<research, runs, packs, rd, up, faults, issued, approvedEver, concurrent, file>>

Reject(r) ==
    /\ At(r, "reject")
    /\ SetStatus(r, "rejected")
    /\ Persisting(r, "ackReject")
    /\ UNCHANGED <<research, runs, packs, rd, up, faults, hist, file>>

AckReject(r) ==
    /\ At(r, "ackReject")
    /\ rejectAcked' = rejectAcked \union {h[r].cand}
    /\ Goto(r, "idle")
    /\ UNCHANGED <<mem, rd, up, faults, issued, approvedEver, concurrent, file>>

(***************************************************************************)
(* handleSign: assembles, signs and validates the pack, which may fail;    *)
(* stores the signed artifact; then marks the candidate.  An error of the  *)
(* first persist returns between the two.                                  *)
(***************************************************************************)
SignAdmit(r, c, p) ==
    /\ cand[c] # None
    /\ cand[c].status = "approved"
    /\ Admit(r, "sign", c, p)

SignFails(r) ==
    /\ At(r, "sign")
    /\ Goto(r, "idle")
    /\ UNCHANGED <<mem, rd, up, faults, hist, file>>

Sign(r) ==
    /\ At(r, "sign")
    /\ packs' = [packs EXCEPT ![h[r].id] = h[r].cand]
    /\ Persisting(r, "signMark")
    /\ UNCHANGED <<research, cand, runs, rd, up, faults, hist, file>>

SignMark(r) ==
    /\ At(r, "signMark")
    /\ cand' = [cand EXCEPT ![h[r].cand].status = "signed", ![h[r].cand].pack = h[r].id]
    /\ Persisting(r, "idle")
    /\ UNCHANGED <<research, runs, packs, rd, up, faults, hist, file>>

(***************************************************************************)
(* Store.persist: the maps are marshalled in the order of the snapshot     *)
(* struct while other handlers go on changing them; the bytes then go      *)
(* through the steps of SnapshotFile.                                      *)
(***************************************************************************)
MarshalStep(r, from, to, read) ==
    /\ At(r, from)
    /\ rd' = [rd EXCEPT ![r] = read]
    /\ Goto(r, to)
    /\ UNCHANGED <<mem, up, faults, hist, file>>

MarshalResearch(r) ==
    MarshalStep(r, "persist", "readCands", [NoData EXCEPT !.research = research])

MarshalCands(r) ==
    MarshalStep(r, "readCands", "readRuns", [rd[r] EXCEPT !.cand = cand])

MarshalRuns(r) ==
    MarshalStep(r, "readRuns", "readPacks", [rd[r] EXCEPT !.runs = runs])

\* Mutant: the struct lists the candidates last.
MarshalPacks_CandsLast(r) ==
    /\ At(r, "readPacks")
    /\ F!Marshal(r, [rd[r] EXCEPT !.packs = packs, !.cand = cand])
    /\ rd' = [rd EXCEPT ![r] = NoData]
    /\ Goto(r, "file")
    /\ UNCHANGED <<mem, up, faults, hist>>

MarshalPacks(r) ==
    /\ At(r, "readPacks")
    /\ F!Marshal(r, [rd[r] EXCEPT !.packs = packs])
    /\ rd' = [rd EXCEPT ![r] = NoData]
    /\ Goto(r, "file")
    /\ UNCHANGED <<mem, up, faults, hist>>

PersistOpen(r) ==
    /\ At(r, "file")
    /\ F!OpenTmp(r)
    /\ UNCHANGED <<mem, h, rd, up, faults, hist>>

PersistWrite(r) ==
    /\ At(r, "file")
    /\ F!WriteTmp(r)
    /\ UNCHANGED <<mem, h, rd, up, faults, hist>>

\* After an error sign and reject answer 500 at once; the others have nothing
\* left to do, or ignore it.
OnError(r) == IF h[r].next \in {"signMark", "ackReject"} THEN "idle" ELSE h[r].next

PersistRename(r) ==
    /\ At(r, "file")
    /\ F!Rename(r)
    /\ Goto(r, IF tmp # None THEN h[r].next ELSE OnError(r))
    /\ UNCHANGED <<mem, rd, up, faults, hist>>

PersistWriteFails(r) ==
    /\ At(r, "file")
    /\ faults < MaxFaults
    /\ faults' = faults + 1
    /\ F!WriteFails(r)
    /\ Goto(r, OnError(r))
    /\ UNCHANGED <<mem, rd, up, hist>>

\* MkdirAll fails: nothing has been marshalled or written.
PersistMkdirFails(r) ==
    /\ At(r, "persist")
    /\ faults < MaxFaults
    /\ faults' = faults + 1
    /\ Goto(r, OnError(r))
    /\ UNCHANGED <<mem, rd, up, hist, file>>

(***************************************************************************)
(* The process dies (a panic, a kill, the runtime's abort on a concurrent  *)
(* map access) and is started again: Store.Load, whose error ends main.    *)
(***************************************************************************)
Crash ==
    /\ up
    /\ faults < MaxFaults
    /\ faults' = faults + 1
    /\ up' = FALSE
    /\ research' = {}
    /\ cand' = NoData.cand
    /\ runs' = NoData.runs
    /\ packs' = NoData.packs
    /\ h' = [r \in Handlers |-> Idle]
    /\ rd' = [r \in Handlers |-> NoData]
    /\ F!Crash
    /\ UNCHANGED hist

Loaded == IF path = None THEN NoData ELSE data[path]

Restart ==
    /\ ~up
    /\ Loaded \in Snapshot
    /\ up' = TRUE
    /\ research' = Loaded.research
    /\ cand' = Loaded.cand
    /\ runs' = Loaded.runs
    /\ packs' = Loaded.packs
    /\ UNCHANGED <<h, rd, faults, hist, file>>

(***************************************************************************)
(* The steps a running handler takes by itself, faults excepted.           *)
(***************************************************************************)
Proceed(r) ==
    \/ ValidateStart(r)
    \/ \E success \in BOOLEAN : ValidateRun(r, success)
    \/ ValidateFinish(r)
    \/ Approve(r)
    \/ Reject(r)
    \/ AckReject(r)
    \/ Sign(r)
    \/ SignFails(r)
    \/ SignMark(r)
    \/ MarshalResearch(r)
    \/ MarshalCands(r)
    \/ MarshalRuns(r)
    \/ MarshalPacks(r)
    \/ PersistOpen(r)
    \/ PersistWrite(r)
    \/ PersistRename(r)

Request(r) ==
    \/ \E i \in Research : CreateResearch(r, i)
    \/ \E c \in Cands :
          \/ CreateCandidate(r, c)
          \/ \E v \in Runs : ValidateAdmit(r, c, v)
          \/ ApproveAdmit(r, c)
          \/ RejectAdmit(r, c)
          \/ \E p \in Packs : SignAdmit(r, c, p)

Fault(r) == PersistWriteFails(r) \/ PersistMkdirFails(r)

Next ==
    \/ \E r \in Handlers : Request(r) \/ Proceed(r) \/ Fault(r)
    \/ Crash
    \/ Restart

Spec == Init /\ [][Next]_vars

(***************************************************************************)
(* A goroutine that can run does run, the ingest query ends (its client    *)
(* has a 30 s timeout), and a dead process is started again.               *)
(***************************************************************************)
Fairness == WF_vars(Restart) /\ \A r \in Handlers : WF_vars(Proceed(r))
FairSpec == Spec /\ Fairness
-----------------------------------------------------------------------------
(***************************************************************************)
(* The references between the maps: a candidate's last run and its signed  *)
(* pack exist and are of that candidate, and a candidate that has got past *)
(* validation has a successful run.                                        *)
(***************************************************************************)
RefsOK(s) ==
    \A c \in Cands : s.cand[c] # None =>
       /\ s.cand[c].lastRun # None =>
             s.runs[s.cand[c].lastRun] # None /\ s.runs[s.cand[c].lastRun].cand = c
       /\ s.cand[c].pack # None => s.packs[s.cand[c].pack] = c

Reviewed(s) ==
    \A c \in Cands :
       s.cand[c] # None /\ s.cand[c].status \in {"ready_for_review", "approved", "signed"} =>
          \E v \in Runs : s.runs[v] # None /\ s.runs[v].cand = c /\ s.runs[v].success

Memory == [research |-> research, cand |-> cand, runs |-> runs, packs |-> packs]

(***************************************************************************)
(* In memory no candidate refers to a run or a signed pack that is not     *)
(* there, however handlers interleave, fail, crash and restart             *)
(* (handleGetSignedPack, server.go:644, answers 404 otherwise).            *)
(***************************************************************************)
RefsInMemory == RefsOK(Memory)

(***************************************************************************)
(* The same of the state file, when it is a snapshot at all: its maps are  *)
(* read one after the other while handlers change them, and only their     *)
(* order (store.go:77-83) keeps the references whole.                      *)
(***************************************************************************)
RefsOnDisk == path # None /\ data[path] \in Snapshot => RefsOK(data[path])

(***************************************************************************)
(* A candidate is up for review, approved or signed only when some run of  *)
(* it has succeeded, in memory and in the state file.                      *)
(***************************************************************************)
ReviewedAfterSuccess ==
    /\ Reviewed(Memory)
    /\ path # None /\ data[path] \in Snapshot => Reviewed(data[path])

(***************************************************************************)
(* Every signed pack, and so every pack the rollout controller can serve,  *)
(* comes from a candidate a reviewer has approved at some time.            *)
(***************************************************************************)
PacksApproved == \A p \in Packs : packs[p] # None => packs[p] \in approvedEver

(***************************************************************************)
(* As long as requests come one at a time, a rejection answered 200 holds  *)
(* for good: through later requests, failed persists, crashes and          *)
(* restarts.  Without a persistence path a crash forgets everything, so    *)
(* there it holds until the first crash.                                   *)
(***************************************************************************)
AckedRejectionFinal ==
    up /\ ~concurrent /\ (Persistent \/ faults = 0) =>
       \A c \in rejectAcked : cand[c] # None /\ cand[c].status = "rejected"

(***************************************************************************)
(* As long as requests come one at a time, handleSign takes a candidate    *)
(* from approved to signed and from no other state (README.md:28).         *)
(***************************************************************************)
SignFromApproved ==
    [][\A c \in Cands :
          ( /\ ~concurrent
            /\ cand[c] # None /\ cand'[c] # None /\ cand[c] # cand'[c]
            /\ cand'[c].status = "signed" )
             => cand[c].status = "approved"]_vars

(***************************************************************************)
(* As long as requests come one at a time and no persist fails, no pack of *)
(* a rejected candidate is in the set the controller serves from.          *)
(***************************************************************************)
RejectedNotServed ==
    ~concurrent /\ faults = 0 =>
       \A c \in Cands : cand[c] # None /\ cand[c].status = "rejected" =>
          \A p \in Packs : packs[p] # c

(***************************************************************************)
(* A candidate does not stay in "validating" for ever: the handler that    *)
(* put it there takes it out, whatever runs beside it (README.md:24), as   *)
(* long as nothing fails.                                                  *)
(***************************************************************************)
ValidationConcludes ==
    \A c \in Cands :
       <>[](cand[c] # None /\ cand[c].status = "validating") => <>(faults > 0)

(* References are whole, in memory and in the file, at every step of every *)
(* handler.                                                                *)
RefsSound ==
    /\ TypeOK
    /\ RefsInMemory
    /\ RefsOnDisk

(* The review is in force: only what a validation passed is reviewed, only *)
(* what was approved becomes a pack, and an acknowledged rejection stays.  *)
ReviewSound ==
    /\ ReviewedAfterSuccess
    /\ PacksApproved
    /\ AckedRejectionFinal

(* Signing and rejecting exclude each other as long as requests come one   *)
(* at a time: no pack of a rejected candidate, no signature on one that is *)
(* not approved.                                                           *)
SigningSound ==
    /\ [](TypeOK /\ RejectedNotServed)
    /\ SignFromApproved
=============================================================================
