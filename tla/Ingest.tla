------------------------------- MODULE Ingest -------------------------------
(***************************************************************************)
(* The ingest service (src/backend/ingest/internal: server/http.go,        *)
(* grpc.go, dedupe.go, visibility_store.go, visibility_store_sqlite.go,    *)
(* visibility_scale.go, nats/publish.go).                                  *)
(*                                                                         *)
(* A request carries a batch of events.  Each event is published on NATS   *)
(* and remembered by a bounded tracker of IDs; the batch is stored only    *)
(* when all of it was published.  The tracker is in memory, the store is   *)
(* either a file of lines with an index of devices beside it, or an SQLite *)
(* database whose transactions cover both.  Requests run concurrently; an  *)
(* operation of the store may fail, and the service may be killed between  *)
(* any two steps.                                                          *)
(***************************************************************************)
EXTENDS Integers, FiniteSets, Sequences, Filtering

CONSTANTS Handlers,    \* requests served at the same time
          EventIds, BadEvents,  \* events; the ones validation rejects
          Anonymous,   \* events without a device_id: no device is counted for them
          Batches,     \* sequences of events a request may carry
          TrackerLimit,\* IDs the duplicate tracker keeps
          MaxLines,    \* size at which the file store rotates
          MaxKills, MaxRequests, MaxStoreFaults \* bounds

ASSUME IngestAssumption ==
    /\ TrackerLimit \in Nat \ {0} /\ MaxLines \in Nat
    /\ {MaxKills, MaxRequests, MaxStoreFaults} \subseteq Nat
    /\ BadEvents \subseteq EventIds /\ Anonymous \subseteq EventIds
    /\ Batches \subseteq Seq(EventIds)

VARIABLES backend,   \* "file" or "sqlite"
          request,   \* what each handler is doing
          requests,  \* number of requests so far
          tracker,   \* duplicateTracker, oldest first
          emitted,   \* how often each event was published
          lines,     \* stored events, oldest first (the current file)
          rotated,   \* events of rotated files
          tail,      \* file store: "whole", "cut" (ends in part of a line) or "spoilt" (a line does not parse)
          shut,      \* file store: the file was closed and could not be opened again
          seenIds,   \* file store: IDs of the current file
          counted,   \* events the device index counts, in memory
          indexed,   \* the same on disk
          indexing,  \* file store: the request between its line and the index
          down,      \* the service did not come up again
          kills, faults,
          glued,     \* history: events written behind a cut line
          muddled,   \* history: a kill, an eviction, a rotation or one event in two requests
          answered   \* events of requests answered "accepted"

fileVars == <<lines, rotated, tail, shut, seenIds, glued>>
ingestVars == <<backend, request, requests, tracker, emitted, fileVars, counted, indexed,
                indexing, down, kills, faults, muddled, answered>>

FreeHandler == [stage |-> "free"]

IngestInit ==
    /\ backend \in {"file", "sqlite"}
    /\ request = [h \in Handlers |-> FreeHandler] /\ requests = 0
    /\ tracker = <<>> /\ emitted = [e \in EventIds |-> 0]
    /\ lines = <<>> /\ rotated = {} /\ tail = "whole" /\ shut = FALSE /\ glued = {}
    /\ seenIds = {} /\ counted = 0 /\ indexed = 0 /\ indexing = {} /\ down = FALSE
    /\ kills = 0 /\ faults = 0 /\ muddled = FALSE /\ answered = {}

(* HasMany: what the store knows of a batch. *)
Known(batch) == IF backend = "file" THEN Elements(batch) \cap seenIds
                ELSE Elements(batch) \cap Elements(lines)

InFlight(e) == \E h \in Handlers : request[h] # FreeHandler /\ e \in Elements(request[h].batch)

(* handleVisibilityEvents up to the loop of ingestVisibilityEvents: events *)
(* the store knows are left out.  A stream of gRPC events is published and *)
(* never stored.                                                           *)
ReceiveBatch(h, batch, kind) ==
    /\ request[h] = FreeHandler /\ requests < MaxRequests /\ indexing = {} /\ ~down
    /\ requests' = requests + 1
    /\ request' = [request EXCEPT ![h] = [stage |-> "publish", kind |-> kind, batch |-> batch,
                       known |-> IF kind = "http" THEN Known(batch) ELSE {}, at |-> 1]]
    /\ muddled' = (muddled \/ \E e \in Elements(batch) : InFlight(e))
    /\ UNCHANGED <<backend, tracker, emitted, fileVars, counted, indexed, indexing, down,
                   kills, faults, answered>>

(* An error ends the request; what was published of the batch stays so. *)
Refused(q) == FreeHandler

(* processEvent as far as the publication: toProtoEvent and the validator  *)
(* reject, the tracker ignores, NATS may refuse; an error ends the request *)
(* and nothing of the batch is stored.                                     *)
ProcessEvent(h) ==
    LET q == request[h]
        e == q.batch[q.at]
        next == [q EXCEPT !.at = @ + 1]
    IN  /\ q # FreeHandler /\ q.stage = "publish" /\ q.at <= Len(q.batch)
        /\ \/ /\ e \in q.known \/ (e \notin BadEvents /\ e \in Elements(tracker))
              /\ request' = [request EXCEPT ![h] = next]
              /\ UNCHANGED emitted
           \/ /\ e \notin q.known \cup BadEvents \cup Elements(tracker)
              /\ request' = [request EXCEPT ![h].stage = "remember"]
              /\ emitted' = [emitted EXCEPT ![e] = @ + 1]
           \/ /\ e \notin q.known /\ (e \in BadEvents \/ e \notin Elements(tracker))
              /\ request' = [request EXCEPT ![h] = Refused(q)]
              /\ UNCHANGED emitted
        /\ UNCHANGED <<backend, requests, tracker, fileVars, counted, indexed, indexing, down,
                       kills, faults, muddled, answered>>

(* duplicateTracker.add: the oldest ID goes when the limit is passed. *)
Remembered(e) ==
    IF e \in Elements(tracker) THEN tracker
    ELSE IF Len(tracker) = TrackerLimit THEN Append(Tail(tracker), e) ELSE Append(tracker, e)

RememberEvent(h) ==
    LET q == request[h]
        e == q.batch[q.at]
    IN  /\ q # FreeHandler /\ q.stage = "remember"
        /\ tracker' = Remembered(e)
        /\ muddled' = (muddled \/ (e \notin Elements(tracker) /\ Len(tracker) = TrackerLimit))
        /\ request' = [request EXCEPT ![h] = [q EXCEPT !.stage = "publish", !.at = @ + 1]]
        /\ UNCHANGED <<backend, requests, emitted, fileVars, counted, indexed, indexing, down,
                       kills, faults, answered>>

PendingUntracked(q) == Kept(q.batch, q.known \cup Elements(tracker))

(* The events of the batch that the store did not know. *)
Pending(q) == Kept(q.batch, q.known)

(* The loop is over: the pending events go to AppendBatch, or there are    *)
(* none and the request is answered.                                       *)
EndLoop(h) ==
    LET q == request[h]
    IN  /\ q # FreeHandler /\ q.stage = "publish" /\ q.at > Len(q.batch)
        /\ IF q.kind = "grpc" \/ Pending(q) = <<>>
           THEN /\ request' = [request EXCEPT ![h] = FreeHandler]
                /\ answered' = IF q.kind = "http" THEN answered \cup Elements(q.batch) ELSE answered
           ELSE /\ request' = [request EXCEPT ![h] = [q EXCEPT !.stage = "append", !.at = 1]]
                /\ UNCHANGED answered
        /\ UNCHANGED <<backend, requests, tracker, emitted, fileVars, counted, indexed,
                       indexing, down, kills, faults, muddled>>

Answer(h, q) ==
    /\ request' = [request EXCEPT ![h] = FreeHandler]
    /\ answered' = answered \cup Elements(q.batch)

(* The store does nothing and returns an error: the caller has gone, a     *)
(* line cannot be encoded or written, the transaction is rolled back.      *)
(* What AppendBatch of the file store wrote before stays.                  *)
AppendFails(h) ==
    LET q == request[h]
    IN  /\ q # FreeHandler /\ q.stage = "append" /\ q.at <= Len(Pending(q)) /\ h \notin indexing
        /\ request' = [request EXCEPT ![h] = Refused(q)]
        /\ UNCHANGED <<backend, requests, tracker, emitted, fileVars, counted, indexed,
                       indexing, down, kills, faults, muddled, answered>>

(* AppendBatch of the SQLite store: INSERT OR IGNORE and the device upsert *)
(* of every event inserted that names one, in one transaction.             *)
AppendBatchSQLite(h) ==
    LET q == request[h]
    IN  /\ backend = "sqlite" /\ q # FreeHandler /\ q.stage = "append"
        /\ lines' = Inserted(lines, Pending(q))
        /\ counted' = counted + Cardinality(Elements(lines') \ (Elements(lines) \cup Anonymous))
        /\ indexed' = counted'
        /\ request' = [request EXCEPT ![h] = [q EXCEPT !.stage = "prune", !.at = Len(Pending(q)) + 1]]
        /\ UNCHANGED <<backend, requests, tracker, emitted, rotated, tail, shut, seenIds, glued,
                       indexing, down, kills, faults, muddled, answered>>

(* maybePrune, after the commit: rows whose received_at_ms, which a client *)
(* may send, is old are deleted, and the device index keeps counting them; *)
(* or it fails, and so does the request.                                   *)
PruneOldest(h) ==
    LET q == request[h]
    IN  /\ backend = "sqlite" /\ q # FreeHandler /\ q.stage = "prune"
        /\ \/ /\ \E old \in SUBSET Elements(lines) :
                    /\ lines' = Kept(lines, old) /\ rotated' = rotated \cup old
                    /\ muddled' = (muddled \/ old # {})
              /\ Answer(h, q)
           \/ /\ request' = [request EXCEPT ![h] = Refused(q)]
              /\ UNCHANGED <<lines, rotated, muddled, answered>>
        /\ UNCHANGED <<backend, requests, tracker, emitted, tail, shut, seenIds, glued, counted,
                       indexed, indexing, down, kills, faults>>

(* Append of the file store works on one event of the batch, under the     *)
(* mutex.                                                                  *)
Appends(h) ==
    backend = "file" /\ indexing = {} /\ request[h] # FreeHandler /\ request[h].stage = "append"

(* The event is known: nothing is written; or it was the last.             *)
SkipEvent(h) ==
    LET q == request[h]
    IN  /\ Appends(h)
        /\ IF q.at > Len(Pending(q)) THEN Answer(h, q)
           ELSE /\ Pending(q)[q.at] \in seenIds
                /\ request' = [request EXCEPT ![h].at = @ + 1]
                /\ UNCHANGED answered
        /\ UNCHANGED <<backend, requests, tracker, emitted, fileVars, counted, indexed, indexing,
                       down, kills, faults, muddled>>

(* The event is new, and the file is not shut.                             *)
Writes(h) ==
    LET q == request[h]
    IN  Appends(h) /\ q.at <= Len(Pending(q)) /\ Pending(q)[q.at] \notin seenIds /\ ~shut

(* maybeRotateLocked: a full file is rotated and its IDs forgotten; one    *)
(* with a damaged line may be of any size.                                 *)
Turns == {turn \in BOOLEAN : tail = "whole" => (turn <=> Len(lines) >= MaxLines)}
Rotate(turn) ==
    /\ rotated' = IF turn THEN rotated \cup Elements(lines) ELSE rotated
    /\ muddled' = (muddled \/ turn)

(* The line of an event; behind a cut line it cannot be read.              *)
WriteLine(e, turn) ==
    LET glue == tail = "cut" /\ ~turn
    IN  /\ lines' = IF turn THEN <<e>> ELSE IF glue THEN lines ELSE Append(lines, e)
        /\ glued' = IF glue THEN glued \cup {e} ELSE glued
        /\ tail' = IF turn THEN "whole" ELSE IF glue THEN "spoilt" ELSE tail

(* The rest of the call, upsertDeviceRecord in memory included;            *)
(* PersistDevices is its last step.                                        *)
AppendFile(h) ==
    LET e == Pending(request[h])[request[h].at]
    IN  /\ Writes(h)
        /\ \E turn \in Turns :
              /\ Rotate(turn) /\ WriteLine(e, turn)
              /\ seenIds' = (IF turn THEN {} ELSE seenIds) \cup {e}
        /\ counted' = counted + (IF e \in Anonymous THEN 0 ELSE 1) /\ indexing' = {h}
        /\ request' = [request EXCEPT ![h].at = @ + 1]
        /\ UNCHANGED <<backend, requests, tracker, emitted, shut, indexed, down, kills, faults,
                       answered>>

(* An operation of the file store fails and ends the request: the file is  *)
(* closed and not renamed, or renamed and not opened again; the line is    *)
(* written in part; or it is written and not synced, and neither its ID is *)
(* remembered nor its device counted.                                      *)
StoreFault(h) ==
    LET e == Pending(request[h])[request[h].at]
    IN  /\ Writes(h) /\ faults < MaxStoreFaults /\ faults' = faults + 1
        /\ request' = [request EXCEPT ![h] = FreeHandler]
        /\ \/ /\ TRUE \in Turns /\ shut' = TRUE
              /\ UNCHANGED <<lines, rotated, tail, seenIds, glued, muddled>>
           \/ \E turn \in Turns :
                 /\ Rotate(turn) /\ seenIds' = IF turn THEN {} ELSE seenIds
                 /\ \/ /\ turn /\ shut' = TRUE /\ lines' = <<>> /\ tail' = "whole"
                       /\ UNCHANGED glued
                    \/ /\ lines' = (IF turn THEN <<>> ELSE lines) /\ tail' = "cut"
                       /\ UNCHANGED <<shut, glued>>
                    \/ WriteLine(e, turn) /\ UNCHANGED shut
        /\ UNCHANGED <<backend, requests, tracker, emitted, counted, indexed, indexing, down,
                       kills, answered>>

(* persistDevicesIndexLocked writes the whole index, through a rename; or  *)
(* fails, and so does the request.                                         *)
IndexWritten == counted

PersistDevices(h) ==
    /\ indexing = {h} /\ indexing' = {}
    /\ indexed' = IndexWritten
    /\ UNCHANGED <<backend, request, requests, tracker, emitted, fileVars, counted, down, kills,
                   faults, muddled, answered>>

PersistFails(h) ==
    /\ indexing = {h} /\ indexing' = {} /\ request[h].stage = "append"
    /\ faults < MaxStoreFaults /\ faults' = faults + 1
    /\ request' = [request EXCEPT ![h] = FreeHandler]
    /\ UNCHANGED <<backend, requests, tracker, emitted, fileVars, counted, indexed, down, kills,
                   muddled, answered>>

(* The process is killed and started again: requests and tracker are gone; *)
(* the file store reads its IDs from the file and its devices from the     *)
(* index, and the service does not start when a line does not parse.       *)
Kill ==
    /\ kills < MaxKills /\ kills' = kills + 1
    /\ request' = [h \in Handlers |-> FreeHandler] /\ tracker' = <<>>
    /\ seenIds' = IF backend = "file" THEN Elements(lines) ELSE {}
    /\ counted' = indexed /\ indexing' = {} /\ muddled' = TRUE /\ shut' = FALSE
    /\ down' = (tail # "whole")
    /\ UNCHANGED <<backend, requests, emitted, lines, rotated, tail, indexed, faults, glued,
                   answered>>

IngestNext ==
    \/ \E h \in Handlers :
          \/ \E b \in Batches, k \in {"http", "grpc"} : ReceiveBatch(h, b, k)
          \/ ProcessEvent(h) \/ RememberEvent(h) \/ EndLoop(h)
          \/ AppendFails(h) \/ AppendBatchSQLite(h) \/ PruneOldest(h)
          \/ SkipEvent(h) \/ AppendFile(h) \/ StoreFault(h) \/ PersistDevices(h) \/ PersistFails(h)
    \/ Kill

IngestSpec == IngestInit /\ [][IngestNext]_ingestVars

-----------------------------------------------------------------------------
Stored == Elements(lines) \cup rotated
EverWritten == Stored \cup glued

(* Whatever crashes, failures, retries and duplicates there were, an event *)
(* that the store holds was published on events.raw:                       *)
(* ingestVisibilityEvents stores only after every event of the batch was   *)
(* published or is known to have been.                                     *)
StoredWasPublished == \A e \in EverWritten : emitted[e] > 0

(* Every event of a request that was answered "accepted" is in the store   *)
(* or in a rotated or pruned part of it, also when a concurrent request    *)
(* carried it and failed; or its line was written behind one that a failed *)
(* write had cut, and cannot be read.                                      *)
AcceptedIsStored == answered \subseteq EverWritten

(* As long as the service was not killed, the tracker did not overflow,    *)
(* nothing was rotated or pruned and no two requests carried one event at  *)
(* once, an event is published once at most, however often requests or the *)
(* store fail and events are sent again.                                   *)
PublishedOnce == ~muddled => \A e \in EventIds : emitted[e] <= 1

(* The device index on disk counts every stored event that names a device, *)
(* except at most one for every time the service was killed, a sync or a   *)
(* write of the index failed.                                              *)
IndexLags ==
    LET missing == Cardinality(Elements(lines) \ Anonymous) - indexed
    IN  missing <= kills + faults + Cardinality(indexing)

(* What ingest answers holds: accepted events are stored, stored ones were *)
(* published, once if the tracker could know, and the index lags by kills  *)
(* and failures only.                                                      *)
IngestSound ==
    /\ StoredWasPublished
    /\ AcceptedIsStored
    /\ PublishedOnce
    /\ IndexLags
=============================================================================
