---------------------------- MODULE PlatformDrafts ----------------------------
(***************************************************************************)
(* The actions-api observe-only draft controls: created from a finding with*)
(* defaults, simulated against a device, edited, and every change recorded *)
(* in a bounded decision history with before and after snapshots.          *)
(***************************************************************************)
EXTENDS PlatformState, FiniteSets

CONSTANTS DraftIds,        \* ids a client may choose; two drafts may share one
          DraftStatuses,   \* statuses a client sends
          Scopes,          \* scope selectors, blast radius and rollback fields, as one value
          SentParts,       \* what else the body of a new draft may carry
          SimDevices,      \* devices a simulation may name
          HistoryCap, SimulationCap,       \* 50 and 20 in the code
          MaxDrafts,       \* bound: drafts
          DefaultScope,    \* the defaults filled in when the client sends none
          NoMatches        \* ExpectedMatches is nil until a simulation or the client sets it

VARIABLES drafts           \* PlatformData.Drafts

draftVars == <<opEvents, drafts>>

(* An empty text: a field that is empty, or that a request leaves alone.   *)
Unsent == ""

(* A decision-history entry; own marks those the server made itself.       *)
Statuses == DraftStatuses \cup {Unsent, "draft_observe_only"}
Snap == [status : Statuses, scope : Scopes \cup {Unsent, DefaultScope}, notes : {Unsent, "note"},
         matches : SimDevices \cup {NoMatches, "client"}]
SnapshotKeys == {"status", "scope", "notes", "matches"}
HistoryActions == {"created", "simulated", "status_changed", "scope_edited", "note_added", "updated"}
HistoryEntry ==
    [action : HistoryActions, keys : SUBSET SnapshotKeys, before : Snap \cup {Unsent},
     after : Snap \cup {Unsent}, own : BOOLEAN]

ASSUME PlatformDraftsAssumption ==
    /\ {HistoryCap, SimulationCap} \subseteq Nat \ {0}
    /\ MaxDrafts \in Nat
    /\ \A p \in SentParts :
          /\ p.notes \in {Unsent, "note"} /\ p.matches \in {NoMatches, "client"}
          /\ p.sims \in Seq(SimDevices) /\ p.history \in Seq(HistoryEntry)
          /\ \A k \in DOMAIN p.history : ~p.history[k].own

(* simulateMatches: a hash of the device and the draft's id; within one    *)
(* draft it is told apart by the device.                                   *)
MatchCount(device) == device

(* snapshotDraft: a copy of the editable fields.                           *)
Snapshot(d) == [status |-> d.status, scope |-> d.scope, notes |-> d.notes, matches |-> d.matches]

(* diffSnapshotKeys *)
ChangedKeys(before, after) == {k \in SnapshotKeys : before[k] # after[k]}

(* decideHistoryAction *)
HistoryAction(keys) ==
    CASE "status" \in keys -> "status_changed"
      [] "status" \notin keys /\ "scope" \in keys -> "scope_edited"
      [] keys \cap {"status", "scope"} = {} /\ "notes" \in keys -> "note_added"
      [] OTHER -> "updated"

DraftInit == opEvents = << >> /\ drafts = << >>

FirstDraft(id) == LET at == {i \in DOMAIN drafts : drafts[i].id = id}
                  IN  {i \in at : \A j \in at : i <= j}

(* appendDraftHistory over the draft as it is after the change.            *)
Recorded(d, action, before) ==
    [d EXCEPT !.history = Pushed(@, [action |-> action, keys |-> ChangedKeys(before, Snapshot(d)),
                                     before |-> before, after |-> Snapshot(d), own |-> TRUE],
                                 HistoryCap)]
-----------------------------------------------------------------------------
(* POST: the body is the whole draft, with any history and simulations the *)
(* client sends; the defaults are filled in, then the created entry is     *)
(* recorded after that history; it has no before snapshot.                 *)
CreateDraft(id, status, scope, sent) ==
    /\ Len(drafts) < MaxDrafts
    /\ LET d == [id |-> id, notes |-> sent.notes, matches |-> sent.matches, sims |-> sent.sims,
                 history |-> sent.history, simulated |-> FALSE,
                 status |-> IF status = Unsent THEN "draft_observe_only" ELSE status,
                 scope |-> IF scope = Unsent THEN DefaultScope ELSE scope]
           created == [action |-> "created", keys |-> {"status", "scope"}, before |-> Unsent,
                       after |-> Snapshot(d), own |-> TRUE]
       IN  /\ drafts' = Append(drafts, [d EXCEPT !.history = Pushed(@, created, HistoryCap)])
           /\ AppendOp("draft_control.created", d.status, id)

(* simulateDraft; simulated remembers that it ran.                         *)
WithSimulation(d, device) ==
    [d EXCEPT !.matches = MatchCount(device), !.simulated = TRUE,
              !.sims = Pushed(@, MatchCount(device), SimulationCap)]
SimulatedLateBefore(d, device) ==
    Recorded(WithSimulation(d, device), "simulated", Snapshot(WithSimulation(d, device)))
SimulatedDraft(d, device) ==
    Recorded(WithSimulation(d, device), "simulated", Snapshot(d))

SimulateDraft(id, device) ==
    /\ \E i \in FirstDraft(id) : drafts' = [drafts EXCEPT ![i] = SimulatedDraft(@, device)]
    /\ AppendOp("draft_control.simulated", "observe_only", id)

(* patchDraft: every field the body carries, any status to any status.     *)
PatchedDraft(d, status, scope, notes) ==
    LET e == [d EXCEPT !.status = IF status = Unsent THEN @ ELSE status,
                       !.scope = IF scope = Unsent THEN @ ELSE scope, !.notes = notes]
    IN  Recorded(e, HistoryAction(ChangedKeys(Snapshot(d), Snapshot(e))), Snapshot(d))

PatchDraft(id, status, scope, notes) ==
    \E i \in FirstDraft(id) :
        /\ drafts' = [drafts EXCEPT ![i] = PatchedDraft(@, status, scope, notes)]
        /\ LET h == drafts'[i].history
           IN  AppendOp("draft_control." \o h[Len(h)].action, drafts'[i].status, id)

DraftNext ==
    \/ \E id \in DraftIds, status \in DraftStatuses \cup {Unsent}, scope \in Scopes \cup {Unsent} :
          \E sent \in SentParts : CreateDraft(id, status, scope, sent)
    \/ \E id \in DraftIds, device \in SimDevices : SimulateDraft(id, device)
    \/ \E id \in DraftIds, status \in DraftStatuses \cup {Unsent}, scope \in Scopes \cup {Unsent},
          notes \in {Unsent, "note"} : PatchDraft(id, status, scope, notes)

DraftSpec == DraftInit /\ [][DraftNext]_draftVars
-----------------------------------------------------------------------------
(* The decision history is a chain that ends at the draft as it is: an     *)
(* entry after one of the server's own starts from the snapshot that one   *)
(* ended with, and the last one ends with the current fields, also after   *)
(* the oldest entries were cut off.  What a client sent may say anything.  *)
HistoryChains ==
    \A i \in DOMAIN drafts :
        LET h == drafts[i].history IN
        /\ h[Len(h)].after = Snapshot(drafts[i])
        /\ \A k \in 2..Len(h) : h[k - 1].own => h[k].before = h[k - 1].after

(* The expected matches shown with a draft that the server simulated are   *)
(* those of its newest simulation, whatever the client sent first or       *)
(* edited since.                                                           *)
MatchesAreNewest ==
    \A i \in DOMAIN drafts :
        LET d == drafts[i] IN
        d.simulated => d.sims # << >> /\ d.matches = d.sims[Len(d.sims)]

(* Every key whose value changed after an entry of the server's own, up to *)
(* a later entry, is named by one of the entries between them.             *)
ChangesAreNamed ==
    \A i \in DOMAIN drafts :
        LET h == drafts[i].history IN
        \A k \in 1..Len(h) : h[k].own => \A l \in k..Len(h) :
            {x \in SnapshotKeys : h[k].after[x] # h[l].after[x]} \subseteq UNION {h[n].keys : n \in (k + 1)..l}

(* From its creation on, the decision history of a draft accounts for      *)
(* every change of its fields, up to the present ones, also after old      *)
(* entries were cut.                                                       *)
DraftsSound ==
    /\ HistoryChains
    /\ MatchesAreNewest
    /\ ChangesAreNamed
=============================================================================
