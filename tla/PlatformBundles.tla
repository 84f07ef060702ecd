--------------------------- MODULE PlatformBundles ---------------------------
(***************************************************************************)
(* The actions-api audit-mode bundles: a bundle is drafted, edited, staged *)
(* for devices, and the endpoints report a status and observe-only matches.*)
(* One handler is one critical section of platform.mu.                     *)
(***************************************************************************)
EXTENDS PlatformState, FiniteSets, Filtering

CONSTANTS BundleDevices,    \* device ids
          StageRequests,    \* device_ids lists a console may send
          ReportedStatuses, \* endpoint statuses that endpoints report
          BundleContents,   \* what an edit changes: title, scope, notes, ...
          MatchCap, BundleCap,       \* 200 and 200 in the code
          MaxBundles        \* bound: bundles ever created

VARIABLES bundles,          \* PlatformData.AuditBundles
          bundleCount,      \* uuids handed out
          lastWord,         \* ghost: <<bundle, device>> -> last status staged or reported
          doubled           \* ghost: <<bundle, device>> named twice by one stage request

bundleVars == <<opEvents, bundles, bundleCount, lastWord, doubled>>

EndpointStatuses == {"pending", "accepted", "rejected", "incompatible", "stale"}

ASSUME PlatformBundlesAssumption ==
    /\ {MatchCap, BundleCap} \subseteq Nat \ {0}
    /\ StageRequests \subseteq Seq(BundleDevices)
    /\ ReportedStatuses \subseteq EndpointStatuses
    /\ MaxBundles \in Nat

BundleInit ==
    /\ opEvents = << >>
    /\ bundles = << >>
    /\ bundleCount = 0
    /\ lastWord = [bd \in (1..MaxBundles) \X BundleDevices |-> ""]
    /\ doubled = {}

FirstBundle(id) == {i \in DOMAIN bundles : bundles[i].id = id}
RowsOf(rows, d) == {k \in DOMAIN rows : rows[k].device = d}
-----------------------------------------------------------------------------
(* createAuditBundle: any mode but audit is refused.                       *)
CreateBundle(content) ==
    /\ bundleCount < MaxBundles
    /\ bundleCount' = bundleCount + 1
    /\ bundles' = Pushed(bundles, [id |-> bundleCount', status |-> "draft", content |-> content,
                                   rows |-> << >>, matches |-> << >>], BundleCap)
    /\ AppendOp("audit_bundle.created", "draft", bundleCount')
    /\ UNCHANGED <<lastWord, doubled>>

(* patchAuditBundle: only drafts can be edited.                            *)
Editable(b) == b.status = "draft"
PatchBundle(id, content) ==
    /\ \E i \in FirstBundle(id) :
          /\ Editable(bundles[i])
          /\ bundles' = [bundles EXCEPT ![i].content = content]
    /\ AppendOp("audit_bundle.updated", "draft", id)
    /\ UNCHANGED <<bundleCount, lastWord, doubled>>

(* stageAuditBundle: `known` maps a device to its last row and is built    *)
(* once, before the loop over device_ids, so a device named twice in one   *)
(* request gets two rows.                                                  *)
StageKnown(rows, d) ==
    LET at == RowsOf(rows, d) IN {k \in at : \A j \in at : j <= k}

StageRows(rows, request) ==
    LET fresh == Kept(request, {d \in Elements(request) : StageKnown(rows, d) # {}})
    IN  [k \in DOMAIN rows |->
            IF \E n \in DOMAIN request : k \in StageKnown(rows, request[n])
            THEN [rows[k] EXCEPT !.status = "pending"] ELSE rows[k]]
        \o [n \in DOMAIN fresh |-> [device |-> fresh[n], status |-> "pending", matched |-> FALSE]]

Stageable(b) == b.status \in {"draft", "staged"}

StageBundle(id, request) ==
    /\ \E i \in FirstBundle(id) :
          /\ Stageable(bundles[i])
          /\ bundles' = [bundles EXCEPT ![i] = [bundles[i] EXCEPT !.status = "staged",
                                                !.rows = StageRows(@, request)]]
    /\ lastWord' = [bd \in DOMAIN lastWord |->
                       IF bd[1] = id /\ bd[2] \in Elements(request) THEN "pending" ELSE lastWord[bd]]
    /\ doubled' = doubled \cup
           {<<id, d>> : d \in {x \in Elements(request) :
                                 Cardinality({n \in DOMAIN request : request[n] = x}) > 1}}
    /\ AppendOp("audit_bundle.staged", "staged", id)
    /\ UNCHANGED bundleCount

(* reportAuditBundleStatus: accepted whatever the bundle's status is; the  *)
(* first row of the device is updated, or one is appended.                 *)
ReportLast(rows, d, status) ==
    IF rows = << >> THEN <<[device |-> d, status |-> status, matched |-> FALSE]>>
    ELSE [rows EXCEPT ![Len(rows)].status = status]
Reporting(rows, d, status) ==
    LET at == RowsOf(rows, d) IN
    IF at = {} THEN Append(rows, [device |-> d, status |-> status, matched |-> FALSE])
    ELSE [rows EXCEPT ![CHOOSE k \in at : \A j \in at : k <= j].status = status]

ReportBundleStatus(id, d, status) ==
    /\ \E i \in FirstBundle(id) :
          bundles' = [bundles EXCEPT ![i].rows = Reporting(@, d, status)]
    /\ lastWord' = [lastWord EXCEPT ![<<id, d>>] = status]
    /\ AppendOp("audit_bundle.endpoint_status", status, id)
    /\ UNCHANGED <<bundleCount, doubled>>

(* reportAuditBundleMatch: only for a staged bundle.                       *)
ReportBundleMatch(id, d) ==
    /\ \E i \in FirstBundle(id) :
          /\ bundles[i].status = "staged"
          /\ bundles' = [bundles EXCEPT ![i] =
                [bundles[i] EXCEPT
                          !.matches = Pushed(@, d, MatchCap),
                          !.rows = [k \in DOMAIN @ |->
                              IF RowsOf(@, d) # {} /\ k = (CHOOSE n \in RowsOf(@, d) :
                                                               \A j \in RowsOf(@, d) : n <= j)
                              THEN [@[k] EXCEPT !.matched = TRUE] ELSE @[k]]]]
    /\ AppendOp("audit_bundle.match", "staged", id)
    /\ UNCHANGED <<bundleCount, lastWord, doubled>>

(* revokeAuditBundle: from any status.                                     *)
RevokeBundle(id) ==
    /\ \E i \in FirstBundle(id) :
          bundles' = [bundles EXCEPT ![i].status = "revoked"]
    /\ AppendOp("audit_bundle.revoked", "revoked", id)
    /\ UNCHANGED <<bundleCount, lastWord, doubled>>

BundleNext ==
    \/ \E c \in BundleContents : CreateBundle(c)
    \/ \E id \in 1..bundleCount :
          \/ \E c \in BundleContents : PatchBundle(id, c)
          \/ \E request \in StageRequests : StageBundle(id, request)
          \/ \E d \in BundleDevices, s \in ReportedStatuses : ReportBundleStatus(id, d, s)
          \/ \E d \in BundleDevices : ReportBundleMatch(id, d)
          \/ RevokeBundle(id)

BundleSpec == BundleInit /\ [][BundleNext]_bundleVars
-----------------------------------------------------------------------------
(* Staging again, reports that arrive before or after staging and reports  *)
(* on revoked bundles never give a device a second row: two rows appear    *)
(* only for a device that one stage request named twice.                   *)
RowPerDevice ==
    \A i \in DOMAIN bundles : \A d \in BundleDevices :
        <<bundles[i].id, d>> \notin doubled => Cardinality(RowsOf(bundles[i].rows, d)) <= 1

(* A device with one row shows the last thing that happened to it: the     *)
(* status it last reported, or pending when it was staged after that.      *)
RowShowsLastWord ==
    \A i \in DOMAIN bundles : \A d \in BundleDevices :
        LET rows == bundles[i].rows IN
        Cardinality(RowsOf(rows, d)) = 1 =>
            \A k \in RowsOf(rows, d) : rows[k].status = lastWord[<<bundles[i].id, d>>]

(* What the endpoints were given is what the console shows: once a bundle  *)
(* was staged or revoked its content never changes, a revoked bundle stays *)
(* revoked, and matches are only added while it is staged.                 *)
StagedContentFrozen ==
    [][\A i \in DOMAIN bundles : \A j \in DOMAIN bundles' :
          LET b == bundles[i] c == bundles'[j] IN
          (b.id = c.id /\ b.status # "draft") =>
              /\ c.content = b.content
              /\ b.status = "revoked" => c.status = "revoked" /\ c.matches = b.matches]_bundleVars

(* An audit bundle has one row per device, with the last word of that      *)
(* device, and once staged its content never changes under them.           *)
BundlesSound ==
    /\ [](RowPerDevice /\ RowShowsLastWord)
    /\ StagedContentFrozen
=============================================================================
