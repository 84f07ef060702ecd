---------------------------- MODULE CorrelatorEval ----------------------------
(***************************************************************************)
(* Rule evaluation in the correlator (src/backend/correlator/internal:     *)
(* rules/evaluate.go, window.go, matcher.go, override.go,                  *)
(* store/memory.go, nats/subscriber.go, api/http.go).                      *)
(*                                                                         *)
(* The enriched and the raw subscription have a callback each, and both    *)
(* run OnEvent on one evaluator: the window of events, the label cache,    *)
(* the cooldown cache and the store of findings each have a lock of their  *)
(* own that is held for single accesses only.                              *)
(***************************************************************************)
EXTENDS Integers, FiniteSets, Sequences, Filtering

CONSTANTS Callbacks,    \* the callbacks of the two subscriptions
          EvHosts, EvTypes, EvLabels,
          RuleList,     \* loaded rules in ID order: records of RuleShape
          Snapshots,    \* sets of rule IDs that reloads may publish
          Overridable,  \* severities an override may give
          MaxAge,       \* age at which the window forgets an event
          LabelTTL, MaxFindings, DedupeCap,
          MaxTime, MaxArrivals, MaxOverrides, \* bounds
          NoLabels      \* nothing cached for a host

ASSUME EvalAssumption ==
    /\ MaxFindings \in Nat \ {0} /\ DedupeCap \in Nat \ {0} /\ MaxAge \in Nat
    /\ \A i \in DOMAIN RuleList : RuleList[i].window <= MaxAge

VARIABLES evTime,    \* time, in the seconds event timestamps are cut to
          arrived,   \* history: every event, numbered, with its arrival
          window,    \* WindowBuffer: events kept
          labelsOf,  \* HostLabelsCache
          cooled,    \* DedupeCache: key -> time of the last finding
          enabledIds,\* rule IDs of the loader's current snapshot
          overrides, \* OverrideManager
          job,       \* what each callback is doing
          generated, \* history: findings OnEvent generated
          ring, lru  \* MemoryStore: findings, and the keys seen

evalVars == <<evTime, arrived, window, labelsOf, cooled, enabledIds, overrides, job,
              generated, ring, lru>>

(* A rule as the evaluator reads it.  "typed": its patterns are of the     *)
(* type []EventPattern the evaluator asserts; a rule parsed from YAML has  *)
(* a list of generic values there and never matches.                       *)
RuleShape == [id: STRING, typed: BOOLEAN, whenAny: SUBSET EvTypes, whenAll: SUBSET EvTypes,
              priorAny: SUBSET EvTypes, priorAll: SUBSET EvTypes,
              window: Nat, labels: SUBSET EvLabels, excluded: SUBSET EvHosts,
              cooldown: Nat, sev: STRING]

ASSUME RuleListAssumption == RuleList \in Seq(RuleShape)

Idle == [stage |-> "idle"]

EvalInit ==
    /\ evTime = 0 /\ arrived = {} /\ window = {} /\ generated = {}
    /\ labelsOf = [h \in EvHosts |-> NoLabels] /\ cooled = <<>>
    /\ enabledIds = {RuleList[i].id : i \in DOMAIN RuleList}
    /\ overrides = <<>> /\ job = [c \in Callbacks |-> Idle]
    /\ ring = <<>> /\ lru = <<>>

-----------------------------------------------------------------------------
(* Operators of the evaluator and of the store. *)

(* RecentEvents: the events of a host no older than the window. *)
RecentEvents(h, within) == {w \in window : w.host = h /\ w.at >= evTime - within}

(* matcher.go: exclusion first, then all the labels the rule asks for. *)
RuleMatches(r, h, labels) == h \notin r.excluded /\ r.labels \subseteq labels

(* hasPriorEventMatchingPattern: events with the event's own timestamp and *)
(* type are taken for the event itself.                                    *)
HasPrior(ev, type, r) ==
    \E w \in RecentEvents(ev.host, r.window) :
        w.type = type /\ ~(w.ts = ev.ts /\ w.type = ev.type)

(* evaluateWhenConditions: one pattern of any_of, or all of all_of.        *)
WhenHolds(ev, r) ==
    \/ ev.type \in r.whenAny
    \/ r.whenAll # {} /\ r.whenAll \subseteq {ev.type}

(* evaluateRequiresPriorConditions: when no pattern of any_of has a prior  *)
(* event the all_of list decides, and without one the answer is true: an   *)
(* any_of alone is never enforced.                                         *)
PriorsHold(ev, r) ==
    \/ \E type \in r.priorAny : HasPrior(ev, type, r)
    \/ \A type \in r.priorAll : HasPrior(ev, type, r)

Triggers(ev, r) == r.typed /\ WhenHolds(ev, r) /\ PriorsHold(ev, r)

Key(h, r) == <<h, r.id>>

(* shouldDedupe: the key is in its cooldown. *)
ShouldDedupe(h, r) ==
    /\ r.cooldown > 0 /\ Key(h, r) \in DOMAIN cooled
    /\ evTime - cooled[Key(h, r)] < r.cooldown

(* ApplyOverrides: the overrides of the rule are applied in the order in   *)
(* which the map yields them, so any of them may give the severity last.   *)
ApplyOverrides(r) ==
    LET given == {overrides[i].sev : i \in {j \in DOMAIN overrides : overrides[j].id = r.id}} \ {"keep"}
    IN  IF given = {} THEN {r.sev} ELSE given

StoreKey(f) == <<f.host, f.rule, f.sev>>

Holds(seq, x) == \E i \in DOMAIN seq : seq[i] = x

Dropped(seq, x) == Kept(seq, {x})

(* Append to a sequence of bounded length: the oldest entry goes. *)
Pushed(seq, x, cap) == IF Len(seq) = cap THEN Append(Tail(seq), x) ELSE Append(seq, x)

(* AddFinding: a key the LRU cache holds is a duplicate, and looking it up *)
(* makes it the most recently used; a new finding overwrites the oldest    *)
(* slot of the ring.                                                       *)
AddFinding(f) ==
    LET k == StoreKey(f)
    IN  IF Holds(lru, k)
        THEN lru' = Append(Dropped(lru, k), k) /\ UNCHANGED ring
        ELSE lru' = Pushed(lru, k, DedupeCap) /\ ring' = Pushed(ring, f, MaxFindings)

-----------------------------------------------------------------------------

EvalTick ==
    /\ evTime < MaxTime /\ evTime' = evTime + 1
    /\ UNCHANGED <<arrived, window, labelsOf, cooled, enabledIds, overrides, job, generated,
                   ring, lru>>

(* handleEnrichedMessage, handleRawMessage and the first half of OnEvent:  *)
(* the event is parsed (its timestamp cut to seconds), added to the        *)
(* window, its labels cached, and the rules that apply to it are taken     *)
(* from the snapshot.  A message that does not parse changes nothing.      *)
OnEvent(c, h, t, labels) ==
    LET ev == [n |-> Cardinality(arrived), host |-> h, type |-> t, ts |-> evTime, at |-> evTime]
        known == IF labels # {} THEN [labels |-> labels, at |-> evTime]
                 ELSE IF labelsOf[h] # NoLabels /\ evTime - labelsOf[h].at > LabelTTL
                      THEN NoLabels ELSE labelsOf[h]
        have == IF known = NoLabels THEN {} ELSE known.labels
    IN  /\ job[c] = Idle /\ Cardinality(arrived) < MaxArrivals
        /\ arrived' = arrived \cup {ev} /\ window' = window \cup {ev}
        /\ labelsOf' = [labelsOf EXCEPT ![h] = known]
        /\ job' = [job EXCEPT ![c] = [stage |-> "evaluate", ev |-> ev, found |-> <<>>,
                       rules |-> Kept(RuleList, {r \in Elements(RuleList) :
                                      r.id \notin enabledIds \/ ~RuleMatches(r, h, have)})]]
        /\ UNCHANGED <<evTime, cooled, enabledIds, overrides, generated, ring, lru>>

(* One turn of OnEvent's loop: the rule, as overridden, is evaluated and   *)
(* the cooldown of its key looked up.                                      *)
EvaluateRule(c) ==
    LET j == job[c]
        r == Head(j.rules)
    IN  /\ j.stage = "evaluate" /\ j.rules # <<>>
        /\ IF Triggers(j.ev, r) /\ ~ShouldDedupe(j.ev.host, r)
           THEN \E sev \in ApplyOverrides(r) :
                   job' = [job EXCEPT ![c] = [j EXCEPT !.stage = "record", !.found = Append(@,
                               [n |-> j.ev.n, host |-> j.ev.host, rule |-> r.id, sev |-> sev,
                                at |-> evTime])]]
           ELSE job' = [job EXCEPT ![c].rules = Tail(@)]
        /\ UNCHANGED <<evTime, arrived, window, labelsOf, cooled, enabledIds, overrides,
                       generated, ring, lru>>

RecordDedupeKeyNever(h, r) == cooled

(* The cooldown cache after recordDedupeKey. *)
RecordDedupeKey(h, r) ==
    IF r.cooldown = 0 THEN cooled
    ELSE [k \in DOMAIN cooled \cup {Key(h, r)} |-> IF k = Key(h, r) THEN evTime ELSE cooled[k]]

(* The rest of the turn, under another hold of the cache's lock. *)
RecordFinding(c) ==
    LET j == job[c]
        f == j.found[Len(j.found)]
    IN  /\ j.stage = "record"
        /\ cooled' = RecordDedupeKey(j.ev.host, Head(j.rules))
        /\ generated' = generated \cup {[by |-> c, n |-> f.n, host |-> f.host, rule |-> Head(j.rules),
                                         checked |-> f.at, at |-> evTime]}
        /\ job' = [job EXCEPT ![c] = [j EXCEPT !.stage = "evaluate", !.rules = Tail(@)]]
        /\ UNCHANGED <<evTime, arrived, window, labelsOf, enabledIds, overrides, ring, lru>>

(* processEvent: OnEvent has returned; its findings go to the store one by *)
(* one, and the message is acknowledged.                                   *)
StoreFinding(c) ==
    LET j == job[c]
    IN  /\ j.stage = "evaluate" /\ j.rules = <<>>
        /\ IF j.found = <<>>
           THEN job' = [job EXCEPT ![c] = Idle] /\ UNCHANGED <<ring, lru>>
           ELSE AddFinding(Head(j.found)) /\ job' = [job EXCEPT ![c].found = Tail(@)]
        /\ UNCHANGED <<evTime, arrived, window, labelsOf, cooled, enabledIds, overrides, generated>>

(* The cut-off of GC: an event of exactly the maximum age goes. *)
Collected == {w \in window : evTime - w.at >= MaxAge}

WindowGC ==
    /\ Collected # {}
    /\ window' = window \ Collected
    /\ UNCHANGED <<evTime, arrived, labelsOf, cooled, enabledIds, overrides, job, generated,
                   ring, lru>>

RingAfterClear == <<>>

(* handleResetFindings: ClearFindings empties the ring and the cache. *)
ClearFindings ==
    /\ ring # <<>>
    /\ ring' = RingAfterClear /\ lru' = <<>>
    /\ UNCHANGED <<evTime, arrived, window, labelsOf, cooled, enabledIds, overrides, job, generated>>

(* The loader publishes another snapshot (module CorrelatorRules). *)
SnapshotChanges(ids) ==
    /\ ids # enabledIds /\ enabledIds' = ids
    /\ UNCHANGED <<evTime, arrived, window, labelsOf, cooled, overrides, job, generated, ring, lru>>

(* handleRuleOverrides after ValidateOverride; handleEnableRule and        *)
(* handleDisableRule add an override of the enabled field alone, which no  *)
(* step of the evaluation looks at.                                        *)
AddOverride(o) ==
    /\ Len(overrides) < MaxOverrides
    /\ overrides' = Append(overrides, o)
    /\ UNCHANGED <<evTime, arrived, window, labelsOf, cooled, enabledIds, job, generated, ring, lru>>

(* handleRuleOverrideByID. *)
RemoveOverride(i) ==
    /\ i \in DOMAIN overrides
    /\ overrides' = [j \in 1..(Len(overrides) - 1) |->
                        IF j < i THEN overrides[j] ELSE overrides[j + 1]]
    /\ UNCHANGED <<evTime, arrived, window, labelsOf, cooled, enabledIds, job, generated, ring, lru>>

EvalNext ==
    \/ EvalTick \/ WindowGC \/ ClearFindings
    \/ \E c \in Callbacks :
          \/ \E h \in EvHosts, t \in EvTypes, l \in SUBSET EvLabels : OnEvent(c, h, t, l)
          \/ EvaluateRule(c) \/ RecordFinding(c) \/ StoreFinding(c)
    \/ \E ids \in Snapshots : SnapshotChanges(ids)
    \/ \E i \in DOMAIN RuleList, s \in Overridable : AddOverride([id |-> RuleList[i].id, sev |-> s])
    \/ \E i \in 1..MaxOverrides : RemoveOverride(i)

EvalSpec == EvalInit /\ [][EvalNext]_evalVars

-----------------------------------------------------------------------------

(* shouldDedupe and recordDedupeKey are two critical sections, so two      *)
(* callbacks may both get past the cooldown; but within any cooldown no    *)
(* callback generates two findings of one key.                             *)
OnePerCallbackAndCooldown ==
    \A g, f \in generated :
        (g # f /\ g.by = f.by /\ g.host = f.host /\ g.rule = f.rule /\ g.rule.cooldown > 0
               /\ g.at <= f.at) => f.checked - g.at >= g.rule.cooldown

(* A finding of a rule that requires prior events in an all_of list rests, *)
(* for each of them or for one of its any_of list, on an event other than  *)
(* its own, of the same host and inside the rule's window when the rule    *)
(* was evaluated, however events and collections of the window interleave. *)
(* (Of a rule with any_of alone evaluateRequiresPriorConditions asks       *)
(* nothing.)                                                               *)
Preceded(g, type) ==
    \E a \in arrived : /\ a.n # g.n /\ a.host = g.host /\ a.type = type
                       /\ a.at >= g.checked - g.rule.window /\ a.at <= g.checked

PriorIsAnother ==
    \A g \in generated :
        \/ \E type \in g.rule.priorAny : Preceded(g, type)
        \/ \A type \in g.rule.priorAll : Preceded(g, type)

(* GC, and the deletion of a host's empty buffer, lose no event that a     *)
(* window shorter than the maximum age still reaches.                      *)
WindowComplete == \A a \in arrived : evTime - a.at < MaxAge => a \in window

(* While the cache of keys has never been full, the store holds no two     *)
(* findings of one host, rule and severity: the ring and the cache agree   *)
(* across duplicates, overwriting and /findings/reset.                     *)
StoreHasNoDuplicates ==
    Len(lru) < DedupeCap =>
        \A i, j \in DOMAIN ring : StoreKey(ring[i]) = StoreKey(ring[j]) => i = j

(* Findings mean something: none is repeated by a callback within its      *)
(* cooldown, rules get the prior events they ask for, the window loses none*)
(* it promised, and the store holds no duplicate.                          *)
FindingsSound ==
    /\ OnePerCallbackAndCooldown
    /\ PriorIsAnother
    /\ WindowComplete
    /\ StoreHasNoDuplicates
=============================================================================
