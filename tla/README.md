# AegisFlux in TLA+

AegisFlux watches hosts, decides about what it sees, and distributes two kinds of things to them:
*detection packs* (signed JSON rules the Linux and Windows agents evaluate) and *eBPF programs*
(artifacts the local agent loads into the kernel). This directory models the parts of the code that
keep state while several requests, goroutines, processes or machines act on it, model-checks them on
small instances with TLC, and proves the most important invariants for every size with TLAPS.

Paths below are relative to `src/`. `PROJECT.json` lists every component with its files, the lines
each definition stands for, the runs, the mutants, the hazards and the theorems.

## 1. Inventory

### Detection packs

| Component | State | Operations | What is hard |
|---|---|---|---|
| `backend/detection-pipeline/internal/store` | four maps in memory, a JSON snapshot file | `Put*`, `Get*`, `List*`, `persist`, `Load` | the lock covers one map access; `persist` marshals and writes after it is released; all writers share one `.tmp` name |
| `.../internal/api/server.go` | the status of each candidate | create research, create candidate, validate, approve, reject, sign | handlers test a status through a shared pointer and assign later; a validation waits for another service |
| `.../internal/eval` | events fetched for a validation | index, evaluate clauses | events in any order, guids seen twice, nested clauses that stop early |
| `.../internal/rollout`, `api/controller_rollout.go` | the signed artifacts, one status record per agent | GET latest, GET artifact, POST status | a fold over a map in random order; two requests that choose independently; merging of reports |
| `agents/linux-agent/src/dynamic_pack` | four cache files | one cycle per collection: latest, artifact, verify, promote, write, report, evaluate | crashes and failed writes between the files; lost reports; a controller that changes its mind |

Flow: research item -> candidate -> validation (queries ingest, evaluates the rules) -> review ->
signed artifact -> selected by the controller -> downloaded, verified and cached by an agent ->
status reported back.

### eBPF programs

| Component | State | Operations | What is hard |
|---|---|---|---|
| `backend/decision/internal/{api,agents,store}`, `common/agents` | plans, the budget of the language models | plan from a finding, policy from intents | the budget is tested before a call and charged after it; models answer anything; a bounded store |
| `backend/decision/internal/guardrails`, `config` | the live configuration, handed over by goroutines | decide a strategy, apply a change | two reads of the configuration in one decision; notifications in any order; changes during the start |
| `backend/orchestrator/internal/{decision,ebpf}` | render directories, packages, the controls of a plan | process a plan: render, compile, pack, upload, answer | directories named after a second; one working directory; controls that fail midway |
| `backend/orchestrator/internal/rollout/ebpf.go` | rollout records by id | apply to canary, observe, apply to the rest, observe, roll back | ids made of a second; publishes that fail; contexts that end with the HTTP request |
| `.../rollout/rollback.go`, `decision/rollback_handler.go` | rollback operations by id | initiate, run targets at once or in batches, clean up | ids made of a second; outcomes written through the table; failing targets |
| `backend/bpf-registry` | two files per artifact | store, update the hosts, serve | files truncated and written in place, no lock |
| `agents/local-agent/internal/agent`, `bpf` | four records of each program: the agent's, the loader's, the rollback manager's, the TTL timers | poll and load, TTL timer, minute ticker, rollback, unload | one goroutine each, one lock per record, the loader without any |
| `agents/local-agent/internal/rollback`, `telemetry` | last report per program (twice), a queue of 100 events, a channel of 1000 outgoing events | report, tickers, callback, orchestrator signal, event loops | events dropped at a full queue; stale reports; a callback that calls its caller |

### Events, agents and the console

| Component | State | Operations | What is hard |
|---|---|---|---|
| `backend/ingest/internal/server` | a tracker of event ids, a file with an index or an SQLite database | batches over HTTP and gRPC, publish, append, rotate, query | a batch that fails midway and is repeated; kills between file and index |
| `backend/correlator/internal/rules`, `store`, `nats` | rule files and snapshot, window of events, cooldowns, findings | watch and reload, evaluate an event, override, clear | overlapping loads; test and record of a key in two steps; four caches with limits of their own |
| `.../rules/decision_integration.go` and what it calls | what was sent on | finding -> safeguard -> map snapshot -> plan | a connection that goes down between the stages |
| `backend/config-api`, `correlator/internal/config` | rows, a manager's view | upsert and announce, snapshot, subscribe, apply, refresh | store and announce in two orders; lost announcements; changes during the start |
| `backend/segmenter` | none | proposals from hosts and flows, a plan | unstable orders; a division by zero |
| `backend/actions-api/internal/api` agents | agents, host index, pending registrations | register in two calls, heartbeat, batch, label, send, list | two critical sections; agents named by host or by uid |
| `backend/websocket-gateway/internal/gateway` | the table of connections | upgrade, authenticate, heartbeat, register, rename, deliver, clean up | a goroutine per connection, single accesses locked; names that change |
| `backend/actions-api/internal/api` platform | research items, candidates, audit bundles, drafts, event feed | ingest, promote, patch, simulate, sign, stage, report, revoke | lists cut at a limit; ids chosen by clients; fields that outlive the gate computed from them |
| `backend/actions-api/internal/agentsharness` | settings, jobs, runs, audit list | a run of an agent step by step | settings that change during a run; runs that fail at any step |
| `backend/actions-api/internal/api/agent_readiness.go` | none of its own | score, bucket, first fix | six graded ages; services that do not answer |

Correct means, for all of them: what was acknowledged survives and is found again; a record says what
happened; nothing is applied, evaluated, deployed or sent that was not verified, approved, admitted or
agreed to; limits hold, or are exceeded by a known amount; and what was begun comes to an end.

## 2. Modules

```
DurableStore <-- implemented by -- SnapshotFile <-- INSTANCE -- DetectionPipeline
PackController (behind PackAgent!Offer)
PackAgent <-- EXTENDS -- PackRollout                RuleEval (behind a validation's verdict)
LocalAgent <-- EXTENDS -- LocalAgentRollback        TelemetrySender
AgentRegistry <-- EXTENDS -- WebsocketGateway       CorrelatorRules CorrelatorForward
PlatformState <-- EXTENDS -- PlatformCandidates, PlatformBundles, PlatformDrafts, PlatformAgents
Guardrails DecisionPlans ConfigService Segmenter    OrchestratorBuild OrchestratorRollback CanaryRollout
Filtering <-- EXTENDS -- BpfRegistry, Ingest, CorrelatorEval
FleetReadiness
X <-- EXTENDS -- MCX (instances for TLC)            X <-- EXTENDS -- X_proofs (theorems)
```

A run whose instance needs no definitions of its own has its constants in the `.cfg` alone and checks
the component's module as it is.

Theorems are in `DetectionPipeline_proofs` (which covers RuleEval), `PackAgent_proofs` (PackRollout),
`LocalAgent_proofs` (LocalAgentRollback), `CanaryRollout_proofs`, and, for the components that share a run, in
`ControlPlane_proofs`, `EventPath_proofs` and `DecisionPath_proofs`; `Filtering_proofs` has the lemmas
about lists.

**SnapshotFile** (`store.go`, `persist` and `Load`). A directory with the names `path` and `tmp`
over inodes, and one writer per `persist`: `Marshal`, `OpenTmp` (truncates whatever `.tmp` names),
`WriteTmp`, `Rename`, or an error, with `Crash` at any point. Two writers may hold the same inode;
what is then in the file is one of the contents or torn. `overlap` records that two persists were
under way at once; `acked` is the last content whose `persist` returned nil.

**DurableStore** is what the callers of `persist` may rely on, with no file in sight: one stored value
that changes in one step, to a value some client has handed in, when that client is told so, and that
survives clients which give up or die. `SnapshotFile` implements it while persists do not overlap:
`Abstract` maps the stored value to what `Load` would read, the confirmed one to `acked`, and a value
in hand to the snapshot a writer carries. A writer that waits for `Marshal` has nothing in hand yet.

**DetectionPipeline** (`server.go` over `ops.go`). A handler is a record of the step it is at and
what it carries; the `...Admit` actions are the tests of a handler, the others one assignment or
`Put` each. `persist` is taken apart into the marshalling of each map and the steps of
`SnapshotFile`, an `INSTANCE` whose variables are part of the state. A restart loads the file.
Data races on a status are modelled as interleavings of whole assignments; the abort of the Go
runtime on a concurrent map access is a `Crash`. Outcomes of validation and of signing are free
choices. `concurrent` records that a request came while another was served.

**RuleEval** (`eval/evaluator.go`). The evidence is a sequence that grows by any event; the index of
processes by guid and the clauses are operators over it. Words stand for names, queries and command
lines. A clause is a leaf or a group that lists clauses; groups nest to some finite depth, at most
`MaxNesting`, since they come out of a JSON document. `SchemaClauses` are those that
`ValidateProposedRules` (`pack/validate_rules.go`, asked before a candidate is stored) lets through:
`all_of` and `any_of` over known leaves, all the way down. That more evidence never takes a match away
is said of them only. It is false of others: an `any_of` over a leaf that matches and an `all_of` that
reaches an unknown leaf only after something else has matched answers yes first and with an error later.

**PackController** (`rollout/select.go`, `semver.go`, `packmeta.go`, `controller_rollout.go`). The
artifacts, and one agent's GET latest followed by GET artifact, each of them a loop over a listing of
the artifacts in any order; an artifact may be signed between the two. A version is a triple and a
pre-release tag that `parseSemver` drops. Packs of this pipeline are observe-only and have no expiry, so those two tests
never fail and are left out.

**PackAgent** (`dynamic_pack/pipeline.rs`, `cache.rs`). One cycle: `Start` (load the cache), GET
latest, GET artifact, verify, four file writes of two steps each (`WriteOpen` truncates, `WriteDone`
completes), report, evaluate. `Good` is what the agent can verify; every answer of the controller,
every failed write and a crash at every point are possible. **PackRollout** adds the controller's
record of the agent: each post is merged or lost. The previous and the last rejected pack of a record
are left out.

**LocalAgent** (`agent.go`, `loader.go`). Goroutines from a pool `Workers` (the bound on how many
run at once) that take the steps of `processArtifact` and `unloadProgram`, each of which touches one
record. `overlap` is the set of artifacts on which two goroutines have worked at once. A runtime
abort is a restart from `Init`, since the agent keeps nothing on disk. **LocalAgentRollback**
(`rollback/manager.go`, `telemetry/monitor.go`) composes it with both telemetry stores, the queue,
the tickers and the callback. The check of a program and the event it sends are one step; the count
of callback goroutines saturates at `MaxCalls`.

**TelemetrySender** (`telemetry/sender.go`). Events are numbered as they are offered; `Offer` is the
`select` with `default`, `PublishEvent` one turn of the loop, which may fail at any time and is not
repeated. `Stop` lets the loop end with events in the channel.

**CanaryRollout** (`rollout/ebpf.go`, `api.go`). Requests of one plan, so an id is a second. The
goroutine of a request finds its record by its id. Targets are two groups; what was last published
to a group is `told`. Telemetry is not matched to targets in the code either; of the totals the
verdict of `evaluateSuccess` is kept. `cmd/orchestrator/main.go` does not start this manager; it is
used by the decision integration of the same service.

**OrchestratorRollback** (`rollout/rollback.go`, `decision/rollback_handler.go`). Operations in the
order of their creation and the table that leads from an id to one of them. An operation runs its
targets at once, in gradual batches, or (the handler) with canaries first; each target succeeds or
fails. Writing a status goes through the table or through the operation's own pointer, as the code
does. `CleanupRollbacks` forgets finished operations.

**OrchestratorBuild** (`decision/processor.go`, `ebpf/render.go`, `pack.go`, `registry.go`). Each
handler goes through its plan: copy the template into the directory of this second and replace its
parameters, compile, create the package file, fill it, upload, write back the artifact, answer. A
directory holds whatever was last put there; the compiler and the archiver take what they find. The
package file is named after plan, control, version and architecture (`orchestrator.go:96`), so two
builds of one plan truncate and fill the same one, in whatever second they run; `spoilt` names the
controls where that happened, or where an error of a `Close` was lost (`pack.go:85`). What is uploaded
is a placeholder (`registry.go`). `Cleanup` is left out: only `ebpf/example.go` calls it.

**Guardrails** (`guardrails.go`, `config/manager.go`, `client.go`, `cmd/decision/main.go`).
`DecideStrategy` as three steps (the window, the labels, the bound), the start of the service and
live changes: a row that is stored and then published, or not (`config-api handler.go:203` logs the
error and answers as usual), a message per change, a copy of the configuration, a goroutine per
notification. A value of the wrong type is stored like any other and is ignored where it is read
(`client.go:80`, `manager.go:137`), so `SerialSettles` is about the last well-typed value of each key
(`typed`), and not about a key whose last well-typed change was not published (`unheard`). The TTL of
a decision is left out; labels match by a relation `Matches`. `WindowIsCyclic` is about hours 0 to 23; the
code accepts any integer. A negative `decision.max_canary_hosts` is accepted everywhere and becomes the
size of the canary (`guardrails.go:258`): `CanaryFits` says so.

**DecisionPlans** (`api/http.go`, `agents/*.go`, `store/memory.go`, `common/agents/budget.go`,
`router.go`). A request asks its agents one after the other. `StartAgent` tests the budget, `AskModel`
gets any answer or none, `ChargeCall` charges it and may refuse it, `RunTools` runs the tools it
names, with the scripted answers of the code where something failed. Minutes and hours pass; the
counters are kept per minute and per hour.

**ConfigService** (`config-api`, `correlator/internal/config`). Rows carry the number of the PUT that
wrote them. A manager is `down`, `loaded` (snapshot taken) or `ready` (subscribed). `cfgMissed` names
the keys whose newest row it may lack: announcements that failed, were lost at a restart, came before
the subscription, overlapped another one of the key or were overwritten by a `Refresh`. The database
is external.

**Segmenter** (`segmenter.go`). Operators only: topology, assessments, the proposals by goal, and
their rank, over every small request of the instance; sums over a map take its keys in an order of
their own, which is any, and the unstable sort of the proposals is a choice.

**AgentRegistry** (`agents.go`, `agents_api.go`, `agents_fleet_scale.go`, `store.go`). A device is its
key and its uid. `complete` is two sections; everything else is one. The list is sorted by the time
last seen, then by uid (`UidRank` is the order of the uids), and comes in pages of the `PageSizes`.
A host may be empty (`agents.go:54` does not look): `complete` indexes it like a name and a heartbeat
leaves its entry alone (`agents_api.go:952`), so that `HostIndexSound` asks of the empty name only
that an agent is behind it.
**WebsocketGateway** (`server.go`, `connection.go`, `http_handlers.go`, `auth/service.go`) runs on top
of it: a session has a stage, the table maps names to sessions, `Rekey` moves a session from host name
to uid, a message is looked up in one step and written in another, `Cleanup` deletes a name.
`replaced` records that a session has taken over a name another one carries. `DeliveredToOwner` is
about devices with host names of their own (`HostNamesDiffer`): where two share one, renaming the
connection found under the host name may give one device the uid of the other.

**PlatformState, PlatformCandidates, PlatformBundles, PlatformDrafts** (`platform_state.go`,
`research_feed.go`, `detection_candidates.go`, `audit_bundles.go`, `platform_misc.go`). One handler is
one critical section, so one action; lists are cut at their limits as in the code, and every handler
appends to the event feed. A candidate's gate is the set of filled fields; a draft's snapshot is the
fields the history records. A POST decodes the whole record, so a research item may come with a link
(`given`) and a draft with notes, matches, simulations and a history of the client's own making
(`SentParts`; `own` marks the entries the server made); the proposed pack id of an item is left out. **PlatformAgents** (`agentsharness`, `platform_ai.go`) is not one section:
settings are read, tools called, the outcome concluded and the job recorded in steps, with settings
and candidates changing between them.

**FleetReadiness** (`agent_readiness.go`, `ingest_devices.go`). Ages are ranks of the thresholds they
are compared with; facts about one agent change in any way and the answer is an operator over them.
`ReadyIsTrustworthy` is what the code keeps, which is less than what the file says of itself (section 3).
`fixFirst` is never empty for an agent that is not ready; the fleet answer lists the worst eight of them.

**BpfRegistry** (`store/fs.go`, `file.go`). Each file is absent, cut or whole; a request opens
(truncates) and writes the files in the code's order, host lists are read in one step and written in
another, a write may fail after the file was truncated (`fs.go:219`), and the process may be killed
between. `disturbed` names artifacts with overlapping or killed updates, `failed` those whose metadata a
failed write has cut: they are served to no host any more.

**Ingest** (`http.go`, `grpc.go`, `dedupe.go`, `visibility_store*.go`, `visibility_scale.go`). A
handler walks its batch: test the id, publish, remember; then the batch is stored. The file store
appends one event at a time, rotates the file, and writes its device index after each; SQLite does the
batch in one transaction and prunes afterwards. Events without a device (`Anonymous`) are not counted
in the index (`visibility_scale.go:56`). Each operation may fail and end the request: the caller is
gone, a rotation stops halfway and leaves the file closed (`shut`), a line is written in part and
the next one glued to it (`tail`, `glued`), a sync fails after the write, the index is not written.
Kills lose the memory; with a line that does not parse the service does not come up again (`down`,
`visibility_store.go:128`), and there the model ends. Two rotations in one second would replace the
first file (`visibility_store.go:203`); the model keeps both.

**Filtering** has the two loops over a list that several of these use (leave out, and insert what is
missing), as recursive functions, because the prover cannot reason about an operator that takes an
operator.

**CorrelatorRules** (`rules/loader.go`, `api/http.go`). Files are edited from outside; watcher, signal
of one slot, debounce timer and each load are separate; a load reads first and publishes later. A poll
that meets an error keeps the time it had seen and sends no signal (`loader.go:275`), a load that
cannot list the directory is not repeated (`:302`), a file that cannot be read is skipped.
**CorrelatorEval** (`evaluate.go`, `window.go`, `override.go`, `store/memory.go`): two callbacks share
window, labels, cooldowns and store; test of the key, record of the key and storing are steps of their
own. An `any_of` list of prior events without an `all_of` list is not enforced (`evaluate.go:219`, `:242`),
so `PriorIsAnother` is about rules whose `all_of` list there is.
**CorrelatorForward** (`decision_integration.go` and what it calls): every message arrives at two
callbacks, which pass its findings on stage by stage while the connection comes and goes; the TTL and
the confidence of a map snapshot are computed as in the code.

### One run for several components

`MCControlPlane`, `MCEventPath`, `MCDecisionPath` and `MCProgress` put components that share no state
side by side. A variable `subject`, chosen initially and never changed, names the one that runs; the
others stay in their initial state. So the states of a run are the union of the components' states,
not their product, and each property speaks about the variables of one component only. Components
that do interact are composed in a module (DetectionPipeline, PackRollout, LocalAgentRollback,
WebsocketGateway).

## 3. Runs

A component's promise is one property, a conjunction of named parts: `GatewaySound` is
`GatewayTypeOK`, `TableHoldsLive`, `DeliveredToOwner` and `OpenIsReachable`, each stated and commented
in the module. Every property of a run has a mutant: a plausible wrong version of one definition
(directly before it in the module) under which TLC finds the property violated.

| Run | Distinct states | Properties |
|---|---|---|
| `ControlPlane` | 783 K | `SerialPersistIsSafe`: a restart finds a whole snapshot, the last acknowledged one, and until two persists overlap each step is one of the abstract store. `RegistrySound`: the host index leads to agents of that host, pages show each agent once. `CandidatesSound`: gates are of the current fields, signed means simulated, links the server made point back, the feed shows the last status. `BundlesSound`: one row per device with its last word, staged content frozen. `DraftsSound`: what the server adds to a history chains up to the present fields. `ArtifactsSound`: what is served is whole, and for exactly its hosts, or for none after a failed write. `TelemetrySound`: in order, once, no silent loss. `MatchesSound`: more evidence never takes a match of an accepted rule away, its order does not matter. `IngestSound`: accepted is stored, stored was published, once if the tracker could know, the device index lags by kills and failures only. `ReadinessSound`: ready needs fresh data, and what else is known to be good; anything else names a fix, neglect never improves |
| `EventPath` | 1.6 M | `SelectionSound`: the answer is eligible, newest for a pack id, and the download is what was announced or was signed since. `GatewaySound`: the table holds live connections, messages reach the agent they are for, open connections can be reached. `FindingsSound`: one finding per callback and cooldown, a prior event is another event, the window is complete, the store has no duplicates. `ForwardingSound`: stages in order, map snapshots within the limits |
| `DecisionPath` | 1.8 M | `DecisionsSound`: never above the desired strategy, canary fits, window cyclic. `SerialSettles`: the guardrails end with the last well-typed values that were published. `PlansSound`: budgets kept, refused calls run no tool, only granted tools, plans usable, store bounded. `ConfigSound`: a settled manager agrees with config-api, nothing is announced before it is stored. `SegmentsSound`: every host and every byte accounted for; a proposal without rules ranks first. `RollbacksSound`: completed means every target, final statuses stay, batches in order, what runs is listed. `BuildsSound`: packages hold their own programs and are whole when they are uploaded, plan and answer agree, only uploaded artifacts deployed. `HarnessSound`: jobs settle, no external model without consent, audit list bounded |
| `Progress` (fair) | 261 K | `CanarySound`: rest after canary, truthful outcome. `RolloutConcludes`. `QueuedIsDecided`: an event in the channel is delivered or reported. `RulesFollowFiles`: later file wins, what was noticed is loaded, every edit that was noticed without an error is loaded in the end. `RollbackConcludes`: operations end with an outcome |
| `PipelinePersist` | 526 K | `RefsSound`: references whole in memory and on disk. `ReviewSound`: reviewed only after a success, packs only from approved candidates, acknowledged rejections final |
| `PipelineConcurrent` (fair) | 18 K | `SigningSound`: signing from approved only, rejected never served. `ValidationConcludes` |
| `PackRollout` (fair) | 571 K | `CacheSound`: only verified packs evaluated, the last one cached in reach. `OneFaultTolerated`. `RecordSound`: applied was verified, and is not forgotten. `Converges`, `StatusConverges` |
| `LocalAgentLife` (fair) | 485 K | `ProgramsSound`: no orphan in the kernel, records agree. `OverrunBounded`. `TTLEnforced` |
| `LocalAgentRollback` (fair) | 177 K | `BadProgramsGo`: the queue keeps its bound, and a bad report leads to an unload although events are dropped |
| `AgentPackLost` | violation | the previous verified pack is overwritten by a damaged one |
| `ControllerOrder` | violation | a lower version than another of the same pack id is selected |
| `CanaryWindow` | violation | a rollback for a window that was cut short |

### Why the bounds are enough

Interleavings of two handlers, goroutines or callbacks show every race on one record, since each step
touches one; so two writers, handlers, callers, sessions, builders and workers everywhere. A third
artifact is there for the limit of one program to be overrun by more than one. One candidate in
DetectionPipeline, because handlers of different candidates meet only in the state file, which
`SnapshotFile` covers with two contents. Two packs for active and previous, a third one to be
refused; three artifacts are the least for a fold that is not transitive. Lists, rings, queues and
trackers have room for one to three entries, so that they are full, cut and evicted in most
behaviours (`EventCap`, `HistoryCap`, `MatchCap`, `CandidateCap`, `TrackerLimit`, `MaxLines`,
`MaxFindings`, `DedupeCap`, `Capacity`, `AuditCap`, `RunCap`). Time is as long as the longest interval
the component compares with: two ticks for windows and cooldowns, two minutes to an hour for budgets,
seven ranks for ages. Two devices and two host names in `EventPath` are the least for a connection to
take over a name; the agent registry alone has one of each, with agents known by uid and by host name.
A day of four hours has windows inside a day, around midnight, and empty ones; `WindowCyclic` has
any number of hours. `DecisionPath` uses a symmetry that exchanges the two processes of every kind at
once. The maxima of a canary are -1, 0 and 1, the configuration starts with an ill-typed maximum
and an empty list of labels, and two changes are the least for one to come before the last has settled; callers of
`DecideStrategy` desire `enforce`, `aggressive` or a word the parser does not know. In ingest every line fills the file
(`MaxLines` is 1), a batch names an event twice or shares one with another, one event is of no device and one
fails validation. A stage request names two devices or one twice; a draft comes with a history and a
simulation or without; a research item may name any candidate that was ever listed. A builder gets a plan of two
eBPF controls, of one, or of one whose template is missing and one that is no eBPF control. Two faults allow a fault during the recovery from the first in the rollout; one
is enough where a kill loses everything that is in memory, and in the stores of ingest and the
bpf-registry, where one kill and one failing operation meet. `PipelinePersist` uses symmetry of handlers
and inodes, and a view that leaves out bytes no step can read again; no run with a temporal property
uses a symmetry or a view.

`CHECK_DEADLOCK FALSE` is set where the bounded inputs run out (ids, artifacts, requests, changes).

### Fairness

- DetectionPipeline: handlers that can go on do (the ingest client has a timeout of 30 s), and the
  process is started again.
- PackAgent, PackRollout: the agent runs its cycle for ever; weak fairness of the cycle, strong
  fairness of a controller that answers, of a download and of a report that arrives: the network may
  fail any number of times, but not always.
- LocalAgent: goroutines run; strong fairness of the minute ticker for a loaded program (it starts a
  goroutine of its own whenever it ticks; only the bound on goroutines delays it here).
- LocalAgentRollback: goroutines, the manager's ticker and the queue's loop run. Nothing is assumed
  of the TTL, so that `RollbackHappens` does not rest on it.
- CanaryRollout: goroutines run and windows end. OrchestratorRollback: the goroutines of an operation
  run, and each call to a target returns, well or badly.
- TelemetrySender: the loop takes events out of the channel. Nothing is assumed of the connection.
- CorrelatorRules: the watcher polls, the goroutine that arms the timer runs, timers fire, and a load
  that has read its files publishes what it read.

In `Progress` the fairness of all four components is assumed at once; a component that is not the
subject has no enabled action under it.

### Conditional properties, and what happens outside the condition

Several properties carry a condition in a history variable. The condition is the point: outside of it
the code does something else.

- *Overlapping persists* (`store.go:105`): two writers of one `.tmp` may publish torn bytes, after
  which `Load` fails and the service does not start, or an older snapshot.
- *Concurrent requests on a candidate* (`server.go:495`, `:606`): the last assignment wins, so a
  rejection, even an acknowledged one, may be overwritten by an approval, a verdict or a signature,
  and two sign requests make two artifacts.
- *A crash or a failed persist during a validation* (`server.go:383`): the candidate keeps the status
  `validating`, from which only a rejection leads away.
- *A failed persist between storing an artifact and marking its candidate* (`server.go:602`): the
  candidate stays `approved`, can be rejected, and its artifact is still served.
- *A fault in the agent's cache and a controller that returns to an earlier pack* (`pipeline.rs:96`):
  the metadata of that pack may lie beside other bytes; the agent then finds the pack invalid in
  every cycle and does not download it again (`Misled`).
- *An agent too old for the newest artifact of a pack id* (`controller_rollout.go:68`): GET latest
  announces an older one, whose URL has no version, and GET artifact refuses the newest with 406.
- *A rejected pack* (`pipeline.rs:621`) is reported, and recorded, as the active one; `AppliedIsVerified`
  is about records in state `applied`.
- *Overlapping load and unload of an artifact* (`agent.go:350`): the records disagree for good. A
  program may be shown as loaded that the loader has unloaded, or be loaded and no longer known to
  the rollback manager, which then ignores its reports.
- *A bad report* (`agent.go:542`) makes the callback hand the report to the monitor again, which
  starts the callback again, without end.
- *A program loaded again* (`monitor.go:208`) is rolled back for the report of its predecessor, which
  the monitor never removes.
- *Events in the channel when the telemetry sender stops* (`sender.go:191`), and those offered later,
  are lost without a word (`abandoned`).
- *Two requests of a plan in one second* (`ebpf.go:112`, `rollback_handler.go:59`) share an id; the
  second record replaces the first, and the first goroutine writes its outcome into it. The rollback
  properties are about operations with an id of their own (`OwnId`). *An unknown strategy*
  (`rollback.go:121`) is refused after its record was stored as initiated, where it stays.
- *Two builds of one template in one second* (`render.go:66`) share a directory and may pack each
  other's program; `PackageHoldsItsProgram` is about builds that had theirs to themselves. *Two builds
  of one plan* (`pack.go:74`) may tear its package file whenever they meet, and an error of the last
  writes, made by the `Close` calls, is not reported (`pack.go:85`); `UploadedIsWhole` leaves them out.
- *Changes close after each other* (`decision/internal/config/manager.go:186`): the goroutine with the
  older snapshot may run last, and its configuration stays. A change during the start may be missed
  altogether (`early`, `raced`), and so is one that could not be published (`unheard`).
- *A negative maximum of canary hosts* (`guardrails.go:258`) is passed on as the size of the canary.
- *A rule that requires any of some prior events* (`evaluate.go:219`) and no `all_of` list triggers
  without any of them.
- *An agent is ready with an unknown detection pack* (`agent_readiness.go:238`), and a ready agent's summary
  says that heartbeat, telemetry, detection pack and connectivity are all green (`:295`), the comment on
  the buckets that all critical dimensions are healthy (`:11`). An agent without a pack status, or any
  agent while the detection pipeline does not answer, is a counterexample to both sentences:
  `bucketize` counts an unknown dimension neither as bad nor as a warning. `ReadyIsTrustworthy` says what is left.
- *A signing between GET latest and GET artifact* (`controller_rollout.go:49`, `:127`): the URL has
  no version, so the agent downloads the newer artifact, whose digest is not the one announced, and
  refuses it until the next cycle.
- *A poll or reload of the rules that fails* (`loader.go:275`, `:302`) takes up an edit for good: the
  files are not read again until another edit is newer (`givenUp`).
- *A failed write of an artifact's metadata* (`bpf-registry fs.go:226`) leaves the truncated file
  behind the 500; the artifact is then served to nobody (`failed`).
- *A line of the ingest store written in part* (`visibility_store.go:259`) makes the next one unreadable, though its
  request is accepted, and keeps the service from starting again (`glued`, `down`).
- *A client that sends a draft with its history, or an item with its link*
  (`platform_misc.go:237`, `research_feed.go:66`): what it sends is stored as it is (`own`, `given`).
- *Configuration announcements* (`config-api/internal/api/handler.go:190`, `:203`) that overlap, fail or
  fall into a manager's start or refresh (`correlator/internal/config/manager.go:47`, `:224`) leave the
  manager with an older value until the next change or refresh (`cfgMissed`).
- *Labels* (`guardrails.go:94`): the canary size of `enforce` is 0, so outside a window `enforce`
  always ends as `suggest`, while a never-block label turns it into `canary` first, which is stronger.
- *A name taken over by a second connection* (`websocket-gateway server.go:244`, `:868`): the cleanup of the
  first deletes the entry of the second, which stays open and cannot be reached (`replaced`). A
  message for an agent that is not connected is answered with `queued`, and no queue exists.
- *An empty host name* (`agents.go:54`) is indexed by registration and never removed by a heartbeat
  (`agents_api.go:952`): its entry may lead to an agent that has a name by now.
- *A device named twice in one stage request* (`audit_bundles.go:336`) gets two rows, and its reports
  reach the first only (`doubled`).
- *A retired candidate that is simulated* (`detection_candidates.go:270`) goes back to `reviewed` and
  can be signed again; `CandidatesSound` allows it.
- *Overlapping updates of an artifact's hosts* (`bpf-registry file.go:301`): the later write loses the
  earlier assignment; a killed one may leave metadata that cannot be read (`disturbed`).
- *Copies of an event that overlap, or come after the tracker has forgotten the id or a restart*
  (`ingest http.go:242`, `dedupe.go:27`) are published again.
- *Two callbacks on one event* (`evaluate.go:127`): both may find the cooldown over and both report;
  the property counts one finding for each callback and cooldown. The enriched subject is subscribed
  twice (`subscriber_enhanced.go:86`), so this is the normal case.
- *Overlapping loads of the rules* (`loader.go:105`): the older one may be published last; the rules
  then lag behind the files until the next edit or reload.

### Hazards outside the models

Found while reading, with no property: a read lock taken again by a function that is called with it
held (`correlator/internal/rules/override.go:197`: a writer between the two blocks both); an expired
label deleted under a read lock (`evaluate.go:531`); the map of connections read without its lock
(`websocket-gateway server.go:767`) and the loader's map written without one (`local-agent
bpf/loader.go:108`), where the Go runtime may abort the process, which the models have as a restart;
links the loader never detaches (`bpf/loader.go:127`; `kernel` in LocalAgent is the loader's map of
programs); an eBPF intent for which the tool suggests a template without the fields expected, which
panics (`decision/internal/agents/policy_writer.go:264`); the lock of
the agent store held over calls of other services (`agent_readiness.go:426`); pending registrations
without limit (`agents.go:67`); the first three characters of a short target
(`decision/internal/agents/segmenter.go:199`); research items marshalled before the candidates that
name them (`store.go:91`; nothing reads that reference); a full telemetry channel nobody reads after a
window (`ebpf.go:272`); and `saveKeys`, which locks a mutex its callers hold
(`services/registry/signing/signer.go:107`, in code no program uses).

## 4. Proofs

The theorems say `Spec => []P` (or `Spec => P` for an action property) for any value of the constants
under the modules' named assumptions, which TLC evaluates in the runs. A theorem listed with a
property states exactly the definition its run checks; the others are its parts or lemmas about
operators. Each rests on an inductive invariant `...Inv`, which implies the property, holds initially
and is kept by each action, one lemma per action.

### What is assumed

Beyond the types and signs of the bounds: null values (`None`, `NoFile`, `NoOp`, `NoPut`, `NoRow`,
`NoArtifact`, `NoCandidate`, `Empty`, `Torn`) are not among the values they stand beside
(`NilAssumption`, `BytesAssumption`, `NoneAssumption`, `BpfRegistryAssumption`, `ConfigNullAssumption`
and others); goroutines and request handlers that are counted are finitely many (`WorkersAssumption`,
`PlansAssumption`); requests that are lists are sequences of what they list (`BuildPlansAssumption`,
`IntentsAssumption`, `IngestAssumption`, `RuleListAssumption`, `SegAssumption`,
`PlatformBundlesAssumption`); clauses are parsed JSON, so their nesting ends (`RuleEvalAssumption`); there is a
rule file and a severity (`RulesAssumption`); an age that was never taken is no number and no record
(`NeverAssumption`), and the thresholds of the readiness are ordered as the code's numbers are
(`FleetReadinessAssumption`); an ill-typed value is not among the well-typed ones, whose sign is free
(`GuardrailsAssumption`); what a client sends of a history is not the server's own
(`PlatformDraftsAssumption`); uids have a total order (`RegistryAssumption`); a rule's confidence is a percentage (`ForwardAssumption`, the loader refuses
others); no rule looks back longer than the window keeps events (`EvalAssumption`); versions are triples
of naturals (`ControllerBounds`, as `parseSemver` makes them). Nothing is assumed about the number of
processes, messages, ids, faults or steps.

### Detection packs

- **ReferencesHold** (`RefsSound`), **ReviewHolds** (`ReviewSound`). `DataInv` says that the memory and every
  snapshot on its way to the file are `Sound` (ids issued, references whole, reviews backed by a
  successful run, packs by an approval), that a marshal which has read only some of the maps would be sound
  with the others as they are now, since runs and packs only grow, and what each handler knows at its step
  (`WorkOK`: its fresh id is not used by anyone, what it approves or signs has passed). This is where
  the order of the fields of the snapshot struct matters.
- **SigningHolds** (`SigningSound`, an action property) and the part of `ReviewSound` about acknowledged
  rejections rest on `SerialInv`, for requests one at a time: one handler is busy, what it marshals is what
  is in memory, a rejection is in the state file before it is answered. It uses the invariant of
  `SnapshotFile` through the `INSTANCE`. `AckedRejectionFinal` is stated for a service that persists, or
  before its first crash: without a path nothing survives a crash.
- **PersistSafety** (`SerialPersistIsSafe`), from `PersistAtomicity`, `PersistDurability` and a refinement:
  `StoreStep` takes each step of the file to a step of `DurableStore` or to a stutter, so that
  **PersistRefinesStore** holds, `Spec /\ []~overlap => Abstract!StoreSpec`. `SerialExclusive` says that,
  while persists have not overlapped, at most one writer is busy, the file it has open is
  the one `.tmp` names and not the one `path` names, and it holds the writer's snapshot whole when the
  rename is due. The rename is the commit; the mapping needs that a writer between marshal and rename
  carries what it marshalled (`SnapInPersist`).
- **PipelineDrivesFile** says that the composition is one: every behaviour of the pipeline is, for the
  variables of its file, a behaviour of `SnapshotFile`. It carries the theorems about the file over to the
  service, and with requests one at a time **SerialServiceIsAStore** has the whole service, with its
  crashes and restarts, use the file as a `DurableStore`.
- **MatchesHold** (`MatchesSound`, with an action property). The recursion through nested clauses is unfolded by
  induction over the depth (`EvalExists`, `EvalUnfolds`). An event with a new guid leaves what is indexed as it was
  and adds to it (`BatchGrows`, `Within`); of two verdicts on such batches the later is yes if the
  earlier was, which goes through groups only because neither is an error (`GroupKept`, `MatchKept`). Neighbours
  that share no guid may be exchanged: each guid keeps its latest event (`LatestExchanged`), so the batch
  is the same one (`BatchKept`).
- **CacheTrusted** (`CacheSound`), from `OnlyVerifiedEvaluated` and `LastPackInReach`. `IInv` has two
  parts: `AllTrusted` (whatever is in a file or in the memory of the cycle was verified when it got
  there, or is torn) and `FilesInStep` (until a first fault the four files are exactly as far as the
  cycle is).
- **FirstFaultTolerated** (`OneFaultTolerated`). What can be fallen back to depends on the files alone; the
  first fault finds the last pack in reach, and a later write that spoils the previous pack ends with two
  files of one verified pack (`PackBeforeMeta`).
- **RecordHolds** (`RecordSound`, with an action property). `RecordInv` adds to `IInv` that a post made
  while falling back does not say `applied`.
- **RolloutImplementsAgent**: PackRollout implements PackAgent, since the agent neither waits for what
  becomes of a post nor looks at it; `CacheSound` follows for the two together.
- **SelectionHolds** (`SelectionSound`). The loops are proved to return a member of the candidates that no
  other beats (`BestIsCandidate`, `BestIsUnbeaten`), the latter only where the comparison is an order, which
  it is for one pack id and not across pack ids; `ControllerOrder` shows the difference. An artifact
  signed between the two requests of an agent joins the list, so the download is that of the answer or a
  newer one.

### eBPF programs

- **ProgramsAccounted** (`ProgramsSound`), from `TypeInvariance`, `NoProgramOrphaned` and
  `SerialRecordsAgree`. `NoOrphan` is inductive with the types; for the records, a row per step says
  which of them a lone goroutine has already changed.
- **LimitOverrunBounded** (`OverrunBounded`). A goroutine past the test counts as if its program were loaded;
  loaded programs and programs in hand together exceed the limit by less than the goroutines.
- **RollbackImplementsAgent**: LocalAgentRollback implements LocalAgent. Whatever the monitor, the manager,
  the orchestrator and the callbacks ask for reaches the programs as an unload of LocalAgent or not at
  all (`RollbackSteps`), and the queue keeps its bound whoever sends (`QueueKept`). With it
  **RollbackKeepsPrograms** has `ProgramsSound` and `OverrunBounded` in the composition.
- **CanaryTruthful** (`CanarySound`), from `CanaryComesFirst` and `RecordedOutcomeHolds`. `IInv`
  relates the step of each goroutine to what its groups were told (`Rows`), the ids to the book of
  records (`Book`), and the recorded status to both (`Recorded`).
- **DecisionsHold** (`DecisionsSound`), from `DecisionsNeverRaised`, `CanarySizesFit` and
  `WindowCyclic` (about an operator, no invariant). The invariant follows one call: after each rule the
  mode is not above the desired one (`Lowered`) and the size was computed from the mode and the bound last
  read (`SizeLast`), whatever the configuration is by then. A negative bound is a bound like others: the
  size is then that bound, and the theorem says that only then is it negative.
- **ChangesSettle** (`SerialSettles`). `OneChange`: a lone change is stored and not yet published; or in the
  message, whose application makes the manager's configuration what was given; or in the notification; or
  everywhere. A value of the wrong type leaves the configuration as it is, and a change whose
  publication failed leaves its key among those unheard, until a later one of that key is published.
- **PlansHold** (`PlansSound`). The budget is tested and charged in two steps, so the invariant counts: calls
  made and handlers that hold an admitted call together are at most the requests recorded
  (`AdmittedInv`, over the cardinality of `Holders`).
- **BuildsHold** (`BuildsSound`). `JobsInv` relates the controls of a plan up to the current one to the answers
  given, whether they failed or not; `DirsInv` says whose program a directory holds while none is shared.
  `PacksInv` is about the package files: one that no second build has opened and whose close did
  not fail is empty until its handler has filled it, and whole when it is uploaded.
- **RollbacksHold** (`RollbacksSound`). For operations with an id of their own the record follows the
  goroutine and the table leads to it (`OwnFollowed`); the targets are in step with the phase (`TargetsOK`).
- **TelemetryKept** (`TelemetrySound`), from `TelemetryInOrder` and `TelemetryLossesTold`. `InStep` adds
  that the channel is in order itself, behind everything delivered, and holds nothing already reported.
- **ArtifactsHold** (`ArtifactsSound`). `FilesOK` says for each request by the steps it has left which files
  are whole; `ListsOK`, for an artifact that was not disturbed, that its metadata hold the hosts of the
  acknowledged requests before the write and those of this one after it, and cannot be read after a write
  that failed.

### Events, agents and the console

- **RegistryHolds** (`RegistrySound`). The host index is inductive with the types, and an entry under the
  empty name, which is never removed, leads to an agent all the same; the pages are arithmetic
  about a list that the sort makes from a finite set (`SortedOnce`, `PageOf`, `PagesApart`).
- **GatewayHolds** (`GatewaySound`) extends that invariant with what a session's stage says of its name
  (`NamesOwned`, `CallsOwned`), that an attached session is found (`AttachedFound`) and that a message
  looked up and not yet written is for the device of its session (`MailOwned`).
- **FindingsHold** (`FindingsSound`). `JobsInv` is what a callback carries between looking a cooldown up and
  recording it: its own earlier findings of the key are a cooldown back (`Spaced`), which no other callback
  can change, and the prior event is in the history even if the window has dropped it (`Backed`). A rule whose
  `any_of` matched nothing triggers too, as in the code, so only findings of the other rules rest on one.
- **ForwardingHolds** (`ForwardingSound`): what a callback works on at a stage has passed those before.
- **IngestHolds** (`IngestSound`). `RequestsInv` says which events of its batch a request has published or
  found known; `OnceInv`, while the tracker could know, that a published event is tracked or about to
  be; `IndexInv` how far the index is behind: by one event for each kill and each operation of the store
  that failed, where events that name no device do not count.
- **CandidatesHold** (`CandidatesSound`), **DraftsHold** (`DraftsSound`). Entries of lists that are cut at a
  limit: ids increase, the newest entry about a candidate shows its status (`LastTells`), and between any two
  entries of a history every changed field is named (`Named`), which survives the cut as it stands. What a
  client sent along, a link (`given`) or a history (entries that are not `own`), is told apart and nothing
  is claimed of it.
- **BundlesAreSound** (`BundlesSound`, with an action property). `RowsOK` relates the rows of a bundle to the last
  words of its devices, one row each unless named twice; staging adds rows for devices that have none
  (`StagedRows`), a report changes the first row of its device (`ReportedRows`). No two bundles share an
  id, since ids count up.
- **ReadinessIsSound** (`ReadinessSound`, with an action property). The answer is a function of six graded
  dimensions, whose possible values are finitely many although ages and thresholds are not (`Graph`,
  `GraphAlways`); with time no dimension improves, and the bucket follows them (`NeglectStep`).
- **RulesAreRead**, the safety part of `RulesFollowFiles`. The loop over the files is unfolded by induction
  (`LoadedLastWins`); what a load has read since the last edit is what the files say (`ReadOK`); `OnItsWay` says of a modification the watcher has seen that a signal, the timer or a
  load is still to come, that it has been read, or that the poll or the load gave it up after an error
  (`givenUp`).
- **SegmentationIsSound** (`SegmentsSound`). Sums over the keys of a map do not depend on the order
  (`SumsSplit`, `SumsAgree`), so that a flow added to a connection adds its bytes once (`NoTrafficLost`); the
  segments of each strategy are counted host by host (`MicroSegments`, `ZeroTrustSegments`); a sorted
  permutation begins with an empty proposal if there is one (`RankedPermutes`).
- **HarnessHolds** (`HarnessSound`). Jobs and runs are two lists cut alike (`Paired`); a run in flight while
  external models are allowed has consent, and so has one that has read that they were.
- **ConfigHolds** (`ConfigSound`). `FollowInv`: for a key it has not missed, the manager has heard of the
  newest row, or an announcement of it is still to come.

Loops over lists are recursive functions, and so are the sums over maps and the evaluation of nested
clauses. What they return for a list of any length, a set of any size or a clause of any depth is proved by
`SetInduction` (`Filtering_proofs`): the numbers for which a claim fails are a set of naturals, and a
well-founded order gives it a least member; no theorem that takes an operator is needed.

### Only model-checked

The liveness properties, since fairness and `ENABLED` are outside the prover's reach: `Converges`,
`StatusConverges`, `TTLEnforced`, `BadProgramsGo`, `ValidationConcludes`, `RolloutConcludes`,
`QueuedIsDecided`, `RulesFollowFiles` and `RollbackConcludes`. The safety parts of `BadProgramsGo` (the types
and the bound of the queue) and of `RulesFollowFiles` are proved, as above. Every invariant and every action
property of a passing run is a theorem, or a part of one.

## 5. Not modelled

- **Linux agent rule evaluation, schema check and collection; Windows and macOS agents**: parsing and
  operating system calls without shared state. The Windows agent's `dynamic_pack` directory is the
  Linux agent's up to names, so `PackAgent` speaks of it too.
- **local-agent** shutdown, HTTP status and systemd; the part of `telemetry` that only formats.
- **orchestrator** telemetry subscriber (counts and forwards), templates, the listener that calls
  `ApplyCanary` when a plan is updated.
- **ingest** evidence, path and ABOM queries, **actions-api** summaries and metrics: read-only views
  over state that is modelled.
- **websocket-gateway** router channels (nothing subscribes to them) and the cryptography of its
  authentication; keys and signatures everywhere are a yes or a no.
- **detection-pipeline** schema check, signatures and clients; **decision** tool implementations and
  model clients: pure functions and HTTP clients, free choices in the models.
- **backend/services/registry and collector**: the handlers of the registry do not compile and no main
  program uses them; the collector only forwards.
- **etl-enrich, backend/internal, cmd/admin, shared libraries**: lookups, SQL and command lines.
- **User interface, templates, schemas, infrastructure**: presentation and data.

## 6. Plan

Done: the modules of section 2 with the runs of section 3 and the proofs of section 4.

Next: the local agent's shutdown, with the programs it leaves in the kernel, and the orchestrator's
telemetry subscriber composed with CanaryRollout.
