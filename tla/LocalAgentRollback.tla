------------------------- MODULE LocalAgentRollback -------------------------
(***************************************************************************)
(* Telemetry-driven rollback in the local agent: TelemetryMonitor          *)
(* (internal/telemetry/monitor.go) and RollbackManager                     *)
(* (internal/rollback/manager.go) over the programs of LocalAgent.         *)
(*                                                                         *)
(* A telemetry report is "ok" or "bad" (some threshold is exceeded; both   *)
(* components have the same thresholds).  The monitor keeps the last       *)
(* report of every artifact and never forgets one; the manager keeps it in *)
(* the program it knows.  Either asks for a rollback by an event in the    *)
(* manager's queue, which drops it when full; one loop takes the events    *)
(* out and starts an unload.  The monitor also starts its callback         *)
(* goroutine, handleTelemetryThreshold, which hands the same bad report to *)
(* the monitor again.                                                      *)
(*                                                                         *)
(* A check of the registered programs and the event it leads to are one    *)
(* step: an event sent after the program is gone is one that waits in the  *)
(* queue, which happens anyway.                                            *)
(***************************************************************************)
EXTENDS LocalAgent, Sequences

CONSTANTS
    Updaters,       \* goroutines in UpdateTelemetry; bounds how many run at once
    MaxQueue,       \* capacity of rollbackQueue (100 in the code)
    MaxCalls,       \* bound on the callback goroutines counted per artifact
    MaxReports      \* bound on telemetry reports and outside requests

ASSUME RollbackAssumption ==
    /\ MaxQueue \in Nat \ {0}
    /\ MaxCalls \in Nat \ {0}
    /\ MaxReports \in Nat

VARIABLES
    mon,            \* TelemetryMonitor.monitoringData
    tel,            \* Telemetry of the registered program
    queue,          \* RollbackManager.rollbackQueue
    calls,          \* handleTelemetryThreshold goroutines that have not run
    upd,            \* the goroutines in TelemetryMonitor.UpdateTelemetry
    reports         \* telemetry reports and outside requests so far

rollbackVars == <<mon, tel, queue, calls, upd, reports>>
allVars == <<vars, rollbackVars>>

Reports == {"ok", "bad"}
Updating == [at : {"idle", "trigger", "manager"}, art : Arts \union {None}, report : Reports]
NotUpdating == [at |-> "idle", art |-> None, report |-> "ok"]

RollbackTypeOK ==
    /\ TypeOK
    /\ mon \in [Arts -> Reports \union {"none"}]
    /\ tel \in [Arts -> Reports]
    /\ queue \in Seq(Arts) /\ Len(queue) <= MaxQueue
    /\ calls \in [Arts -> 0 .. MaxCalls]
    /\ upd \in [Updaters -> Updating]
    /\ reports \in 0 .. MaxReports

RollbackInit ==
    /\ Init
    /\ mon = [a \in Arts |-> "none"]
    /\ tel = [a \in Arts |-> "ok"]
    /\ queue = <<>>
    /\ calls = [a \in Arts |-> 0]
    /\ upd = [u \in Updaters |-> NotUpdating]
    /\ reports = 0

(***************************************************************************)
(* A load or an unload takes a step.  A newly registered program has no    *)
(* telemetry yet.                                                          *)
(***************************************************************************)
ProgramStep(w) ==
    /\ Proceed(w)
    /\ tel' = IF at[w] = "register" THEN [tel EXCEPT ![art[w]] = "ok"] ELSE tel
    /\ UNCHANGED <<mon, queue, calls, upd, reports>>

ProgramStart(w, a) ==
    /\ ProcessArtifact(w, a) \/ TimerFires(w, a) \/ CheckTTLExpiration(w, a)
    /\ UNCHANGED rollbackVars

(***************************************************************************)
(* triggerRollback of the manager: a non-blocking send.  RequestRollback   *)
(* asks for a registered program.                                          *)
(***************************************************************************)
TriggerRollback(a) == queue' = IF Len(queue) < MaxQueue THEN Append(queue, a) ELSE queue

RequestRollback(a) == IF a \in registered THEN TriggerRollback(a) ELSE UNCHANGED queue

\* triggerRollback of the monitor: start the callback, then ask the manager.
MonitorTrigger(a) ==
    /\ calls' = [calls EXCEPT ![a] = IF @ < MaxCalls THEN @ + 1 ELSE @]
    /\ RequestRollback(a)

(***************************************************************************)
(* TelemetryMonitor.UpdateTelemetry: record the report, act on a bad one,  *)
(* hand it to the manager.  Called for a NATS message and by the callback. *)
(***************************************************************************)
BeginUpdate(u, a, report) ==
    /\ upd[u].at = "idle"
    /\ mon' = [mon EXCEPT ![a] = report]
    /\ upd' = [upd EXCEPT ![u] = [at |-> IF report = "bad" THEN "trigger" ELSE "manager",
                                  art |-> a, report |-> report]]

HandleTelemetryEvent(u, a, report) ==
    /\ reports < MaxReports
    /\ reports' = reports + 1
    /\ BeginUpdate(u, a, report)
    /\ UNCHANGED <<vars, tel, queue, calls>>

HandleTelemetryThreshold(u, a) ==
    /\ calls[a] > 0
    /\ calls' = [calls EXCEPT ![a] = @ - 1]
    /\ BeginUpdate(u, a, "bad")
    /\ UNCHANGED <<vars, tel, queue, reports>>

UpdateTrigger(u) ==
    /\ upd[u].at = "trigger"
    /\ MonitorTrigger(upd[u].art)
    /\ upd' = [upd EXCEPT ![u].at = "manager"]
    /\ UNCHANGED <<vars, mon, tel, reports>>

\* RollbackManager.UpdateTelemetry, under its lock.
UpdateManager(u) ==
    LET a == upd[u].art
    IN  /\ upd[u].at = "manager"
        /\ tel' = IF a \in registered THEN [tel EXCEPT ![a] = upd[u].report] ELSE tel
        /\ IF upd[u].report = "bad" THEN RequestRollback(a) ELSE UNCHANGED queue
        /\ upd' = [upd EXCEPT ![u] = NotUpdating]
        /\ UNCHANGED <<vars, mon, calls, reports>>

Update(u) == UpdateTrigger(u) \/ UpdateManager(u)

(***************************************************************************)
(* The tickers: checkAllPrograms of the monitor looks at every report it   *)
(* has, that of the manager at the programs it knows.                      *)
(***************************************************************************)
MonitorTick(a) ==
    /\ mon[a] = "bad"
    /\ MonitorTrigger(a)
    /\ UNCHANGED <<vars, mon, tel, upd, reports>>

ManagerTick(a) ==
    /\ a \in registered
    /\ tel[a] = "bad"
    /\ TriggerRollback(a)
    /\ UNCHANGED <<vars, mon, tel, calls, upd, reports>>

(***************************************************************************)
(* handleOrchestratorSignal sends an event for any artifact (a request of  *)
(* an operator over HTTP only for a registered one).                       *)
(***************************************************************************)
HandleOrchestratorSignal(a) ==
    /\ reports < MaxReports
    /\ reports' = reports + 1
    /\ TriggerRollback(a)
    /\ UNCHANGED <<vars, mon, tel, calls, upd>>

(***************************************************************************)
(* processRollbackEvent: an event of a registered program starts an unload *)
(* (handleRollbackEvent), any other is only reported as failed.            *)
(***************************************************************************)
\* Mutant: the event is taken out and no callback started.
ProcessRollbackEvent_NoCallback(w) ==
    /\ queue # <<>>
    /\ at[w] = "idle"
    /\ queue' = Tail(queue)
    /\ UNCHANGED <<vars, mon, tel, calls, upd, reports>>

ProcessRollbackEvent(w) ==
    /\ queue # <<>>
    /\ at[w] = "idle"
    /\ queue' = Tail(queue)
    /\ IF Head(queue) \in registered THEN HandleRollbackEvent(w, Head(queue))
                                     ELSE UNCHANGED vars
    /\ UNCHANGED <<mon, tel, calls, upd, reports>>

RollbackNext ==
    \/ \E w \in Workers :
          \/ ProgramStep(w)
          \/ \E a \in Arts : ProgramStart(w, a)
          \/ ProcessRollbackEvent(w)
    \/ \E u \in Updaters :
          \/ Update(u)
          \/ \E a \in Arts :
                \/ \E report \in Reports : HandleTelemetryEvent(u, a, report)
                \/ HandleTelemetryThreshold(u, a)
    \/ \E a \in Arts : MonitorTick(a) \/ ManagerTick(a) \/ HandleOrchestratorSignal(a)

RollbackSpec == RollbackInit /\ [][RollbackNext]_allVars

(***************************************************************************)
(* Goroutines that can run do run, a callback that was started runs, the   *)
(* manager's ticker keeps ticking and its loop keeps taking events out.    *)
(* Strong fairness keeps the bounds on goroutines out of the argument.     *)
(***************************************************************************)
RollbackFairness ==
    /\ \A w \in Workers : WF_allVars(ProgramStep(w))
    /\ \A u \in Updaters : WF_allVars(Update(u))
    /\ \A a \in Arts : SF_allVars(\E u \in Updaters : HandleTelemetryThreshold(u, a))
    /\ \A a \in Arts : WF_allVars(ManagerTick(a))
    /\ SF_allVars(\E w \in Workers : ProcessRollbackEvent(w))
RollbackFairSpec == RollbackSpec /\ RollbackFairness
-----------------------------------------------------------------------------
(***************************************************************************)
(* A registered program that has reported a threshold exceeded is          *)
(* unloaded, although events are dropped at a full queue, good reports may *)
(* follow, and loads, unloads and reports interleave (README.md:13); as    *)
(* long as no load and unload of this artifact have overlapped.            *)
(***************************************************************************)
RollbackHappens ==
    \A a \in Arts :
       a \in registered /\ tel[a] = "bad" /\ a \notin overlap
          ~> a \notin loaded \/ a \in overlap

(* The rollback of bad programs works at the limit of its queue: the queue *)
(* keeps its bound, and what a full queue drops is made good.              *)
BadProgramsGo ==
    /\ []RollbackTypeOK
    /\ RollbackHappens
=============================================================================
