----------------------------- MODULE Guardrails -----------------------------
(***************************************************************************)
(* The guardrails of the decision service and their live configuration     *)
(* (backend/decision/internal/guardrails/guardrails.go and                 *)
(* internal/config/manager.go, started by cmd/decision/main.go).           *)
(*                                                                         *)
(* DecideStrategy is four rules in a row, each of which may lower the      *)
(* strategy a caller desires.  It reads the configuration through a        *)
(* pointer at two places, without a lock, while the configuration manager  *)
(* replaces it: every change makes the manager start a goroutine that      *)
(* hands the new snapshot to the guardrails.                               *)
(*                                                                         *)
(* A configuration is the bound on canary hosts and the labels never to    *)
(* block; the TTL, which is only copied into the decision, is left out.    *)
(* Labels are compared by substring in the code; Matches says which host   *)
(* label matches which configured one.  The config service stores any JSON *)
(* value: IllTyped stands for one of the wrong type, and for no row at all. *)
(* A null is the zero value, as it is when it is read.  What is published   *)
(* is delivered in order; a change that cannot be published is only logged. *)
(***************************************************************************)
EXTENDS Integers, Sequences

CONSTANTS
    Labels,         \* labels of hosts and of the configuration
    Matches,        \* pairs <<host label, configured label>> that match
    Maxes,          \* values of decision.max_canary_hosts, negative ones too
    IllTyped,       \* a stored value of the wrong type
    Defaults,       \* what the client puts in its place
    EnvDefaults,    \* what main takes from the environment
    Desires,        \* words a caller may desire
    MaxTargets,     \* bound on the number of targets of a plan
    Hours,          \* hours of a day (24 in the code)
    MaxChanges      \* bound on configuration changes

Config == [max : Maxes, labels : SUBSET Labels]

ASSUME GuardrailsAssumption ==
    /\ Matches \subseteq Labels \X Labels
    /\ Maxes \subseteq Int
    /\ IllTyped \notin Maxes /\ \A labels \in SUBSET Labels : labels # IllTyped
    /\ Defaults \in Config /\ EnvDefaults \in Config
    /\ MaxTargets \in Nat
    /\ Hours \in Nat \ {0}
    /\ MaxChanges \in Nat

VARIABLES
    api,            \* the rows in the config service
    puts,           \* changes that are stored and not yet published
    live,           \* has the manager subscribed to config.changed?
    inbox,          \* config.changed messages on their way
    boot,           \* how far main has come
    current,        \* Manager.currentConfig
    pending,        \* notifications: goroutines that have not run yet
    gconfig,        \* Guardrails.config
    req,            \* the DecideStrategy call in progress or last answered
    changes,        \* configuration changes so far
    typed,          \* history: the last well-typed value of each key, or its default
    unheard,        \* history: keys whose last well-typed change was not published
    early,          \* history: a change came during the start, or the start
                    \* fell back to the environment or could not subscribe
    raced           \* history: one came before the last had reached the guardrails

change == <<api, puts, changes, typed, raced>>
vars == <<change, live, inbox, boot, current, pending, gconfig, req, unheard, early>>

Modes == {"observe", "suggest", "canary", "enforce", "conservative", "balanced", "aggressive"}
Keys == {"max", "labels"}
Rows == [max : Maxes \union {IllTyped}, labels : (SUBSET Labels) \union {IllTyped}]
Message == [n : 1 .. MaxChanges, key : Keys, row : Rows]
Snapshot == [n : 1 .. MaxChanges, config : Config]
Call == [at : {"labels", "size", "done"}, desired : Modes, mode : Modes,
         num : 0 .. MaxTargets, hosts : SUBSET Labels, size : Int, max : Int]
NoCall == [at |-> "none"]

(***************************************************************************)
(* The rules.                                                              *)
(***************************************************************************)
IsMaintenanceWindowActive(start, end, hour) ==
    IF start <= end THEN start <= hour /\ hour < end
                    ELSE start <= hour \/ hour < end

\* What the check of the window can answer, over all windows and hours.
WindowStates ==
    {active \in BOOLEAN : \E start, end, hour \in 0 .. Hours - 1 :
        active = IsMaintenanceWindowActive(start, end, hour)}

\* parseStrategy: an unknown word means suggest.
ParseStrategy(word) == IF word \in Modes THEN word ELSE "suggest"

DowngradeForMaintenance(mode) ==
    CASE mode = "enforce" -> "canary"
      [] mode = "canary" -> "suggest"
      [] mode = "aggressive" -> "balanced"
      [] mode = "balanced" -> "conservative"
      [] mode = "conservative" -> "suggest"
      [] OTHER -> "observe"

HasNeverBlockLabels(hosts, labels) == \E h \in hosts, l \in labels : <<h, l>> \in Matches

\* Mutant: everything is capped at canary, from below too.
CapForNeverBlock_Always(mode) == "canary"

CapForNeverBlock(mode) == IF mode \in {"enforce", "aggressive"} THEN "canary" ELSE mode

CalculateCanarySize(mode, num, max) ==
    CASE mode # "canary" \/ max = 0 -> 0
      [] mode = "canary" /\ max # 0 /\ num > max -> max
      [] mode = "canary" /\ max # 0 /\ num <= max -> num

\* Rule 3: without canary hosts, enforce and canary become suggest.
ApplySize(mode, size) == IF size = 0 /\ mode \in {"enforce", "canary"} THEN "suggest" ELSE mode

-----------------------------------------------------------------------------
TypeOK ==
    /\ api \in Rows
    /\ puts \subseteq Message
    /\ live \in BOOLEAN
    /\ inbox \in Seq(Message)
    /\ boot \in {"load", "subscribe", "handOver", "attach", "run"}
    /\ current \in Config
    /\ pending \subseteq Snapshot
    /\ gconfig \in Config
    /\ req \in Call \union {NoCall}
    /\ changes \in 0 .. MaxChanges
    /\ typed \in Config /\ unheard \subseteq Keys
    /\ early \in BOOLEAN /\ raced \in BOOLEAN

(***************************************************************************)
(* Reading a value: one of the wrong type leaves what was there.           *)
(***************************************************************************)
Typed(value, old) == IF value = IllTyped THEN old ELSE value
AsConfig(rows, old) == [max |-> Typed(rows.max, old.max), labels |-> Typed(rows.labels, old.labels)]

Init ==
    /\ api \in Rows
    /\ puts = {}
    /\ live = FALSE
    /\ inbox = <<>>
    /\ boot = "load"
    /\ current = Defaults
    /\ pending = {}
    /\ gconfig = Defaults
    /\ req = NoCall
    /\ changes = 0
    /\ typed = AsConfig(api, Defaults) /\ unheard = {}
    /\ early = FALSE /\ raced = FALSE

(***************************************************************************)
(* handleSetConfig: someone changes one key.  The row is stored, then the  *)
(* change is published; messages reach the manager once it has subscribed. *)
(***************************************************************************)
ChangeConfig(rows) ==
    LET key == IF rows.max = api.max THEN "labels" ELSE "max"
    IN  /\ changes < MaxChanges
        /\ rows # api /\ (rows.max = api.max \/ rows.labels = api.labels)
        /\ api' = rows
        /\ changes' = changes + 1
        /\ puts' = puts \union {[n |-> changes + 1, key |-> key, row |-> rows]}
        /\ typed' = AsConfig(rows, typed)
        /\ early' = (early \/ boot # "run")
        /\ raced' = (raced \/ puts # {} \/ inbox # <<>> \/ pending # {})
        /\ UNCHANGED <<live, inbox, boot, current, pending, gconfig, req, unheard>>

Value(m) == IF m.key = "max" THEN m.row.max ELSE m.row.labels

PublishConfig(m) ==
    /\ m \in puts
    /\ puts' = puts \ {m}
    /\ inbox' = IF live THEN Append(inbox, m) ELSE inbox
    /\ unheard' = IF Value(m) = IllTyped THEN unheard ELSE unheard \ {m.key}
    /\ UNCHANGED <<api, changes, typed, raced, live, boot, current, pending, gconfig, req, early>>

\* The error is logged, and the request is answered as if all were well.
PublishConfigFails(m) ==
    /\ m \in puts
    /\ puts' = puts \ {m}
    /\ unheard' = unheard \union {m.key}
    /\ UNCHANGED <<api, changes, typed, raced, live, inbox, boot, current, pending, gconfig, req,
                   early>>

(***************************************************************************)
(* The start: Manager.Initialize loads a snapshot, then subscribes; main   *)
(* hands the snapshot over, then attaches the guardrails to the manager.   *)
(***************************************************************************)
LoadSnapshot ==
    /\ boot = "load"
    /\ current' = AsConfig(api, Defaults)
    /\ boot' = "subscribe"
    /\ UNCHANGED <<change, live, inbox, pending, gconfig, req, unheard, early>>

\* GetSnapshotWithFallback: the config service does not answer.
LoadFallback ==
    /\ boot = "load"
    /\ current' = EnvDefaults
    /\ boot' = "subscribe"
    /\ early' = TRUE
    /\ UNCHANGED <<change, live, inbox, pending, gconfig, req, unheard>>

SubscribeToConfigChanges ==
    /\ boot = "subscribe"
    /\ boot' = "handOver"
    /\ live' = TRUE
    /\ UNCHANGED <<change, inbox, current, pending, gconfig, req, unheard, early>>

\* main logs the error and goes on without live changes.
SubscribeFails ==
    /\ boot = "subscribe"
    /\ boot' = "handOver"
    /\ early' = TRUE
    /\ UNCHANGED <<change, live, inbox, current, pending, gconfig, req, unheard>>

HandOver ==
    /\ boot = "handOver"
    /\ gconfig' = current
    /\ boot' = "attach"
    /\ UNCHANGED <<change, live, inbox, current, pending, req, unheard, early>>

Attach ==
    /\ boot = "attach"
    /\ boot' = "run"
    /\ UNCHANGED <<change, live, inbox, current, pending, gconfig, req, unheard, early>>

(***************************************************************************)
(* handleConfigChange: the change is applied to a copy of the current      *)
(* configuration, and a goroutine is started for each subscriber.          *)
(***************************************************************************)
ApplyConfigChange(config, m) ==
    IF m.key = "max" THEN [config EXCEPT !.max = Typed(m.row.max, @)]
                     ELSE [config EXCEPT !.labels = Typed(m.row.labels, @)]

\* Mutant: the subscribers are not notified.
HandleConfigChange_Silent ==
    /\ inbox # <<>>
    /\ current' = ApplyConfigChange(current, Head(inbox))
    /\ inbox' = Tail(inbox)
    /\ UNCHANGED <<change, live, boot, pending, gconfig, req, unheard, early>>

HandleConfigChange ==
    /\ inbox # <<>>
    /\ current' = ApplyConfigChange(current, Head(inbox))
    /\ pending' = IF boot = "run"
                  THEN pending \union {[n |-> Head(inbox).n, config |-> current']} ELSE pending
    /\ inbox' = Tail(inbox)
    /\ UNCHANGED <<change, live, boot, gconfig, req, unheard, early>>

UpdateConfig(p) ==
    /\ p \in pending
    /\ gconfig' = p.config
    /\ pending' = pending \ {p}
    /\ UNCHANGED <<change, live, inbox, boot, current, req, unheard, early>>

(***************************************************************************)
(* DecideStrategy: rule 1, then rule 2 with the labels of one read of the  *)
(* configuration, then rule 3 with the bound of another.                   *)
(***************************************************************************)
Begin(word, active, num, hosts) ==
    LET desired == ParseStrategy(word)
    IN  /\ boot = "run"
        /\ req.at \in {"none", "done"}
        /\ req' = [at |-> "labels", desired |-> desired, num |-> num,
                   hosts |-> hosts, size |-> 0, max |-> 0,
                   mode |-> IF active THEN DowngradeForMaintenance(desired) ELSE desired]
        /\ UNCHANGED <<change, live, inbox, boot, current, pending, gconfig, unheard, early>>

\* The labels of the hosts are not looked at again.
ReadLabels ==
    /\ req.at = "labels"
    /\ req' = [req EXCEPT !.at = "size", !.hosts = {},
                          !.mode = IF HasNeverBlockLabels(req.hosts, gconfig.labels)
                                   THEN CapForNeverBlock(@) ELSE @]
    /\ UNCHANGED <<change, live, inbox, boot, current, pending, gconfig, unheard, early>>

ReadMax ==
    LET size == CalculateCanarySize(req.mode, req.num, gconfig.max)
    IN  /\ req.at = "size"
        /\ req' = [req EXCEPT !.at = "done", !.mode = ApplySize(@, size), !.size = size,
                              !.max = gconfig.max]
        /\ UNCHANGED <<change, live, inbox, boot, current, pending, gconfig, unheard, early>>

Next ==
    \/ \E rows \in Rows : ChangeConfig(rows)
    \/ \E m \in puts : PublishConfig(m) \/ PublishConfigFails(m)
    \/ LoadSnapshot \/ LoadFallback \/ SubscribeToConfigChanges \/ SubscribeFails
    \/ HandOver \/ Attach
    \/ HandleConfigChange
    \/ \E p \in pending : UpdateConfig(p)
    \/ \E word \in Desires, active \in WindowStates,
          num \in 0 .. MaxTargets, hosts \in SUBSET Labels : Begin(word, active, num, hosts)
    \/ ReadLabels
    \/ ReadMax

Spec == Init /\ [][Next]_vars
-----------------------------------------------------------------------------
Done == req.at = "done"

(***************************************************************************)
(* The ways a rule may lower a mode, one or more steps at a time           *)
(* (guardrails.go:75, 83, 94 and the comments on their functions).         *)
(***************************************************************************)
NotAbove(mode) ==
    CASE mode = "observe" -> {"observe"}
      [] mode = "suggest" -> {"suggest", "observe"}
      [] mode = "canary" -> {"canary", "suggest", "observe"}
      [] mode = "enforce" -> {"enforce", "canary", "suggest", "observe"}
      [] mode = "conservative" -> {"conservative", "suggest", "observe"}
      [] mode = "balanced" -> {"balanced", "conservative", "suggest", "observe"}
      [] mode = "aggressive" -> Modes \ {"enforce"}

(***************************************************************************)
(* A decision never raises the desired strategy, whatever configuration    *)
(* changes happen while it is made.                                        *)
(***************************************************************************)
NeverRaised == Done => req.mode \in NotAbove(req.desired)

(***************************************************************************)
(* A canary decision has a size, no more than there are targets or than    *)
(* the configuration it read allows, and no other decision has one.  Only  *)
(* a negative maximum makes a negative size: nothing refuses one, and it   *)
(* is passed on as it is.                                                  *)
(***************************************************************************)
CanaryFits ==
    Done => IF req.mode = "canary"
            THEN /\ req.size # 0 /\ req.size <= req.num /\ req.size <= req.max
                 /\ req.size < 0 => req.size = req.max
            ELSE req.size = 0

(***************************************************************************)
(* The maintenance window is the hours from start on, around midnight, up  *)
(* to end: hour h is in it when it comes before end, counted from start.   *)
(* So it is for every decision, once the service decides at all.           *)
(***************************************************************************)
FromStart(start, hour) == (hour + Hours - start) % Hours
Cyclic ==
    \A start, end, hour \in 0 .. Hours - 1 :
       IsMaintenanceWindowActive(start, end, hour)
          <=> FromStart(start, hour) < FromStart(start, end)
WindowIsCyclic == boot = "run" => Cyclic

(***************************************************************************)
(* When every change was published or has failed to be, and what was       *)
(* published is delivered and handled, the guardrails use the last         *)
(* well-typed value the config service was given for each key, or the      *)
(* default (99_config_integration.md:3): a value of the wrong type, though *)
(* stored, changes nothing.  Not for a key whose last well-typed change    *)
(* could not be published, and only as long as no change came close after  *)
(* another, nor during a start, and the start went well.                   *)
(***************************************************************************)
Agree(config, missing) ==
    /\ "max" \notin missing => config.max = typed.max
    /\ "labels" \notin missing => config.labels = typed.labels
Quiet == boot = "run" /\ puts = {} /\ inbox = <<>> /\ pending = {}
SerialSettles == ~early /\ ~raced /\ Quiet => Agree(gconfig, unheard)

(* Whatever the two reads of the configuration see, a decision is not      *)
(* above the desired one, its canary fits, and the window it looked at is  *)
(* a cyclic interval.                                                      *)
DecisionsSound ==
    /\ TypeOK
    /\ NeverRaised
    /\ CanaryFits
    /\ WindowIsCyclic
=============================================================================
