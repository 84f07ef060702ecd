---------------------------- MODULE ConfigService ----------------------------
(***************************************************************************)
(* config-api and a configuration manager that follows it.  A PUT upserts  *)
(* a row of app_config, then announces it on config.changed; an            *)
(* announcement that cannot be published is only logged.  The manager of   *)
(* the correlator (the decision engine's is the same code with other keys) *)
(* loads all rows, then subscribes, then applies announcements in the      *)
(* order in which they arrive, without looking at their timestamps.        *)
(***************************************************************************)
EXTENDS Naturals, Sequences, FiniteSets

CONSTANTS CfgWorkers,    \* concurrent PUT requests
          CfgKeys,       \* keys the manager knows
          CfgValues,     \* well-typed values
          MaxPuts,       \* bound: PUT requests
          MaxCfgFaults,  \* bound: restarts, failed publishes, failed queries
          MaxRefresh,    \* bound: calls of Refresh
          NoPut, NoRow, NoFetch

VARIABLES cfgDb,         \* CfgKeys -> row [value, put] of app_config
          cfgPut,        \* CfgWorkers -> PUT in progress
          cfgBus,        \* announcements on their way to the manager, in order
          cfgMgr,        \* manager: "down", "loaded" or "ready"
          cfgView,       \* CfgKeys -> [value, put]: Manager.currentConfig
          cfgFetch,      \* snapshot Refresh has read and not yet installed
          cfgPuts, cfgFaults, cfgRefreshes,
          cfgTold,       \* ghost: CfgKeys -> newest PUT announced
          cfgMissed      \* ghost: keys whose newest row the manager may lack

putVars == <<cfgDb, cfgPut, cfgPuts>>
mgrVars == <<cfgMgr, cfgView, cfgFetch, cfgRefreshes>>
cfgVars == <<putVars, mgrVars, cfgBus, cfgFaults, cfgTold, cfgMissed>>

ASSUME ConfigServiceAssumption ==
    /\ {MaxPuts, MaxCfgFaults, MaxRefresh} \subseteq Nat
    /\ CfgValues \cap {"null", "illtyped", "zero", "default", "env"} = {}

(* Any JSON value is stored; the manager knows the type of each key.       *)
Sendable == CfgValues \cup {"null", "illtyped"}

ASSUME ConfigNullAssumption ==
    /\ NoPut \notin [key : CfgKeys, value : Sendable, put : Nat]
    /\ NoRow \notin [value : Sendable, put : Nat]

(* json.Unmarshal: null leaves the zero value without an error, a value of *)
(* another type is an error and the field keeps what it had.               *)
ParsedOr(value, old) == CASE value = "illtyped" -> old
                          [] value = "null" -> "zero"
                          [] OTHER -> value

ConfigInit ==
    /\ cfgDb = [k \in CfgKeys |-> NoRow]
    /\ cfgPut = [w \in CfgWorkers |-> NoPut]
    /\ cfgBus = << >>
    /\ cfgMgr = "down"
    /\ cfgView = [k \in CfgKeys |-> [value |-> "env", put |-> 0]]
    /\ cfgFetch = NoFetch
    /\ cfgPuts = 0 /\ cfgFaults = 0 /\ cfgRefreshes = 0
    /\ cfgTold = [k \in CfgKeys |-> 0]
    /\ cfgMissed = {}

RowPut(k) == IF cfgDb[k] = NoRow THEN 0 ELSE cfgDb[k].put

(* GET /config, read into a snapshot over the built-in defaults.           *)
GetSnapshot ==
    [k \in CfgKeys |->
        [value |-> IF cfgDb[k] = NoRow THEN "default"
                   ELSE ParsedOr(cfgDb[k].value, "default"),
         put |-> RowPut(k)]]
-----------------------------------------------------------------------------
(* handleSetConfig up to the database: the row is replaced whatever it was. *)
Upsert(row, new) == new

SetConfig(w, k, v) ==
    /\ cfgPut[w] = NoPut
    /\ cfgPuts < MaxPuts
    /\ cfgPuts' = cfgPuts + 1
    /\ cfgDb' = [cfgDb EXCEPT ![k] = Upsert(@, [value |-> v, put |-> cfgPuts + 1])]
    /\ cfgPut' = [cfgPut EXCEPT ![w] = [key |-> k, value |-> v, put |-> cfgPuts + 1]]
    /\ cfgMissed' = cfgMissed \ {k}
    /\ UNCHANGED <<mgrVars, cfgBus, cfgFaults, cfgTold>>

(* The query fails: 500, and nothing is announced.                         *)
FailedPut(w) == cfgPut

SetConfigFails(w) ==
    /\ cfgPut[w] = NoPut
    /\ cfgPuts < MaxPuts /\ cfgFaults < MaxCfgFaults
    /\ cfgFaults' = cfgFaults + 1
    /\ cfgPuts' = cfgPuts + 1
    /\ cfgPut' = FailedPut(w)
    /\ UNCHANGED <<cfgDb, mgrVars, cfgBus, cfgTold, cfgMissed>>

(* The announcement reaches a manager that has subscribed.  One published   *)
(* before Subscribe, or when no announcement of the newer row is to follow, *)
(* leaves it behind.                                                       *)
Overtaken(p) ==
    /\ p.put < RowPut(p.key)
    /\ ~ \E w \in CfgWorkers : /\ cfgPut[w] # NoPut /\ cfgPut[w].key = p.key
                              /\ cfgPut[w].put > p.put
Behind(p) == \/ cfgMgr = "ready" /\ Overtaken(p)
             \/ cfgMgr = "loaded" /\ p.put > cfgView[p.key].put

PublishChange(w) ==
    /\ cfgPut[w] # NoPut
    /\ LET p == cfgPut[w] IN
       /\ cfgBus' = IF cfgMgr = "ready" THEN Append(cfgBus, p) ELSE cfgBus
       /\ cfgTold' = [cfgTold EXCEPT ![p.key] = IF p.put > @ THEN p.put ELSE @]
       /\ cfgMissed' = IF Behind(p) THEN cfgMissed \cup {p.key} ELSE cfgMissed
    /\ cfgPut' = [cfgPut EXCEPT ![w] = NoPut]
    /\ UNCHANGED <<cfgDb, cfgPuts, mgrVars, cfgFaults>>

(* Publish fails and is logged; the request still answers 200.             *)
PublishFails(w) ==
    /\ cfgPut[w] # NoPut /\ cfgFaults < MaxCfgFaults
    /\ cfgFaults' = cfgFaults + 1
    /\ cfgPut' = [cfgPut EXCEPT ![w] = NoPut]
    /\ cfgMissed' = cfgMissed \cup {cfgPut[w].key}
    /\ UNCHANGED <<cfgDb, cfgPuts, mgrVars, cfgBus, cfgTold>>

(* config-api is killed: rows stored and not yet announced stay unannounced. *)
ConfigApiRestart ==
    /\ cfgFaults < MaxCfgFaults
    /\ cfgFaults' = cfgFaults + 1
    /\ cfgMissed' = cfgMissed \cup {cfgPut[w].key : w \in {x \in CfgWorkers : cfgPut[x] # NoPut}}
    /\ cfgPut' = [w \in CfgWorkers |-> NoPut]
    /\ UNCHANGED <<cfgDb, cfgPuts, mgrVars, cfgBus, cfgTold>>
-----------------------------------------------------------------------------
(* Initialize: the snapshot, or the environment's defaults.                *)
LoadConfig ==
    /\ cfgMgr = "down"
    /\ cfgMgr' = "loaded"
    /\ \/ cfgView' = GetSnapshot /\ cfgMissed' = {} /\ UNCHANGED cfgFaults
       \/ /\ cfgFaults < MaxCfgFaults
          /\ cfgFaults' = cfgFaults + 1
          /\ cfgView' = [k \in CfgKeys |-> [value |-> "env", put |-> 0]]
          /\ cfgMissed' = CfgKeys
    /\ UNCHANGED <<putVars, cfgFetch, cfgRefreshes, cfgBus, cfgTold>>

SubscribeConfig ==
    /\ cfgMgr = "loaded"
    /\ cfgMgr' = "ready"
    /\ UNCHANGED <<putVars, cfgView, cfgFetch, cfgRefreshes, cfgBus, cfgFaults,
                   cfgTold, cfgMissed>>

(* applyConfigChange on a copy of the current snapshot, under the lock.    *)
AppliedToDefaults(view, c) ==
    [k \in CfgKeys |-> [value |-> IF k = c.key THEN ParsedOr(c.value, "default") ELSE "default",
                        put |-> IF k = c.key THEN c.put ELSE view[k].put]]
Applied(view, c) == [view EXCEPT ![c.key] =
    [value |-> ParsedOr(c.value, @.value), put |-> c.put]]

ApplyChange ==
    /\ cfgMgr = "ready" /\ cfgBus # << >>
    /\ cfgView' = Applied(cfgView, Head(cfgBus))
    /\ cfgBus' = Tail(cfgBus)
    /\ UNCHANGED <<putVars, cfgMgr, cfgFetch, cfgRefreshes, cfgFaults, cfgTold, cfgMissed>>

(* Refresh reads the rows without the lock; when the query fails it falls  *)
(* back to a copy of the current configuration.                            *)
RefreshFetch ==
    /\ cfgMgr = "ready" /\ cfgFetch = NoFetch /\ cfgRefreshes < MaxRefresh
    /\ cfgRefreshes' = cfgRefreshes + 1
    /\ \/ cfgFetch' = GetSnapshot /\ UNCHANGED cfgFaults
       \/ /\ cfgFaults < MaxCfgFaults
          /\ cfgFaults' = cfgFaults + 1
          /\ cfgFetch' = cfgView
    /\ UNCHANGED <<putVars, cfgMgr, cfgView, cfgBus, cfgTold, cfgMissed>>

(* ... and replaces whatever was applied in between.                       *)
RefreshInstall ==
    /\ cfgFetch # NoFetch
    /\ cfgView' = cfgFetch
    /\ cfgFetch' = NoFetch
    /\ cfgMissed' = cfgMissed \cup {k \in CfgKeys : cfgFetch[k].put < cfgView[k].put}
    /\ UNCHANGED <<putVars, cfgMgr, cfgRefreshes, cfgBus, cfgFaults, cfgTold>>

(* The service of the manager restarts and starts over.                    *)
ManagerRestart ==
    /\ cfgMgr # "down" /\ cfgFaults < MaxCfgFaults
    /\ cfgFaults' = cfgFaults + 1
    /\ cfgMgr' = "down" /\ cfgBus' = << >> /\ cfgFetch' = NoFetch
    /\ UNCHANGED <<putVars, cfgView, cfgRefreshes, cfgTold, cfgMissed>>

ConfigNext ==
    \/ \E w \in CfgWorkers :
         \/ \E k \in CfgKeys, v \in Sendable : SetConfig(w, k, v)
         \/ SetConfigFails(w)
         \/ PublishChange(w)
         \/ PublishFails(w)
    \/ ConfigApiRestart
    \/ LoadConfig \/ SubscribeConfig \/ ApplyChange
    \/ RefreshFetch \/ RefreshInstall \/ ManagerRestart

ConfigSpec == ConfigInit /\ [][ConfigNext]_cfgVars
-----------------------------------------------------------------------------
InFlight == \E w \in CfgWorkers : cfgPut[w] # NoPut

(* Once every announcement has been applied the manager holds, for each    *)
(* key with a well-typed row, the value config-api serves (handleSetConfig, *)
(* Initialize, handleConfigChange, Refresh), unless for that key one of    *)
(* these came after the row: its announcement was lost, fell between the   *)
(* snapshot and the subscription or overtook another, the snapshot could   *)
(* not be read, or a Refresh put an older snapshot over it.                *)
SettledAgrees ==
    (cfgMgr = "ready" /\ cfgBus = << >> /\ cfgFetch = NoFetch /\ ~InFlight) =>
        \A k \in CfgKeys \ cfgMissed :
            (cfgDb[k] # NoRow /\ cfgDb[k].value # "illtyped") =>
                cfgView[k].value = ParsedOr(cfgDb[k].value, "default")

(* What has been announced on config.changed is stored, or something newer *)
(* is: a manager that loads after an announcement does not go back behind  *)
(* it (handleSetConfig stores before it publishes; 500 publishes nothing). *)
StoredBeforeAnnounced ==
    /\ \A k \in CfgKeys : cfgTold[k] <= RowPut(k)
    /\ \A i \in DOMAIN cfgBus : cfgBus[i].put <= RowPut(cfgBus[i].key)

(* A manager ends up with what config-api serves, apart from the named     *)
(* losses, and never hears of a value that is not stored.                  *)
ConfigSound ==
    /\ SettledAgrees
    /\ StoredBeforeAnnounced
=============================================================================
