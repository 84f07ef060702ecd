---------------------------- MODULE AgentRegistry ----------------------------
(***************************************************************************)
(* The agent registry of the actions API                                   *)
(* (src/backend/actions-api/internal/api: store.go, agents.go,             *)
(* agents_api.go, agents_fleet_scale.go).                                  *)
(*                                                                         *)
(* A device registers in two requests, init and complete; its UID is a     *)
(* hash of its public key, so the model takes the device itself for its    *)
(* key and its UID.  Heartbeats name an agent by UID or, for old agents,   *)
(* by host name, and create the agent they do not find.  Operators label   *)
(* agents, list them page by page, and send them messages, which leave     *)
(* through NATS for the websocket gateway.  Every handler is one critical  *)
(* section of Store.mu except complete, which looks the registration up in *)
(* one section and stores the agent in a second.                           *)
(***************************************************************************)
EXTENDS Integers, FiniteSets, Sequences

CONSTANTS Devices,      \* devices; a device is also its key and its UID
          HostNames,    \* host names
          HostOf,       \* the host name of a device
          Callers,      \* concurrent callers of complete
          Labels,       \* operator labels
          Messages,     \* identities of operator messages
          ReachableFor, \* ticks (5 minutes) within which an agent counts as connected
          MaxClock,       \* bound: ticks of the clock
          MaxPending,   \* bound: registrations begun
          NoKey,        \* an agent known from heartbeats only has no key
          UidRank,      \* the order of the UIDs as strings
          PageSizes     \* limits a client asks for

(* The empty host_id: neither a registration nor a heartbeat must name one. *)
NoHost == "none"

ASSUME RegistryAssumption ==
    /\ Devices \cap HostNames = {} /\ NoKey \notin Devices
    /\ NoHost \notin Devices \cup HostNames
    /\ HostOf \in [Devices -> HostNames]
    /\ ReachableFor \in Nat \ {0} /\ MaxClock \in Nat /\ MaxPending \in Nat
    /\ UidRank \in [Devices \cup HostNames -> Nat]
    /\ \A u, v \in Devices \cup HostNames : UidRank[u] = UidRank[v] => u = v
    /\ PageSizes \subseteq Nat \ {0}

VARIABLES agents,     \* UID -> agent record
          byHost,     \* host name -> UID of the agent last stored for it
          pending,    \* registrations begun and not completed
          begun,      \* number of registrations begun
          completing, \* <<caller, registration>> looked up, not yet stored
          wire,       \* messages published on websocket.messages
          sent,       \* messages answered "sent", each with its target
          clock

registryVars == <<agents, byHost, pending, begun, completing, wire, sent, clock>>

Ids == Devices \cup HostNames

AgentRec == [host: Ids \cup {NoHost}, key: Devices \cup {NoKey}, lastSeen: 0..MaxClock,
             labels: SUBSET Labels]

Registration == [reg: 1..MaxPending, key: Devices, host: HostNames \cup {NoHost}]

Envelope == [msg: Messages, target: Ids]

Updated(f, k, v) == [x \in DOMAIN f \cup {k} |-> IF x = k THEN v ELSE f[x]]

Without(f, k) == [x \in DOMAIN f \ {k} |-> f[x]]

ReindexedLate(old, new, u) == Updated(byHost, new, u)

(* The host index after complete moves agent u from host old to host new,  *)
(* either of which may be empty.                                           *)
Reindexed(old, new, u) ==
    Updated(IF old = new THEN byHost ELSE Without(byHost, old), new, u)

(* The same for a heartbeat, which never touches the empty host's entry.   *)
HeartbeatIndexed(old, new, u) ==
    CASE new = NoHost -> byHost
      [] new # NoHost /\ old = NoHost -> Updated(byHost, new, u)
      [] OTHER -> Reindexed(old, new, u)

-----------------------------------------------------------------------------

RegistryInit ==
    /\ agents = <<>> /\ byHost = <<>>
    /\ pending = {} /\ begun = 0 /\ completing = {}
    /\ wire = {} /\ sent = {} /\ clock = 0

RegistryTick ==
    /\ clock < MaxClock
    /\ clock' = clock + 1
    /\ UNCHANGED <<agents, byHost, pending, begun, completing, wire, sent>>

(* The device gives its host name or leaves it out: nothing checks it.     *)
RegisterInit(d, host) ==
    /\ begun < MaxPending
    /\ begun' = begun + 1
    /\ pending' = pending \cup {[reg |-> begun + 1, key |-> d, host |-> host]}
    /\ UNCHANGED <<agents, byHost, completing, wire, sent, clock>>

(* The first section of complete: the registration is found and its        *)
(* signature verified.                                                     *)
CompleteLookup(c, p) ==
    /\ p \in pending
    /\ \A q \in completing : q[1] # c
    /\ completing' = completing \cup {<<c, p>>}
    /\ UNCHANGED <<agents, byHost, pending, begun, wire, sent, clock>>

(* The second section: a known UID keeps its labels and takes the host and *)
(* the time of the registration, an unknown one is created.                *)
CompleteStore(c, p) ==
    LET u == p.key
        old == IF u \in DOMAIN agents
               THEN agents[u]
               ELSE [host |-> p.host, key |-> u, lastSeen |-> clock, labels |-> {}]
    IN  /\ <<c, p>> \in completing
        /\ agents' = Updated(agents, u, [old EXCEPT !.host = p.host, !.key = p.key,
                                                    !.lastSeen = clock])
        /\ byHost' = Reindexed(old.host, p.host, u)
        /\ pending' = pending \ {p}
        /\ completing' = completing \ {<<c, p>>}
        /\ UNCHANGED <<begun, wire, sent, clock>>

(* applyHeartbeat: fields the heartbeat leaves out keep their value; labels *)
(* it carries replace the operator's.                                       *)
ApplyHeartbeat(u, host, seen, ls) ==
    LET new == IF host = NoHost THEN agents[u].host ELSE host
    IN  /\ agents' = [agents EXCEPT ![u].lastSeen = seen, ![u].host = new,
                                    ![u].labels = IF ls = {} THEN @ ELSE ls]
        /\ byHost' = HeartbeatIndexed(agents[u].host, new, u)

(* newAgentFromHeartbeat: an unknown name becomes the UID of a new agent. *)
NewAgentFromHeartbeat(id, host, seen, ls) ==
    LET h == IF host = NoHost THEN id ELSE host
    IN  /\ agents' = Updated(agents, id, [host |-> h, key |-> NoKey,
                                          lastSeen |-> seen, labels |-> ls])
        /\ byHost' = Updated(byHost, h, id)

HostedAt(id) == {u \in DOMAIN agents : agents[u].host = id}

(* handleHeartbeat: by UID, else by host name (any agent of that host: the *)
(* map is ranged over in random order), else a new agent.                  *)
HeartbeatEffect(id, host, seen, ls) ==
    \/ id \in DOMAIN agents /\ ApplyHeartbeat(id, host, seen, ls)
    \/ /\ id \notin DOMAIN agents
       /\ \E u \in HostedAt(id) : ApplyHeartbeat(u, host, seen, ls)
    \/ /\ id \notin DOMAIN agents /\ HostedAt(id) = {}
       /\ NewAgentFromHeartbeat(id, host, seen, ls)

Heartbeat(id, host, ls) ==
    /\ HeartbeatEffect(id, host, clock, ls)
    /\ UNCHANGED <<pending, begun, completing, wire, sent, clock>>

(* handleBatchHeartbeats, one element of the batch: there is no fallback   *)
(* to the host name.                                                       *)
BatchHeartbeat(id, host, ls) ==
    /\ \/ id \in DOMAIN agents /\ ApplyHeartbeat(id, host, clock, ls)
       \/ id \notin DOMAIN agents /\ NewAgentFromHeartbeat(id, host, clock, ls)
    /\ UNCHANGED <<pending, begun, completing, wire, sent, clock>>

(* PUT labels; the note is assigned the same way. *)
UpdateLabels(u, add, remove) ==
    /\ u \in DOMAIN agents
    /\ agents' = [agents EXCEPT ![u].labels = (@ \cup add) \ remove]
    /\ UNCHANGED <<byHost, pending, begun, completing, wire, sent, clock>>

Connected(u) == clock - agents[u].lastSeen < ReachableFor

Publish(m, targets) ==
    /\ wire' = wire \cup [msg: {m}, target: targets]
    /\ sent' = sent \cup [msg: {m}, target: targets]
    /\ UNCHANGED <<agents, byHost, pending, begun, completing, clock>>

(* POST send: published for a connected agent; for any other the answer is *)
(* "queued" and nothing is kept.                                           *)
SendMessage(m, u) ==
    /\ u \in DOMAIN agents /\ Connected(u)
    /\ \A e \in sent : e.msg # m
    /\ Publish(m, {u})

(* POST broadcast: every connected agent the filter names, or every one. *)
Broadcast(m, filter) ==
    LET targets == {u \in DOMAIN agents : Connected(u) /\ (filter = {} \/ u \in filter)}
    IN  /\ \A e \in sent : e.msg # m
        /\ targets # {}
        /\ Publish(m, targets)

RegistryNext ==
    \/ RegistryTick
    \/ \E d \in Devices : \E h \in {HostOf[d], NoHost} : RegisterInit(d, h)
    \/ \E c \in Callers, p \in pending : CompleteLookup(c, p)
    \/ \E q \in completing : CompleteStore(q[1], q[2])
    \/ \E id \in Ids, h \in HostNames \cup {NoHost}, ls \in SUBSET Labels :
          Heartbeat(id, h, ls) \/ BatchHeartbeat(id, h, ls)
    \/ \E u \in DOMAIN agents, l \in Labels :
          UpdateLabels(u, {l}, {}) \/ UpdateLabels(u, {}, {l})
    \/ \E m \in Messages, u \in DOMAIN agents : SendMessage(m, u)
    \/ \E m \in Messages, f \in SUBSET DOMAIN agents : Broadcast(m, f)

RegistrySpec == RegistryInit /\ [][RegistryNext]_registryVars

-----------------------------------------------------------------------------
(* GET /agents: the agents that pass the filters, the most recently seen   *)
(* first and by UID among equals, cut into pages.                          *)

Before(u, v) ==
    \/ agents[u].lastSeen > agents[v].lastSeen
    \/ agents[u].lastSeen = agents[v].lastSeen /\ UidRank[u] < UidRank[v]

Filtered(label, host) ==
    {u \in DOMAIN agents : /\ label = {} \/ label \subseteq agents[u].labels
                           /\ host = NoHost \/ agents[u].host = host}

(* Position i is the agent that i - 1 of the others come before.           *)
SortAgentsByLastSeen(S) ==
    [i \in 1..Cardinality(S) |-> CHOOSE u \in S : Cardinality({v \in S : Before(v, u)}) = i - 1]

PaginateAgents(list, offset, limit) ==
    SubSeq(list, offset + 1,
           IF offset + limit > Len(list) THEN Len(list) ELSE offset + limit)

GetAgents(label, host, offset, limit) ==
    PaginateAgents(SortAgentsByLastSeen(Filtered(label, host)), offset, limit)

-----------------------------------------------------------------------------

(* Every variable of the actions API's agent store has its type. *)
RegistryTypeOK ==
    /\ DOMAIN agents \subseteq Ids
    /\ \A u \in DOMAIN agents : agents[u] \in AgentRec
    /\ DOMAIN byHost \subseteq Ids \cup {NoHost} /\ \A h \in DOMAIN byHost : byHost[h] \in Ids
    /\ pending \subseteq Registration /\ begun \in 0..MaxPending
    /\ completing \subseteq Callers \X Registration
    /\ wire \subseteq Envelope /\ sent \subseteq Envelope /\ clock \in 0..MaxClock

(* The entry Store.byHost has for a host never points at an agent that has *)
(* moved to another one, whatever mixture of heartbeats and registrations  *)
(* moved agents between hosts that several of them share.  A registration  *)
(* without host_id makes an entry for the empty name, which heartbeats     *)
(* leave behind when the agent gets a name: that entry leads to an agent,  *)
(* of whatever host.                                                       *)
HostIndexSound ==
    \A h \in DOMAIN byHost :
        byHost[h] \in DOMAIN agents /\ (h # NoHost => agents[byHost[h]].host = h)

(* Reading GET /agents page after page shows every agent that passes the   *)
(* filter exactly once while the store does not change.                    *)
PagesCover ==
    \A limit \in PageSizes :
        LET all == Filtered({}, NoHost)
            n == Cardinality(all)
            page(i) == GetAgents({}, NoHost, i * limit, limit)
            shown(i) == {page(i)[k] : k \in DOMAIN page(i)}
        IN  /\ all = UNION {shown(i) : i \in 0..n}
            /\ \A i, j \in 0..n : i # j => shown(i) \cap shown(j) = {}
            /\ \A i \in 0..n : \A k, l \in DOMAIN page(i) : page(i)[k] = page(i)[l] => k = l

(* The registry stays one consistent table under registrations, heartbeats *)
(* and batches of several callers: its host index leads to the agents, and *)
(* the pages of getAgents show each of them once.                          *)
RegistrySound ==
    /\ RegistryTypeOK
    /\ HostIndexSound
    /\ PagesCover
=============================================================================
