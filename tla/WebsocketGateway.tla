--------------------------- MODULE WebsocketGateway ---------------------------
(***************************************************************************)
(* The websocket gateway between the agents and the actions API            *)
(* (src/backend/websocket-gateway/internal: gateway/server.go, router.go,  *)
(* connection.go, http_handlers.go, auth/service.go), composed with the    *)
(* registry it calls.                                                      *)
(*                                                                         *)
(* Each connection is served by a goroutine of its own.  The table of      *)
(* connections is keyed by the name the agent gave in its header, its host *)
(* name or, once it knows it, its UID; completing the registration moves   *)
(* the connection from the host name to the UID.  The table is only locked *)
(* for single accesses, so the steps of connections, of the NATS callback  *)
(* and of the goroutines that post heartbeats interleave freely.           *)
(***************************************************************************)
EXTENDS AgentRegistry

CONSTANTS Sessions,       \* connection objects; none is used twice
          MaxConnections, \* configured limit on the table
          MaxBeats,       \* bound: heartbeat posts under way
          Nobody          \* no session, no device, no message

ASSUME GatewayAssumption ==
    /\ MaxConnections \in Nat \ {0} /\ Sessions \subseteq Callers
    /\ Nobody \notin Sessions /\ Nobody \notin Devices

VARIABLES session,   \* [Sessions -> state of the connection]
          table,     \* agentConnections: name -> session
          beats,     \* heartbeats on their way to the actions API
          writing,   \* message the NATS callback is about to write
          delivered, \* messages written to an open connection
          replaced   \* history: an entry of the table was overwritten

gatewayOnly == <<session, table, beats, writing, delivered, replaced>>

gatewayVars == <<registryVars, gatewayOnly>>

Stages == {"unused", "upgraded", "open", "completing", "rekey", "closing", "closed"}

SessionRec == [stage: Stages, dev: Devices \cup {Nobody}, id: Ids \cup {Nobody},
               auth: BOOLEAN, as: Ids \cup {Nobody}]

(* The names a device may give in X-Agent-ID. *)
HeaderNames(d) == {HostOf[d], d}

Live(s) == session[s].stage \in {"open", "completing", "rekey"}

-----------------------------------------------------------------------------

GatewayInit ==
    /\ RegistryInit
    /\ session = [s \in Sessions |-> [stage |-> "unused", dev |-> Nobody, id |-> Nobody,
                                      auth |-> FALSE, as |-> Nobody]]
    /\ table = <<>> /\ beats = {} /\ writing = Nobody /\ delivered = {}
    /\ replaced = FALSE

(* handleWebSocketUpgrade: the limit is tested here, the table is entered  *)
(* by the goroutine it starts.                                             *)
Upgrade(s, d, id) ==
    /\ session[s].stage = "unused"
    /\ id \in HeaderNames(d)
    /\ Cardinality(DOMAIN table) < MaxConnections
    /\ session' = [session EXCEPT ![s] = [@ EXCEPT !.stage = "upgraded", !.dev = d, !.id = id]]
    /\ UNCHANGED <<registryVars, table, beats, writing, delivered, replaced>>

Enter(id, s) ==
    /\ table' = Updated(Without(table, id), id, s)
    /\ replaced' = (replaced \/ id \in DOMAIN table)

Attach(s) ==
    /\ session[s].stage = "upgraded"
    /\ Enter(session[s].id, s)
    /\ session' = [session EXCEPT ![s].stage = "open"]
    /\ UNCHANGED <<registryVars, beats, writing, delivered>>

(* handleAuthentication: a request that decodes marks the connection. *)
Authenticate(s) ==
    /\ session[s].stage = "open" /\ ~session[s].auth
    /\ session' = [session EXCEPT ![s].auth = TRUE]
    /\ UNCHANGED <<registryVars, table, beats, writing, delivered, replaced>>

(* handleTextMessage: other messages are routed on an authenticated        *)
(* connection only; handlers that only log have no action here.            *)
Routed(s) == session[s].stage = "open" /\ session[s].auth

(* handleAgentHeartbeat on an authenticated connection: the post to the    *)
(* actions API is a goroutine of its own and carries the time it started.  *)
ReceiveHeartbeat(s) ==
    /\ Routed(s)
    /\ Cardinality(beats) < MaxBeats
    /\ beats' = beats \cup {[id |-> session[s].id, seen |-> clock]}
    /\ UNCHANGED <<registryVars, session, table, writing, delivered, replaced>>

(* updateActionsAPIHeartbeat: the post arrives, in any order, or is lost. *)
PostHeartbeat(b) ==
    /\ b \in beats
    /\ beats' = beats \ {b}
    /\ \/ HeartbeatEffect(b.id, NoHost, b.seen, {})
       \/ UNCHANGED <<agents, byHost>>
    /\ UNCHANGED <<pending, begun, completing, wire, sent, clock,
                   session, table, writing, delivered, replaced>>

(* handleAgentRegistration: the init request is passed on; its answer has  *)
(* no UID, so the table stays as it is.  HTTPHandlers does the same.       *)
ReceiveRegistration(s) ==
    /\ Routed(s)
    /\ \E h \in {HostOf[session[s].dev], NoHost} : RegisterInit(session[s].dev, h)
    /\ UNCHANGED gatewayOnly

(* handleAgentRegistrationComplete, on any connection: the request is      *)
(* passed on and the goroutine waits for the answer.                       *)
ReceiveComplete(s, p) ==
    /\ session[s].stage = "open"
    /\ p.key = session[s].dev
    /\ CompleteLookup(s, p)
    /\ session' = [session EXCEPT ![s].stage = "completing"]
    /\ UNCHANGED <<table, beats, writing, delivered, replaced>>

(* The actions API stores the agent; its answer comes back, or the client  *)
(* gives up after ten seconds.                                             *)
CompleteAnswered(s, p) ==
    /\ session[s].stage = "completing"
    /\ CompleteStore(s, p)
    /\ session' = [session EXCEPT ![s].stage = "rekey", ![s].as = p.key]
    /\ UNCHANGED <<table, beats, writing, delivered, replaced>>

CompleteTimesOut(s, p) ==
    /\ session[s].stage \in {"completing", "closed"}
    /\ CompleteStore(s, p)
    /\ session' = [session EXCEPT ![s].stage = IF @ = "completing" THEN "open" ELSE @]
    /\ UNCHANGED <<table, beats, writing, delivered, replaced>>

(* HTTPHandlers: both registration requests passed on without a connection. *)
HttpRegistration(c) ==
    /\ c \in Callers \ Sessions
    /\ \/ \E d \in Devices : \E h \in {HostOf[d], NoHost} : RegisterInit(d, h)
       \/ \E p \in pending : CompleteLookup(c, p)
       \/ \E q \in completing : q[1] = c /\ CompleteStore(c, q[2])
    /\ UNCHANGED gatewayOnly

RekeyKeepsName(s) ==
    LET id == session[s].id
        uid == session[s].as
        back == [session EXCEPT ![s].stage = "open", ![s].as = Nobody]
    IN  /\ session[s].stage = "rekey"
        /\ \/ /\ uid # id /\ id \in DOMAIN table
              /\ session' = back
              /\ table' = Updated(Without(table, id), uid, table[id])
              /\ replaced' = (replaced \/ uid \in DOMAIN table \/ table[id] # s)
           \/ /\ uid = id \/ id \notin DOMAIN table
              /\ session' = back
              /\ UNCHANGED <<table, replaced>>
        /\ UNCHANGED <<registryVars, beats, writing, delivered>>

(* The connection found under the name the request came in with, which a   *)
(* reconnection may have replaced, moves to the UID.                       *)
Rekey(s) ==
    LET id == session[s].id
        uid == session[s].as
        back == [session EXCEPT ![s].stage = "open", ![s].as = Nobody]
    IN  /\ session[s].stage = "rekey"
        /\ \/ /\ uid # id /\ id \in DOMAIN table
              /\ session' = [back EXCEPT ![table[id]].id = uid]
              /\ table' = Updated(Without(table, id), uid, table[id])
              /\ replaced' = (replaced \/ uid \in DOMAIN table \/ table[id] # s)
           \/ /\ uid = id \/ id \notin DOMAIN table
              /\ session' = back
              /\ UNCHANGED <<table, replaced>>
        /\ UNCHANGED <<registryVars, beats, writing, delivered>>

(* The read fails: the peer is gone, the read deadline has passed, or the  *)
(* agent sent a close message.                                             *)
ReadFails(s) ==
    /\ session[s].stage = "open"
    /\ session' = [session EXCEPT ![s].stage = "closing"]
    /\ UNCHANGED <<registryVars, table, beats, writing, delivered, replaced>>

(* The deferred cleanup removes whatever the table holds under the name. *)
Cleanup(s) ==
    /\ session[s].stage = "closing"
    /\ table' = Without(table, session[s].id)
    /\ session' = [session EXCEPT ![s].stage = "closed"]
    /\ UNCHANGED <<registryVars, beats, writing, delivered, replaced>>

(* handleNATSMessage: the callback takes one message at a time, looks its  *)
(* target up, and writes after the lock is released.                       *)
TakeMessage(e) ==
    /\ writing = Nobody /\ e \in wire
    /\ wire' = wire \ {e}
    /\ writing' = IF e.target \in DOMAIN table
                  THEN [env |-> e, to |-> table[e.target]] ELSE Nobody
    /\ UNCHANGED <<agents, byHost, pending, begun, completing, sent, clock,
                   session, table, beats, delivered, replaced>>

WriteMessage ==
    /\ writing # Nobody
    /\ writing' = Nobody
    /\ delivered' = IF Live(writing.to)
                    THEN delivered \cup {[env |-> writing.env, dev |-> session[writing.to].dev]}
                    ELSE delivered
    /\ UNCHANGED <<registryVars, session, table, beats, replaced>>

(* Stop, or a crash, and a new start: every connection is gone, and so is *)
(* what NATS had for the old subscription.                                *)
Restart ==
    /\ \E s \in Sessions : Live(s)
    /\ session' = [s \in Sessions |-> [session[s] EXCEPT
                      !.stage = IF @ = "unused" THEN @ ELSE "closed", !.as = Nobody]]
    /\ table' = <<>> /\ beats' = {} /\ writing' = Nobody /\ wire' = {}
    /\ UNCHANGED <<agents, byHost, pending, begun, completing, sent, clock, delivered,
                   replaced>>

(* Calls of the actions API that do not come through a connection. *)
Operator ==
    /\ \/ RegistryTick
       \/ \E m \in Messages, u \in DOMAIN agents : SendMessage(m, u)
    /\ UNCHANGED gatewayOnly

GatewayNext ==
    \/ \E s \in Sessions :
          \/ \E d \in Devices, id \in Ids : Upgrade(s, d, id)
          \/ Attach(s) \/ Authenticate(s) \/ ReceiveHeartbeat(s)
          \/ ReceiveRegistration(s) \/ Rekey(s) \/ ReadFails(s) \/ Cleanup(s)
          \/ \E p \in pending : ReceiveComplete(s, p)
    \/ \E q \in completing :
          q[1] \in Sessions /\ (CompleteAnswered(q[1], q[2]) \/ CompleteTimesOut(q[1], q[2]))
    \/ \E b \in beats : PostHeartbeat(b)
    \/ \E e \in wire : TakeMessage(e)
    \/ \E c \in Callers : HttpRegistration(c)
    \/ WriteMessage \/ Restart \/ Operator

GatewaySpec == GatewayInit /\ [][GatewayNext]_gatewayVars


-----------------------------------------------------------------------------

(* Every variable of the gateway has its type. *)
GatewayTypeOK ==
    /\ session \in [Sessions -> SessionRec]
    /\ DOMAIN table \subseteq Ids /\ \A id \in DOMAIN table : table[id] \in Sessions
    /\ beats \subseteq [id: Ids, seen: 0..MaxClock]
    /\ writing = Nobody \/ writing \in [env: Envelope, to: Sessions]
    /\ delivered \subseteq [env: Envelope, dev: Devices]
    /\ replaced \in BOOLEAN

(* agentConnections never holds a connection under a name other than the   *)
(* one the connection carries, and never one whose goroutine has ended:    *)
(* the cleanup finds the entry it has to remove, also after a rekey.       *)
TableHoldsLive ==
    \A id \in DOMAIN table :
        /\ session[table[id]].id = id
        /\ session[table[id]].stage \in Stages \ {"unused", "upgraded", "closed"}

(* Unless two devices report one host name, a message the NATS callback    *)
(* writes reaches the device it is addressed to, by UID or by host name,   *)
(* whichever connections were replaced or moved between the look-up and    *)
(* the write.  (With a shared host name the rekey of one device may move   *)
(* the connection of the other to its UID.)                                *)
HostNamesDiffer == \A d, e \in Devices : HostOf[d] = HostOf[e] => d = e
DeliveredToOwner ==
    HostNamesDiffer => \A r \in delivered : r.env.target \in HeaderNames(r.dev)

(* As long as no two connections of a device were open under one name, an  *)
(* open connection can be found under its name.                            *)
OpenIsReachable ==
    ~replaced => \A s \in Sessions :
        Live(s) => session[s].id \in DOMAIN table /\ table[session[s].id] = s

(* However connections, renamings and messages interleave, the table leads *)
(* to live connections, messages to the agent they are for, and an open    *)
(* connection can be reached unless its name was taken over.               *)
GatewaySound ==
    /\ GatewayTypeOK
    /\ TableHoldsLive
    /\ DeliveredToOwner
    /\ OpenIsReachable
=============================================================================
