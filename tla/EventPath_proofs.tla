-------------------------- MODULE EventPath_proofs --------------------------
(***************************************************************************)
(* Proofs about the path of events and answers: the agent registry with    *)
(* its host index and pages, the gateway's connections and mail, the rules *)
(* the correlator loads, what it sends on and finds, and the choice of a   *)
(* signed pack, for any number of devices, hosts, callers, messages, rules *)
(* and artifacts.                                                          *)
(***************************************************************************)
EXTENDS PackController, WebsocketGateway, CorrelatorRules, CorrelatorForward, CorrelatorEval,
        Filtering_proofs, FiniteSetTheorems, TLAPS

-----------------------------------------------------------------------------
(***************************************************************************)
(* Pages.  A list without repetitions that is cut into pages of one size:  *)
(* every position is on exactly one page.                                  *)
(***************************************************************************)
LEMMA PageOf ==
  ASSUME NEW k \in Nat, NEW l \in Nat \ {0}
  PROVE  \E i \in 0..k : i * l <= k /\ k < i * l + l
<1>1. PICK i : i = k \div l
  OBVIOUS
<1>2. i \in Nat /\ i * l <= k /\ k < i * l + l
  BY <1>1
<1>3. i <= k
  BY <1>2
<1> QED
  BY <1>2, <1>3

LEMMA PagesApart ==
  ASSUME NEW i \in Nat, NEW j \in Nat, NEW l \in Nat \ {0}, i < j
  PROVE  i * l + l <= j * l
<1>1. PICK d \in Nat : j = i + 1 + d
  BY SMT
<1>2. j * l = i * l + l + d * l
  BY <1>1
<1>3. d * l \in Nat /\ i * l \in Nat
  OBVIOUS
<1> QED
  BY <1>2, <1>3

(* The sorted list holds every agent of a finite set exactly once.         *)
LEMMA SortedOnce ==
  ASSUME NEW S \in SUBSET Ids, IsFiniteSet(S), \A u \in S : agents[u].lastSeen \in Nat
  PROVE  /\ Cardinality(S) \in Nat
         /\ \A i \in 1..Cardinality(S) : SortAgentsByLastSeen(S)[i] \in S
         /\ \A u \in S : \E i \in 1..Cardinality(S) : SortAgentsByLastSeen(S)[i] = u
         /\ \A i, j \in 1..Cardinality(S) :
               SortAgentsByLastSeen(S)[i] = SortAgentsByLastSeen(S)[j] => i = j
<1>1. PICK n, below, rank : /\ n = Cardinality(S)
                            /\ below = [u \in S |-> {v \in S : Before(v, u)}]
                            /\ rank = [u \in S |-> Cardinality({v \in S : Before(v, u)})]
  OBVIOUS
<1>2. n \in Nat
  BY <1>1, FS_CardinalityType
<1>3. \A u \in S : UidRank[u] \in Nat
  BY RegistryAssumption DEF Ids
<1>4. \A u, v \in S : UidRank[u] = UidRank[v] => u = v
  BY RegistryAssumption DEF Ids
<1>5. /\ \A u \in S : ~Before(u, u)
      /\ \A u, v \in S : u # v => Before(u, v) \/ Before(v, u)
      /\ \A u, v, w \in S : Before(u, v) /\ Before(v, w) => Before(u, w)
  BY <1>3, <1>4 DEF Before
<1>6. ASSUME NEW u \in S
      PROVE  /\ below[u] \in SUBSET S /\ IsFiniteSet(below[u]) /\ rank[u] = Cardinality(below[u])
             /\ rank[u] \in 0..(n - 1)
  <2>1. below[u] \in SUBSET S /\ u \notin below[u] /\ rank[u] = Cardinality(below[u])
    BY <1>1, <1>5
  <2>2. /\ IsFiniteSet(below[u]) /\ Cardinality(below[u]) <= Cardinality(S)
        /\ Cardinality(S) = Cardinality(below[u]) => S = below[u]
    BY <2>1, FS_Subset
  <2>3. Cardinality(below[u]) \in Nat
    BY <2>2, FS_CardinalityType
  <2> QED
    BY <1>1, <1>2, <2>1, <2>2, <2>3
<1>7. ASSUME NEW u \in S, NEW v \in S, Before(u, v) PROVE rank[u] < rank[v]
  <2>1. below[u] \in SUBSET below[v] /\ u \in below[v] /\ u \notin below[u]
    BY <1>1, <1>5, <1>7
  <2>2. /\ Cardinality(below[u]) <= Cardinality(below[v])
        /\ Cardinality(below[v]) = Cardinality(below[u]) => below[v] = below[u]
    BY <1>6, <2>1, FS_Subset
  <2> QED
    BY <1>2, <1>6, <2>1, <2>2
<1>8. \A u, v \in S : rank[u] = rank[v] => u = v
  <2> SUFFICES ASSUME NEW u \in S, NEW v \in S, rank[u] = rank[v], u # v PROVE FALSE
    OBVIOUS
  <2>1. rank[u] < rank[v] \/ rank[v] < rank[u]
    BY <1>5, <1>7
  <2> QED
    BY <2>1, <1>2, <1>6
<1>9. \A i \in 0..(n - 1) : \E u \in S : rank[u] = i
  <2>1. rank \in [S -> 0..(n - 1)]
    BY <1>1, <1>6
  <2>2. rank \in Injection(S, 0..(n - 1))
    BY <2>1, <1>8 DEF Injection, IsInjective
  <2>3. IsFiniteSet(0..(n - 1)) /\ Cardinality(0..(n - 1)) = n
    BY <1>2, FS_Interval
  <2>4. rank \in Surjection(S, 0..(n - 1))
    BY <2>2, <2>3, <1>1, FS_Injection
  <2> QED
    BY <2>4 DEF Surjection
<1>10. PICK list : list = SortAgentsByLastSeen(S)
  OBVIOUS
<1>11. ASSUME NEW i \in 1..n PROVE list[i] \in S /\ rank[list[i]] = i - 1
  <2>1. list[i] = CHOOSE u \in S : Cardinality({v \in S : Before(v, u)}) = i - 1
    BY <1>1, <1>10 DEF SortAgentsByLastSeen
  <2>2. i - 1 \in 0..(n - 1)
    BY <1>2
  <2>3. PICK u \in S : Cardinality({v \in S : Before(v, u)}) = i - 1
    BY <1>1, <1>9, <2>2
  <2>4. list[i] \in S /\ Cardinality({v \in S : Before(v, list[i])}) = i - 1
    BY <2>1, <2>3
  <2> QED
    BY <1>1, <2>4
<1>12. ASSUME NEW u \in S PROVE \E i \in 1..n : list[i] = u
  <2>1. PICK i : i = rank[u] + 1
    OBVIOUS
  <2>2. i \in 1..n /\ rank[u] = i - 1
    BY <2>1, <1>2, <1>6
  <2>3. list[i] = u
    BY <2>2, <1>8, <1>11
  <2> QED
    BY <2>2, <2>3
<1>13. \A i, j \in 1..n : list[i] = list[j] => i = j
  BY <1>2, <1>11
<1> QED
  BY <1>1, <1>2, <1>10, <1>11, <1>12, <1>13

Placed(S, i) == CHOOSE u \in S : Cardinality({v \in S : Before(v, u)}) = i - 1
Page(i, limit) == GetAgents({}, NoHost, i * limit, limit)
Shown(i, limit) == {Page(i, limit)[k] : k \in DOMAIN Page(i, limit)}

(* The entries of a list from off on, at most limit of them.               *)
CutFrom(page, list, off, limit) ==
    \E m \in 0..limit :
        /\ DOMAIN page = 1..m
        /\ m = 0 \/ off + m <= Len(list)
        /\ m < limit => off + m >= Len(list)
        /\ \A k \in 1..m : page[k] = list[off + k]

LEMMA PageCut ==
  ASSUME NEW S, NEW list \in Seq(S), NEW off \in Nat, NEW limit \in Nat \ {0}
  PROVE  CutFrom(PaginateAgents(list, off, limit), list, off, limit)
<1>1. PICK n, last, page : /\ n = Len(list)
                           /\ last = IF off + limit > n THEN n ELSE off + limit
                           /\ page = SubSeq(list, off + 1, last)
  OBVIOUS
<1>2. n \in Nat /\ last \in Nat /\ last <= n /\ last <= off + limit
  BY <1>1
<1>3. page = PaginateAgents(list, off, limit)
  BY <1>1 DEF PaginateAgents
<1>4. PICK m : m = IF off + 1 <= last THEN last - off ELSE 0
  OBVIOUS
<1>5. m \in 0..limit /\ (m = 0 \/ off + m <= n) /\ (m < limit => off + m >= n)
  BY <1>1, <1>2, <1>4
<1>6. DOMAIN page = 1..m /\ \A k \in 1..m : page[k] = list[off + k]
  BY <1>1, <1>2, <1>4
<1> QED
  BY <1>1, <1>3, <1>5, <1>6 DEF CutFrom

LEMMA PagesHold ==
  ASSUME IsFiniteSet(DOMAIN agents), DOMAIN agents \subseteq Ids,
         \A u \in DOMAIN agents : agents[u].lastSeen \in Nat
  PROVE  PagesCover
<1>1. PICK all, n, list : /\ all = Filtered({}, NoHost) /\ n = Cardinality(all)
                          /\ list = SortAgentsByLastSeen(all)
  OBVIOUS
<1>2. all = DOMAIN agents
  BY <1>1 DEF Filtered
<1>3. /\ n \in Nat
      /\ \A k \in 1..n : list[k] \in all
      /\ \A u \in all : \E k \in 1..n : list[k] = u
      /\ \A k, l \in 1..n : list[k] = list[l] => k = l
  <2>1. all \in SUBSET Ids /\ IsFiniteSet(all)
    BY <1>2
  <2> QED
    BY <1>1, <1>2, <2>1, SortedOnce
<1>4. list \in Seq(all) /\ Len(list) = n
  <2>1. list = [i \in 1..n |-> Placed(all, i)]
    BY <1>1, Zenon DEF SortAgentsByLastSeen, Placed
  <2>2. list = [k \in 1..n |-> list[k]]
    BY <2>1
  <2>3. list \in [1..n -> all]
    BY <2>2, <1>3
  <2> QED
    BY <2>3, <1>3
<1> SUFFICES ASSUME NEW limit \in PageSizes
             PROVE  /\ all = UNION {Shown(i, limit) : i \in 0..n}
                    /\ \A i, j \in 0..n : i # j => Shown(i, limit) \cap Shown(j, limit) = {}
                    /\ \A i \in 0..n : \A k, l \in DOMAIN Page(i, limit) :
                          Page(i, limit)[k] = Page(i, limit)[l] => k = l
  BY <1>1, Zenon DEF PagesCover, Page, Shown
<1>5. limit \in Nat \ {0}
  BY RegistryAssumption
<1>6. \A i \in 0..n : i * limit \in Nat /\ CutFrom(Page(i, limit), list, i * limit, limit)
  <2> SUFFICES ASSUME NEW i \in 0..n
               PROVE  i * limit \in Nat /\ CutFrom(Page(i, limit), list, i * limit, limit)
    OBVIOUS
  <2>1. i * limit \in Nat
    BY <1>3, <1>5
  <2>2. Page(i, limit) = PaginateAgents(list, i * limit, limit)
    BY <1>1 DEF Page, GetAgents
  <2> QED
    BY <2>1, <2>2, <1>4, <1>5, PageCut
<1>7. ASSUME NEW i \in 0..n, NEW k \in DOMAIN Page(i, limit)
      PROVE  /\ k \in 1..limit /\ i * limit + k \in 1..n
             /\ Page(i, limit)[k] = list[i * limit + k]
  <2>1. PICK off, page : off = i * limit /\ page = Page(i, limit)
    OBVIOUS
  <2>2. off \in Nat /\ CutFrom(page, list, off, limit)
    BY <1>6, <2>1
  <2>3. PICK m \in 0..limit : /\ DOMAIN page = 1..m /\ (m = 0 \/ off + m <= n)
                              /\ \A x \in 1..m : page[x] = list[off + x]
    BY <2>2, <1>4 DEF CutFrom
  <2>4. k \in 1..m
    BY <2>1, <2>3
  <2>5. k \in 1..limit /\ off + k \in 1..n /\ page[k] = list[off + k]
    BY <2>2, <2>3, <2>4, <1>3, <1>5
  <2> QED
    BY <2>1, <2>5
<1>8. ASSUME NEW u \in all PROVE \E i \in 0..n : u \in Shown(i, limit)
  <2>1. PICK k \in 1..n : list[k] = u
    BY <1>3
  <2>2. k - 1 \in Nat
    BY <1>3
  <2>3. PICK i \in 0..(k - 1) : i * limit <= k - 1 /\ k - 1 < i * limit + limit
    BY <2>2, <1>5, PageOf
  <2>4. i \in 0..n
    BY <2>3, <1>3
  <2>5. PICK off, page, x : off = i * limit /\ page = Page(i, limit) /\ x = k - off
    OBVIOUS
  <2>6. off \in Nat /\ CutFrom(page, list, off, limit)
    BY <2>4, <2>5, <1>6
  <2>7. x \in 1..limit /\ off + x = k /\ off + x <= n
    BY <2>3, <2>5, <2>6, <1>3, <1>5
  <2>8. PICK m \in 0..limit : /\ DOMAIN page = 1..m /\ (m = 0 \/ off + m <= n)
                              /\ m < limit => off + m >= n
                              /\ \A y \in 1..m : page[y] = list[off + y]
    BY <2>6, <1>4 DEF CutFrom
  <2>9. x \in 1..m
    BY <2>6, <2>7, <2>8, <1>3, <1>5
  <2>10. x \in DOMAIN page /\ page[x] = u
    BY <2>1, <2>7, <2>8, <2>9
  <2> QED
    BY <2>4, <2>5, <2>10 DEF Shown
<1>9. ASSUME NEW i \in 0..n PROVE Shown(i, limit) \subseteq all
  BY <1>3, <1>7 DEF Shown
<1>10. ASSUME NEW i \in 0..n, NEW j \in 0..n, i < j PROVE Shown(i, limit) \cap Shown(j, limit) = {}
  <2> SUFFICES ASSUME NEW k \in DOMAIN Page(i, limit), NEW l \in DOMAIN Page(j, limit),
                      Page(i, limit)[k] = Page(j, limit)[l]
               PROVE  FALSE
    BY DEF Shown
  <2>1. PICK a, b : a = i * limit /\ b = j * limit
    OBVIOUS
  <2>2. a \in Nat /\ b \in Nat /\ a + limit <= b
    <3>1. i \in Nat /\ j \in Nat
      BY <1>3
    <3> QED
      BY <2>1, <3>1, <1>5, <1>6, <1>10, PagesApart
  <2>3. /\ k \in 1..limit /\ a + k \in 1..n /\ l \in 1..limit /\ b + l \in 1..n
        /\ list[a + k] = list[b + l]
    BY <2>1, <1>7
  <2>4. a + k = b + l
    BY <2>3, <1>3
  <2> QED
    BY <2>2, <2>3, <2>4, <1>5
<1>11. ASSUME NEW i \in 0..n, NEW j \in 0..n, i # j PROVE Shown(i, limit) \cap Shown(j, limit) = {}
  <2>1. CASE i < j
    BY <2>1, <1>10
  <2>2. CASE j < i
    BY <2>2, <1>10
  <2> QED
    BY <2>1, <2>2, <1>3, <1>11
<1>12. ASSUME NEW i \in 0..n, NEW k \in DOMAIN Page(i, limit), NEW l \in DOMAIN Page(i, limit),
              Page(i, limit)[k] = Page(i, limit)[l]
       PROVE  k = l
  <2>1. PICK a : a = i * limit
    OBVIOUS
  <2>2. /\ k \in 1..limit /\ a + k \in 1..n /\ l \in 1..limit /\ a + l \in 1..n
        /\ list[a + k] = list[a + l] /\ a \in Nat
    BY <2>1, <1>6, <1>7, <1>12
  <2>3. a + k = a + l
    BY <2>2, <1>3
  <2> QED
    BY <2>2, <2>3, <1>5
<1> QED
  BY <1>8, <1>9, <1>11, <1>12

-----------------------------------------------------------------------------
(***************************************************************************)
(* The registry.  The host index is kept by every step that stores an      *)
(* agent, because the entry of the host it leaves goes with it.            *)
(***************************************************************************)
AgentsInv ==
    /\ agents \in [DOMAIN agents -> AgentRec] /\ DOMAIN agents \subseteq Ids
    /\ IsFiniteSet(DOMAIN agents)
    /\ byHost \in [DOMAIN byHost -> Ids] /\ DOMAIN byHost \subseteq Ids \cup {NoHost}
    /\ HostIndexSound

CallsInv ==
    /\ pending \subseteq Registration /\ begun \in 0..MaxPending
    /\ completing \subseteq Callers \X Registration
    /\ wire \subseteq Envelope /\ sent \subseteq Envelope /\ clock \in 0..MaxClock

RegistryInv == AgentsInv /\ CallsInv

LEMMA RegistryInvSound == RegistryInv => RegistrySound
<1> SUFFICES ASSUME RegistryInv PROVE RegistrySound
  OBVIOUS
<1>1. /\ IsFiniteSet(DOMAIN agents) /\ DOMAIN agents \subseteq Ids
      /\ \A u \in DOMAIN agents : agents[u] \in AgentRec
  BY DEF RegistryInv, AgentsInv
<1>2. \A u \in DOMAIN agents : agents[u].lastSeen \in Nat
  BY <1>1, RegistryAssumption DEF AgentRec
<1>3. PagesCover
  BY <1>1, <1>2, PagesHold
<1>4. RegistryTypeOK
  BY <1>1 DEF RegistryInv, AgentsInv, CallsInv, RegistryTypeOK
<1> QED
  BY <1>3, <1>4 DEF RegistryInv, AgentsInv, RegistrySound

(* What a host index may say after agent u is stored at host h: the entry   *)
(* of h is u, others are kept, and a kept one of a name is not u's old one. *)
Follows(u, old, h) ==
    /\ byHost' \in [DOMAIN byHost' -> Ids] /\ DOMAIN byHost' \subseteq Ids \cup {NoHost}
    /\ \A k \in DOMAIN byHost' :
          \/ k = h /\ byHost'[k] = u
          \/ /\ k \in DOMAIN byHost /\ byHost'[k] = byHost[k]
             /\ k = NoHost \/ k # old

LEMMA ReindexedFollows ==
  ASSUME AgentsInv, NEW u \in Ids, NEW old, NEW h \in Ids \cup {NoHost},
         byHost' = Reindexed(old, h, u)
  PROVE  Follows(u, old, h)
<1>1. PICK D : D = DOMAIN byHost
  OBVIOUS
<1>2. byHost \in [D -> Ids] /\ D \subseteq Ids \cup {NoHost}
  BY <1>1 DEF AgentsInv
<1>3. PICK kept : kept = IF old = h THEN byHost ELSE Without(byHost, old)
  OBVIOUS
<1>4. /\ kept \in [DOMAIN kept -> Ids] /\ DOMAIN kept \subseteq D
      /\ \A k \in DOMAIN kept : kept[k] = byHost[k] /\ (k # h => k # old)
  BY <1>1, <1>2, <1>3 DEF Without
<1>5. byHost' = Updated(kept, h, u)
  BY <1>3 DEF Reindexed
<1>6. /\ byHost' \in [DOMAIN byHost' -> Ids] /\ DOMAIN byHost' = DOMAIN kept \cup {h}
      /\ byHost'[h] = u /\ \A k \in DOMAIN kept : k # h => byHost'[k] = byHost[k]
  BY <1>4, <1>5 DEF Updated
<1> QED
  BY <1>1, <1>2, <1>4, <1>6 DEF Follows

LEMMA HeartbeatFollows ==
  ASSUME AgentsInv, NEW u \in Ids, NEW old, NEW h \in Ids \cup {NoHost},
         h = NoHost => old = NoHost, byHost' = HeartbeatIndexed(old, h, u)
  PROVE  Follows(u, old, h)
<1>1. byHost \in [DOMAIN byHost -> Ids] /\ DOMAIN byHost \subseteq Ids \cup {NoHost}
  BY DEF AgentsInv
<1>2. CASE h = NoHost
  BY <1>1, <1>2 DEF HeartbeatIndexed, Follows
<1>3. CASE h # NoHost /\ old = NoHost
  <2>1. byHost' = Updated(byHost, h, u)
    BY <1>3 DEF HeartbeatIndexed
  <2>2. /\ byHost' \in [DOMAIN byHost' -> Ids] /\ DOMAIN byHost' = DOMAIN byHost \cup {h}
        /\ byHost'[h] = u /\ \A k \in DOMAIN byHost : k # h => byHost'[k] = byHost[k]
    BY <1>1, <2>1 DEF Updated
  <2>3. ASSUME NEW k \in DOMAIN byHost', k # h
        PROVE  k \in DOMAIN byHost /\ byHost'[k] = byHost[k] /\ (k = NoHost \/ k # old)
    BY <1>3, <2>2, <2>3
  <2> QED
    BY <1>1, <2>2, <2>3 DEF Follows
<1>4. CASE h # NoHost /\ old # NoHost
  <2>1. byHost' = Reindexed(old, h, u)
    BY <1>4 DEF HeartbeatIndexed
  <2> QED
    BY <2>1, ReindexedFollows
<1> QED
  BY <1>2, <1>3, <1>4

LEMMA AgentStored ==
  ASSUME AgentsInv, NEW u \in Ids, NEW r \in AgentRec, agents' = Updated(agents, u, r),
         NEW old, u \in DOMAIN agents => old = agents[u].host, Follows(u, old, r.host)
  PROVE  AgentsInv'
<1>1. PICK A, D : A = DOMAIN agents /\ D = DOMAIN byHost
  OBVIOUS
<1>2. PICK h : h = r.host
  OBVIOUS
<1>4. /\ agents \in [A -> AgentRec] /\ A \subseteq Ids /\ IsFiniteSet(A)
      /\ \A k \in D : byHost[k] \in A /\ (k # NoHost => agents[byHost[k]].host = k)
  BY <1>1 DEF AgentsInv, HostIndexSound
<1>5. /\ agents' \in [A \cup {u} -> AgentRec] /\ DOMAIN agents' = A \cup {u}
      /\ agents'[u] = r /\ \A v \in A : v # u => agents'[v] = agents[v]
  BY <1>1, <1>4 DEF Updated
<1>6. IsFiniteSet(A \cup {u})
  BY <1>4, FS_AddElement
<1>7. /\ byHost' \in [DOMAIN byHost' -> Ids] /\ DOMAIN byHost' \subseteq Ids \cup {NoHost}
      /\ \A k \in DOMAIN byHost' :
            \/ k = h /\ byHost'[k] = u
            \/ k \in D /\ byHost'[k] = byHost[k] /\ (k = NoHost \/ k # old)
  BY <1>1, <1>2 DEF Follows
<1>11. ASSUME NEW k \in DOMAIN byHost'
       PROVE  byHost'[k] \in DOMAIN agents' /\ (k # NoHost => agents'[byHost'[k]].host = k)
  <2>1. CASE k = h /\ byHost'[k] = u
    BY <2>1, <1>2, <1>5
  <2>2. CASE k \in D /\ byHost'[k] = byHost[k] /\ (k = NoHost \/ k # old)
    <3>1. byHost[k] \in A /\ (k # NoHost => agents[byHost[k]].host = k)
      BY <2>2, <1>4
    <3>2. byHost'[k] \in DOMAIN agents'
      BY <2>2, <3>1, <1>5
    <3>3. ASSUME k # NoHost PROVE agents'[byHost'[k]].host = k
      <4>1. byHost[k] # u
        BY <2>2, <3>1, <3>3, <1>1
      <4> QED
        BY <2>2, <3>1, <3>3, <4>1, <1>5
    <3> QED
      BY <3>2, <3>3
  <2> QED
    BY <2>1, <2>2, <1>7
<1>12. HostIndexSound'
  BY <1>11 DEF HostIndexSound
<1>13. DOMAIN agents' \subseteq Ids
  BY <1>4, <1>5
<1> QED
  BY <1>5, <1>6, <1>7, <1>12, <1>13 DEF AgentsInv

LEMMA HeartbeatApplied ==
  ASSUME AgentsInv, NEW u \in DOMAIN agents, NEW host \in HostNames \cup {NoHost},
         NEW seen \in 0..MaxClock, NEW ls \in SUBSET Labels, ApplyHeartbeat(u, host, seen, ls)
  PROVE  AgentsInv'
<1>1. PICK new, kept : /\ new = IF host = NoHost THEN agents[u].host ELSE host
                       /\ kept = IF ls = {} THEN agents[u].labels ELSE ls
  OBVIOUS
<1>2. agents \in [DOMAIN agents -> AgentRec] /\ agents[u] \in AgentRec /\ u \in Ids
  BY DEF AgentsInv
<1>3. /\ new \in Ids \cup {NoHost} /\ kept \in SUBSET Labels
      /\ new = NoHost => agents[u].host = NoHost
  BY <1>1, <1>2, RegistryAssumption DEF AgentRec, Ids
<1>4. PICK r : r = [agents[u] EXCEPT !.lastSeen = seen, !.host = new, !.labels = kept]
  OBVIOUS
<1>5. r \in AgentRec /\ r.host = new
  BY <1>2, <1>3, <1>4 DEF AgentRec
<1>6. agents' = [agents EXCEPT ![u] = r]
  BY <1>1, <1>2, <1>4 DEF ApplyHeartbeat
<1>7. agents' = Updated(agents, u, r)
  BY <1>2, <1>6 DEF Updated
<1>8. byHost' = HeartbeatIndexed(agents[u].host, new, u)
  BY <1>1 DEF ApplyHeartbeat
<1>9. Follows(u, agents[u].host, r.host)
  BY <1>2, <1>3, <1>5, <1>8, HeartbeatFollows
<1> QED
  BY <1>2, <1>5, <1>7, <1>9, AgentStored

LEMMA HeartbeatCreated ==
  ASSUME AgentsInv, NEW id \in Ids, id \notin DOMAIN agents, NEW host \in HostNames \cup {NoHost},
         NEW seen \in 0..MaxClock, NEW ls \in SUBSET Labels, NewAgentFromHeartbeat(id, host, seen, ls)
  PROVE  AgentsInv'
<1>1. PICK h, r : /\ h = IF host = NoHost THEN id ELSE host
                  /\ r = [host |-> h, key |-> NoKey, lastSeen |-> seen, labels |-> ls]
  OBVIOUS
<1>2. h \in Ids
  BY <1>1 DEF Ids
<1>3. r \in AgentRec /\ r.host = h
  BY <1>1, <1>2 DEF AgentRec
<1>4. agents' = Updated(agents, id, r) /\ byHost' = Updated(byHost, h, id)
  BY <1>1 DEF NewAgentFromHeartbeat
<1>5. byHost' = Reindexed(h, h, id)
  BY <1>4 DEF Reindexed
<1>6. Follows(id, h, r.host)
  BY <1>2, <1>3, <1>5, ReindexedFollows
<1> QED
  BY <1>3, <1>4, <1>6, AgentStored

LEMMA HeartbeatEffectInv ==
  ASSUME AgentsInv, NEW id \in Ids, NEW host \in HostNames \cup {NoHost},
         NEW seen \in 0..MaxClock, NEW ls \in SUBSET Labels, HeartbeatEffect(id, host, seen, ls)
  PROVE  AgentsInv'
<1>1. CASE id \in DOMAIN agents /\ ApplyHeartbeat(id, host, seen, ls)
  BY <1>1, HeartbeatApplied
<1>2. ASSUME NEW u \in HostedAt(id), ApplyHeartbeat(u, host, seen, ls) PROVE AgentsInv'
  BY <1>2, HeartbeatApplied DEF HostedAt
<1>3. CASE id \notin DOMAIN agents /\ NewAgentFromHeartbeat(id, host, seen, ls)
  BY <1>3, HeartbeatCreated
<1> QED
  BY <1>1, <1>2, <1>3 DEF HeartbeatEffect

LEMMA CompleteStoreInv ==
  ASSUME RegistryInv, NEW c, NEW p \in Registration, CompleteStore(c, p)
  PROVE  RegistryInv'
<1>1. PICK u, fresh, old : /\ u = p.key
                           /\ fresh = [host |-> p.host, key |-> u, lastSeen |-> clock, labels |-> {}]
                           /\ old = IF u \in DOMAIN agents THEN agents[u] ELSE fresh
  OBVIOUS
<1>2. /\ u \in Devices /\ u \in Ids /\ p.host \in Ids \cup {NoHost}
      /\ clock \in 0..MaxClock /\ agents \in [DOMAIN agents -> AgentRec]
  BY <1>1 DEF Registration, Ids, RegistryInv, CallsInv, AgentsInv
<1>3. fresh \in AgentRec /\ fresh.host = p.host
  BY <1>1, <1>2 DEF AgentRec
<1>4. old \in AgentRec
  BY <1>1, <1>2, <1>3
<1>5. PICK r : r = [old EXCEPT !.host = p.host, !.key = u, !.lastSeen = clock]
  OBVIOUS
<1>6. r \in AgentRec /\ r.host = p.host
  BY <1>2, <1>4, <1>5 DEF AgentRec
<1>7. agents' = Updated(agents, u, r) /\ byHost' = Reindexed(old.host, p.host, u)
  BY <1>1, <1>5 DEF CompleteStore
<1>8. /\ u \in DOMAIN agents => old.host = agents[u].host
      /\ Follows(u, old.host, r.host)
  BY <1>1, <1>2, <1>6, <1>7, ReindexedFollows DEF RegistryInv
<1>9. AgentsInv'
  BY <1>2, <1>6, <1>7, <1>8, AgentStored DEF RegistryInv
<1>10. CallsInv'
  BY DEF CompleteStore, RegistryInv, CallsInv
<1> QED
  BY <1>9, <1>10 DEF RegistryInv

LEMMA RegistryInvInit == RegistryInit => RegistryInv
<1> SUFFICES ASSUME RegistryInit PROVE RegistryInv
  OBVIOUS
<1>1. DOMAIN agents = {} /\ DOMAIN byHost = {}
  BY DEF RegistryInit
<1>2. agents \in [DOMAIN agents -> AgentRec] /\ byHost \in [DOMAIN byHost -> Ids]
  BY <1>1 DEF RegistryInit
<1>3. AgentsInv
  BY <1>1, <1>2, FS_EmptySet DEF AgentsInv, HostIndexSound
<1>4. CallsInv
  BY RegistryAssumption DEF RegistryInit, CallsInv
<1> QED
  BY <1>3, <1>4 DEF RegistryInv

LEMMA AgentsInvKept ==
  ASSUME AgentsInv, UNCHANGED <<agents, byHost>>
  PROVE  AgentsInv'
  BY DEF AgentsInv, HostIndexSound

LEMMA RegisterInitInv ==
  ASSUME RegistryInv, NEW d \in Devices, NEW h \in {HostOf[d], NoHost}, RegisterInit(d, h)
  PROVE  RegistryInv'
<1>1. PICK p : p = [reg |-> begun + 1, key |-> d, host |-> h]
  OBVIOUS
<1>2. begun \in 0..MaxPending /\ begun + 1 \in 1..MaxPending /\ h \in HostNames \cup {NoHost}
  BY RegistryAssumption DEF RegistryInv, CallsInv, RegisterInit
<1>3. p \in Registration
  BY <1>1, <1>2 DEF Registration
<1>4. CallsInv'
  BY <1>1, <1>2, <1>3, RegistryAssumption DEF RegisterInit, RegistryInv, CallsInv
<1> QED
  BY <1>4, AgentsInvKept DEF RegistryInv, RegisterInit

LEMMA PublishInv ==
  ASSUME RegistryInv, NEW m \in Messages, NEW targets \in SUBSET DOMAIN agents, Publish(m, targets)
  PROVE  RegistryInv'
<1>1. DOMAIN agents \subseteq Ids
  BY DEF RegistryInv, AgentsInv
<1>2. [msg: {m}, target: targets] \subseteq Envelope
  BY <1>1 DEF Envelope
<1>3. CallsInv'
  BY <1>2 DEF Publish, RegistryInv, CallsInv
<1> QED
  BY <1>3, AgentsInvKept DEF RegistryInv, Publish

(* For any devices, hosts and callers and any page size: the host index    *)
(* that complete and the heartbeats keep in Store leads to an agent of     *)
(* that host, and reading GET /agents page after page shows every agent    *)
(* once.                                                                   *)
THEOREM RegistryHolds == RegistrySpec => []RegistrySound
<1>1. RegistryInv /\ [RegistryNext]_registryVars => RegistryInv'
  <2> SUFFICES ASSUME RegistryInv, [RegistryNext]_registryVars PROVE RegistryInv'
    OBVIOUS
  <2>1. CASE RegistryTick
    <3>1. CallsInv'
      BY <2>1, RegistryAssumption DEF RegistryTick, RegistryInv, CallsInv
    <3> QED
      BY <2>1, <3>1, AgentsInvKept DEF RegistryTick, RegistryInv
  <2>2. ASSUME NEW d \in Devices, NEW h \in {HostOf[d], NoHost}, RegisterInit(d, h) PROVE RegistryInv'
    BY <2>2, RegisterInitInv
  <2>3. ASSUME NEW c \in Callers, NEW p \in pending, CompleteLookup(c, p) PROVE RegistryInv'
    <3>1. CallsInv'
      BY <2>3 DEF CompleteLookup, RegistryInv, CallsInv
    <3> QED
      BY <2>3, <3>1, AgentsInvKept DEF CompleteLookup, RegistryInv
  <2>4. ASSUME NEW q \in completing, CompleteStore(q[1], q[2]) PROVE RegistryInv'
    <3>1. q[2] \in Registration
      BY DEF RegistryInv, CallsInv
    <3> QED
      BY <2>4, <3>1, CompleteStoreInv
  <2>5. ASSUME NEW id \in Ids, NEW h \in HostNames \cup {NoHost}, NEW ls \in SUBSET Labels,
               Heartbeat(id, h, ls) \/ BatchHeartbeat(id, h, ls)
        PROVE  RegistryInv'
    <3>1. AgentsInv /\ clock \in 0..MaxClock
      BY DEF RegistryInv, CallsInv
    <3>2. CASE Heartbeat(id, h, ls)
      BY <3>1, <3>2, HeartbeatEffectInv DEF Heartbeat, RegistryInv, CallsInv
    <3>3. CASE BatchHeartbeat(id, h, ls)
      <4>1. AgentsInv'
        BY <3>1, <3>3, HeartbeatApplied, HeartbeatCreated DEF BatchHeartbeat
      <4> QED
        BY <4>1, <3>3 DEF BatchHeartbeat, RegistryInv, CallsInv
    <3> QED
      BY <2>5, <3>2, <3>3
  <2>6. ASSUME NEW u \in DOMAIN agents, NEW add \in SUBSET Labels, NEW remove \in SUBSET Labels,
               UpdateLabels(u, add, remove)
        PROVE  RegistryInv'
    <3>1. PICK r : r = [agents[u] EXCEPT !.labels = (@ \cup add) \ remove]
      OBVIOUS
    <3>2. /\ agents \in [DOMAIN agents -> AgentRec] /\ agents[u] \in AgentRec
          /\ byHost' = byHost /\ HostIndexSound
      BY <2>6 DEF RegistryInv, AgentsInv, UpdateLabels
    <3>3. r \in AgentRec /\ r.host = agents[u].host
      BY <3>1, <3>2 DEF AgentRec
    <3>4. agents' = [agents EXCEPT ![u] = r]
      BY <2>6, <3>1, <3>2 DEF UpdateLabels
    <3>5. /\ DOMAIN agents' = DOMAIN agents /\ agents' \in [DOMAIN agents -> AgentRec]
          /\ \A v \in DOMAIN agents : agents'[v].host = agents[v].host
      BY <3>2, <3>3, <3>4
    <3>6. HostIndexSound'
      BY <3>2, <3>5 DEF HostIndexSound
    <3>7. AgentsInv'
      BY <3>2, <3>5, <3>6 DEF RegistryInv, AgentsInv
    <3> QED
      BY <2>6, <3>7 DEF UpdateLabels, RegistryInv, CallsInv
  <2>7. ASSUME NEW u \in DOMAIN agents, NEW l \in Labels,
               UpdateLabels(u, {l}, {}) \/ UpdateLabels(u, {}, {l})
        PROVE  RegistryInv'
    <3>1. {l} \in SUBSET Labels /\ {} \in SUBSET Labels
      OBVIOUS
    <3> QED
      BY <2>6, <2>7, <3>1
  <2>8. ASSUME NEW m \in Messages, NEW u \in DOMAIN agents, SendMessage(m, u) PROVE RegistryInv'
    BY <2>8, PublishInv DEF SendMessage
  <2>9. ASSUME NEW m \in Messages, NEW f \in SUBSET DOMAIN agents, Broadcast(m, f) PROVE RegistryInv'
    <3>1. PICK targets : targets = {u \in DOMAIN agents : Connected(u) /\ (f = {} \/ u \in f)}
      OBVIOUS
    <3>2. targets \in SUBSET DOMAIN agents /\ Publish(m, targets)
      BY <2>9, <3>1 DEF Broadcast
    <3> QED
      BY <3>2, PublishInv
  <2>10. CASE UNCHANGED registryVars
    BY <2>10, AgentsInvKept DEF registryVars, RegistryInv, CallsInv
  <2> QED
    BY <2>1, <2>2, <2>3, <2>4, <2>5, <2>7, <2>8, <2>9, <2>10 DEF RegistryNext
<1> QED
  BY <1>1, RegistryInvInit, RegistryInvSound, PTL DEF RegistrySpec
-----------------------------------------------------------------------------
(***************************************************************************)
(* The gateway.  A connection that has entered the table and not been      *)
(* cleaned up is attached; the name it carries leads to it as long as no   *)
(* entry was overwritten.                                                  *)
(***************************************************************************)
Attached == {"open", "completing", "rekey", "closing"}

ConnTypes ==
    /\ session \in [Sessions -> SessionRec]
    /\ table \in [DOMAIN table -> Sessions] /\ DOMAIN table \subseteq Ids
    /\ beats \subseteq [id: Ids, seen: 0..MaxClock]
    /\ writing = Nobody \/ writing \in [env: Envelope, to: Sessions]
    /\ delivered \subseteq [env: Envelope, dev: Devices]
    /\ replaced \in BOOLEAN

Owned(s) ==
    /\ session[s].dev \in Devices /\ session[s].id \in Ids
    /\ HostNamesDiffer => session[s].id \in HeaderNames(session[s].dev)

NamesOwned == \A s \in Sessions : session[s].stage # "unused" => Owned(s)

CallsOwned ==
    /\ \A s \in Sessions : session[s].stage = "rekey" => session[s].as = session[s].dev
    /\ \A q \in completing : q[1] \in Sessions =>
          session[q[1]].stage # "unused" /\ q[2].key = session[q[1]].dev

AttachedFound ==
    ~replaced => \A s \in Sessions :
        session[s].stage \in Attached => session[s].id \in DOMAIN table /\ table[session[s].id] = s

MailOwned ==
    /\ writing # Nobody =>
          /\ session[writing.to].stage # "unused"
          /\ HostNamesDiffer => writing.env.target \in HeaderNames(session[writing.to].dev)
    /\ DeliveredToOwner

ConnInv ==
    ConnTypes /\ NamesOwned /\ CallsOwned /\ TableHoldsLive /\ AttachedFound /\ MailOwned

GatewayInv == RegistryInv /\ ConnInv

LEMMA GatewayInvSound == GatewayInv => GatewaySound
<1> SUFFICES ASSUME GatewayInv PROVE GatewaySound
  OBVIOUS
<1>1. GatewayTypeOK
  BY DEF GatewayInv, ConnInv, ConnTypes, GatewayTypeOK
<1>2. OpenIsReachable
  BY DEF GatewayInv, ConnInv, AttachedFound, Attached, OpenIsReachable, Live
<1> QED
  BY <1>1, <1>2 DEF GatewayInv, ConnInv, MailOwned, GatewaySound

LEMMA GatewayInvInit == GatewayInit => GatewayInv
<1> SUFFICES ASSUME GatewayInit PROVE GatewayInv
  OBVIOUS
<1>1. RegistryInv
  BY RegistryInvInit DEF GatewayInit
<1>2. DOMAIN table = {} /\ table \in [DOMAIN table -> Sessions]
  BY DEF GatewayInit
<1>3. /\ \A s \in Sessions : session[s].stage = "unused"
      /\ session \in [Sessions -> SessionRec]
  BY DEF GatewayInit, SessionRec, Stages
<1>4. ConnTypes
  BY <1>2, <1>3 DEF GatewayInit, ConnTypes
<1>5. completing = {}
  BY DEF GatewayInit, RegistryInit
<1>6. NamesOwned /\ CallsOwned /\ TableHoldsLive /\ AttachedFound
  BY <1>2, <1>3, <1>5 DEF NamesOwned, CallsOwned, TableHoldsLive, AttachedFound, Attached
<1>7. MailOwned
  BY DEF GatewayInit, MailOwned, DeliveredToOwner
<1> QED
  BY <1>1, <1>4, <1>6, <1>7 DEF GatewayInv, ConnInv

(* A step that only moves one attached or closed connection to another     *)
(* stage.                                                                  *)
LEMMA StageStep ==
  ASSUME ConnInv, NEW s \in Sessions, NEW r \in SessionRec, session' = [session EXCEPT ![s] = r],
         r.dev = session[s].dev, r.id = session[s].id,
         \/ session[s].stage \in Attached /\ r.stage \in Attached
         \/ session[s].stage = "closed" /\ r.stage = "closed",
         r.stage = "rekey" => r.as = r.dev,
         \A q \in completing' : q[1] \in Sessions =>
            session[q[1]].stage # "unused" /\ q[2].key = session[q[1]].dev,
         UNCHANGED <<table, beats, writing, delivered, replaced>>
  PROVE  ConnInv'
<1>1. /\ session \in [Sessions -> SessionRec] /\ table \in [DOMAIN table -> Sessions]
      /\ session' \in [Sessions -> SessionRec]
      /\ session'[s] = r /\ \A t \in Sessions : t # s => session'[t] = session[t]
  BY DEF ConnInv, ConnTypes
<1>2. ConnTypes'
  BY <1>1 DEF ConnInv, ConnTypes
<1>3. \A t \in Sessions : /\ session'[t].dev = session[t].dev /\ session'[t].id = session[t].id
                          /\ session'[t].stage # "unused" <=> session[t].stage # "unused"
                          /\ session'[t].stage \in Attached <=> session[t].stage \in Attached
  BY <1>1 DEF Attached
<1>4. NamesOwned'
  BY <1>3 DEF ConnInv, NamesOwned, Owned
<1>5. CallsOwned'
  BY <1>1, <1>3 DEF ConnInv, CallsOwned
<1>6. TableHoldsLive'
  <2>1. \A t \in Sessions : session[t].stage \in Stages \ {"unused", "upgraded", "closed"}
                            <=> session[t].stage \in Attached
    BY <1>1 DEF Stages, Attached
  <2>2. \A t \in Sessions : session'[t].stage \in Stages \ {"unused", "upgraded", "closed"}
                            <=> session'[t].stage \in Attached
    BY <1>1 DEF Stages, Attached
  <2> QED
    BY <2>1, <2>2, <1>1, <1>3 DEF ConnInv, TableHoldsLive
<1>7. AttachedFound'
  BY <1>3 DEF ConnInv, AttachedFound
<1>8. MailOwned'
  <2>1. writing # Nobody => writing.to \in Sessions
    BY DEF ConnInv, ConnTypes
  <2> QED
    BY <2>1, <1>3 DEF ConnInv, MailOwned, DeliveredToOwner
<1> QED
  BY <1>2, <1>4, <1>5, <1>6, <1>7, <1>8 DEF ConnInv

(* A step of the actions API alone.                                        *)
LEMMA ConnKept ==
  ASSUME ConnInv, UNCHANGED gatewayOnly,
         \A q \in completing' : q[1] \in Sessions =>
            session[q[1]].stage # "unused" /\ q[2].key = session[q[1]].dev
  PROVE  ConnInv'
<1>1. UNCHANGED <<session, table, beats, writing, delivered, replaced>>
  BY DEF gatewayOnly
<1>2. CallsOwned'
  BY <1>1 DEF ConnInv, CallsOwned
<1>3. NamesOwned' /\ AttachedFound'
  BY <1>1 DEF ConnInv, NamesOwned, Owned, AttachedFound
<1>4. TableHoldsLive' /\ MailOwned' /\ ConnTypes'
  BY <1>1 DEF ConnInv, ConnTypes, TableHoldsLive, MailOwned, DeliveredToOwner
<1> QED
  BY <1>2, <1>3, <1>4 DEF ConnInv

LEMMA UpgradeStep ==
  ASSUME ConnInv, NEW s \in Sessions, NEW d \in Devices, NEW id, Upgrade(s, d, id)
  PROVE  ConnInv'
<1>1. PICK r : r = [session[s] EXCEPT !.stage = "upgraded", !.dev = d, !.id = id]
  OBVIOUS
<1>2. id \in HeaderNames(d) /\ id \in Ids /\ session[s].stage = "unused" /\ UNCHANGED completing
  BY RegistryAssumption DEF Upgrade, HeaderNames, Ids, registryVars
<1>3. /\ session \in [Sessions -> SessionRec] /\ table \in [DOMAIN table -> Sessions]
      /\ UNCHANGED <<table, beats, writing, delivered, replaced>>
  BY DEF ConnInv, ConnTypes, Upgrade
<1>4. /\ r \in SessionRec /\ r.stage = "upgraded" /\ r.dev = d /\ r.id = id
  BY <1>1, <1>2, <1>3 DEF SessionRec, Stages
<1>5. session' = [session EXCEPT ![s] = r]
  BY <1>1, <1>3 DEF Upgrade
<1>6. /\ session' \in [Sessions -> SessionRec]
      /\ session'[s] = r /\ \A t \in Sessions : t # s => session'[t] = session[t]
  BY <1>3, <1>4, <1>5
<1>7. ConnTypes'
  BY <1>3, <1>6 DEF ConnInv, ConnTypes
<1>8. NamesOwned'
  BY <1>2, <1>4, <1>6 DEF ConnInv, NamesOwned, Owned
<1>9. CallsOwned'
  BY <1>2, <1>4, <1>6 DEF ConnInv, CallsOwned
<1>10. TableHoldsLive'
  <2>1. \A k \in DOMAIN table : table[k] \in Sessions /\ table[k] # s
    BY <1>2, <1>3 DEF ConnInv, TableHoldsLive
  <2> QED
    BY <2>1, <1>3, <1>6 DEF ConnInv, TableHoldsLive
<1>11. AttachedFound'
  BY <1>3, <1>4, <1>6 DEF ConnInv, AttachedFound, Attached
<1>12. MailOwned'
  <2>1. writing # Nobody => writing.to \in Sessions /\ writing.to # s
    BY <1>2 DEF ConnInv, ConnTypes, MailOwned
  <2> QED
    BY <2>1, <1>3, <1>6 DEF ConnInv, MailOwned, DeliveredToOwner
<1> QED
  BY <1>7, <1>8, <1>9, <1>10, <1>11, <1>12 DEF ConnInv

LEMMA AttachStep ==
  ASSUME ConnInv, NEW s \in Sessions, Attach(s)
  PROVE  ConnInv'
<1>1. PICK r, id : r = [session[s] EXCEPT !.stage = "open"] /\ id = session[s].id
  OBVIOUS
<1>2. /\ session \in [Sessions -> SessionRec] /\ table \in [DOMAIN table -> Sessions]
      /\ DOMAIN table \subseteq Ids /\ session[s].stage = "upgraded" /\ id \in Ids
      /\ UNCHANGED <<completing, beats, writing, delivered>>
  BY <1>1 DEF ConnInv, ConnTypes, NamesOwned, Owned, Attach, registryVars
<1>3. r \in SessionRec /\ r.stage = "open" /\ r.id = id /\ r.dev = session[s].dev
  BY <1>1, <1>2 DEF SessionRec, Stages
<1>4. session' = [session EXCEPT ![s] = r]
  BY <1>1, <1>2 DEF Attach
<1>5. /\ session' \in [Sessions -> SessionRec]
      /\ session'[s] = r /\ \A t \in Sessions : t # s => session'[t] = session[t]
  BY <1>2, <1>3, <1>4
<1>6. table' = Updated(Without(table, id), id, s) /\ replaced' = (replaced \/ id \in DOMAIN table)
  BY <1>1 DEF Attach, Enter
<1>7. /\ table' \in [DOMAIN table' -> Sessions] /\ DOMAIN table' = DOMAIN table \cup {id}
      /\ table'[id] = s /\ \A k \in DOMAIN table : k # id => table'[k] = table[k]
  BY <1>2, <1>6 DEF Updated, Without
<1>8. ConnTypes'
  BY <1>2, <1>5, <1>6, <1>7 DEF ConnInv, ConnTypes
<1>9. NamesOwned' /\ CallsOwned'
  BY <1>1, <1>2, <1>3, <1>5, ZenonT(40) DEF ConnInv, NamesOwned, Owned, CallsOwned
<1>10. TableHoldsLive'
  <2>1. \A k \in DOMAIN table : table[k] \in Sessions /\ table[k] # s
    BY <1>2 DEF ConnInv, TableHoldsLive
  <2>2. "open" \in Stages \ {"unused", "upgraded", "closed"}
    BY DEF Stages
  <2> QED
    BY <2>1, <2>2, <1>3, <1>5, <1>7 DEF ConnInv, TableHoldsLive
<1>11. AttachedFound'
  <2> SUFFICES ASSUME ~replaced', NEW t \in Sessions, session'[t].stage \in Attached
               PROVE  session'[t].id \in DOMAIN table' /\ table'[session'[t].id] = t
    BY DEF AttachedFound
  <2>1. ~replaced /\ id \notin DOMAIN table
    BY <1>6 DEF ConnInv, ConnTypes
  <2>2. CASE t = s
    BY <2>2, <1>3, <1>5, <1>7
  <2>3. CASE t # s
    BY <2>1, <2>3, <1>5, <1>7 DEF ConnInv, AttachedFound
  <2> QED
    BY <2>2, <2>3
<1>12. MailOwned'
  <2>1. writing # Nobody => writing.to \in Sessions
    BY DEF ConnInv, ConnTypes
  <2> QED
    BY <2>1, <1>2, <1>3, <1>5 DEF ConnInv, MailOwned, DeliveredToOwner
<1> QED
  BY <1>8, <1>9, <1>10, <1>11, <1>12 DEF ConnInv

LEMMA CleanupStep ==
  ASSUME ConnInv, NEW s \in Sessions, Cleanup(s)
  PROVE  ConnInv'
<1>1. PICK r, id : r = [session[s] EXCEPT !.stage = "closed"] /\ id = session[s].id
  OBVIOUS
<1>2. /\ session \in [Sessions -> SessionRec] /\ table \in [DOMAIN table -> Sessions]
      /\ DOMAIN table \subseteq Ids /\ session[s].stage = "closing"
      /\ UNCHANGED <<completing, beats, writing, delivered, replaced>>
  BY DEF ConnInv, ConnTypes, Cleanup, registryVars
<1>3. r \in SessionRec /\ r.stage = "closed" /\ r.id = id /\ r.dev = session[s].dev
  BY <1>1, <1>2 DEF SessionRec, Stages
<1>4. session' = [session EXCEPT ![s] = r]
  BY <1>1, <1>2 DEF Cleanup
<1>5. /\ session' \in [Sessions -> SessionRec]
      /\ session'[s] = r /\ \A t \in Sessions : t # s => session'[t] = session[t]
  BY <1>2, <1>3, <1>4
<1>6. table' = Without(table, id)
  BY <1>1 DEF Cleanup
<1>7. /\ table' \in [DOMAIN table' -> Sessions] /\ DOMAIN table' = DOMAIN table \ {id}
      /\ \A k \in DOMAIN table' : table'[k] = table[k]
  BY <1>2, <1>6 DEF Without
<1>8. ConnTypes'
  BY <1>2, <1>5, <1>7 DEF ConnInv, ConnTypes
<1>9. NamesOwned' /\ CallsOwned'
  BY <1>1, <1>2, <1>3, <1>5, ZenonT(40) DEF ConnInv, NamesOwned, Owned, CallsOwned
<1>10. TableHoldsLive'
  <2>1. \A k \in DOMAIN table' : k \in DOMAIN table /\ table[k] \in Sessions /\ table[k] # s
    BY <1>1, <1>2, <1>7 DEF ConnInv, TableHoldsLive
  <2> QED
    BY <2>1, <1>5, <1>7 DEF ConnInv, TableHoldsLive
<1>11. AttachedFound'
  <2> SUFFICES ASSUME ~replaced, NEW t \in Sessions, session'[t].stage \in Attached
               PROVE  session'[t].id \in DOMAIN table' /\ table'[session'[t].id] = t
    BY <1>2 DEF AttachedFound
  <2>1. t # s /\ session'[t] = session[t]
    BY <1>3, <1>5 DEF Attached
  <2>2. session[t].id \in DOMAIN table /\ table[session[t].id] = t
    BY <2>1 DEF ConnInv, AttachedFound
  <2>3. id \in DOMAIN table /\ table[id] = s
    BY <1>1, <1>2 DEF ConnInv, AttachedFound, Attached
  <2> QED
    BY <2>1, <2>2, <2>3, <1>7
<1>12. MailOwned'
  <2>1. writing # Nobody => writing.to \in Sessions
    BY DEF ConnInv, ConnTypes
  <2> QED
    BY <2>1, <1>2, <1>3, <1>5 DEF ConnInv, MailOwned, DeliveredToOwner
<1> QED
  BY <1>8, <1>9, <1>10, <1>11, <1>12 DEF ConnInv

(* The connection that moves to the UID is the one the table holds under   *)
(* the name; if devices do not share host names it is of the same device.  *)
LEMMA RekeyStep ==
  ASSUME ConnInv, NEW s \in Sessions, Rekey(s)
  PROVE  ConnInv'
<1>1. PICK id, uid, b : /\ id = session[s].id /\ uid = session[s].as
                        /\ b = [session[s] EXCEPT !.stage = "open", !.as = Nobody]
  OBVIOUS
<1>2. /\ session \in [Sessions -> SessionRec] /\ table \in [DOMAIN table -> Sessions]
      /\ DOMAIN table \subseteq Ids /\ session[s].stage = "rekey" /\ uid = session[s].dev
      /\ uid \in Devices /\ uid \in Ids
      /\ UNCHANGED <<completing, beats, writing, delivered>>
  BY <1>1 DEF ConnInv, ConnTypes, CallsOwned, NamesOwned, Owned, Rekey, registryVars, Ids
<1>3. b \in SessionRec /\ b.stage = "open" /\ b.id = id /\ b.dev = uid /\ b.as = Nobody
  BY <1>1, <1>2 DEF SessionRec, Stages
<1>4. PICK back : back = [session EXCEPT ![s] = b]
  OBVIOUS
<1>5. back = [session EXCEPT ![s].stage = "open", ![s].as = Nobody]
  BY <1>1, <1>2, <1>4
<1>6. CASE /\ session' = back /\ UNCHANGED <<table, replaced>>
  <2>1. session[s].stage \in Attached /\ b.stage \in Attached /\ b.stage # "rekey"
    BY <1>2, <1>3 DEF Attached
  <2>2. \A q \in completing' : q[1] \in Sessions =>
            session[q[1]].stage # "unused" /\ q[2].key = session[q[1]].dev
    BY <1>2 DEF ConnInv, CallsOwned
  <2>3. b.id = session[s].id /\ b.dev = session[s].dev
    BY <1>1, <1>2, <1>3
  <2> QED
    BY <2>1, <2>2, <2>3, <1>2, <1>3, <1>4, <1>6, StageStep
<1>7. CASE /\ uid # id /\ id \in DOMAIN table
           /\ session' = [back EXCEPT ![table[id]].id = uid]
           /\ table' = Updated(Without(table, id), uid, table[id])
           /\ replaced' = (replaced \/ uid \in DOMAIN table \/ table[id] # s)
  <2>1. PICK t \in Sessions : t = table[id]
    BY <1>2, <1>7
  <2>2. session[t].id = id /\ session[t].stage \in Attached
    BY <2>1, <1>2, <1>7 DEF ConnInv, TableHoldsLive, Stages, Attached
  <2>3. \A k \in DOMAIN table : k # id => table[k] # t
    BY <2>2 DEF ConnInv, TableHoldsLive
  <2>4. PICK r : r = [back[t] EXCEPT !.id = uid]
    OBVIOUS
  <2>5. back \in [Sessions -> SessionRec] /\ back[s] = b
        /\ \A u \in Sessions : u # s => back[u] = session[u]
    BY <1>2, <1>3, <1>4
  <2>6. back[t] \in SessionRec /\ back[t].stage \in Attached /\ back[t].dev = session[t].dev
    BY <2>2, <2>5, <1>1, <1>2, <1>3 DEF Attached
  <2>7. r \in SessionRec /\ r.id = uid /\ r.stage = back[t].stage /\ r.dev = session[t].dev
        /\ r.as = back[t].as
    BY <2>4, <2>6, <1>2 DEF SessionRec
  <2>8. session' = [back EXCEPT ![t] = r]
    BY <2>1, <2>4, <2>5, <1>7
  <2>9. /\ session' \in [Sessions -> SessionRec] /\ session'[t] = r
        /\ \A u \in Sessions : u # t => session'[u] = back[u]
    BY <2>5, <2>7, <2>8
  <2>10. \A u \in Sessions : /\ session'[u].dev = session[u].dev
                             /\ u # t => session'[u].id = session[u].id
                             /\ session'[u].stage # "unused" <=> session[u].stage # "unused"
                             /\ session'[u].stage \in Attached <=> session[u].stage \in Attached
                             /\ session'[u].stage = "rekey" => session[u].stage = "rekey" /\ u # s
                             /\ u # s => session'[u].as = session[u].as
    BY <2>2, <2>5, <2>6, <2>7, <2>9, <1>1, <1>2, <1>3, ZenonT(40) DEF Attached
  <2>11. /\ table' \in [DOMAIN table' -> Sessions]
         /\ DOMAIN table' = (DOMAIN table \ {id}) \cup {uid} /\ table'[uid] = t
         /\ \A k \in DOMAIN table : k # id /\ k # uid => table'[k] = table[k]
    BY <2>1, <1>2, <1>7 DEF Updated, Without
  <2>12. ConnTypes'
    BY <2>9, <2>11, <1>2, <1>7 DEF ConnInv, ConnTypes
  <2>13. NamesOwned'
    <3> SUFFICES ASSUME NEW u \in Sessions, session'[u].stage # "unused" PROVE Owned(u)'
      BY DEF NamesOwned
    <3>1. Owned(u) /\ Owned(t) /\ Owned(s)
      BY <2>2, <2>10, <1>2 DEF ConnInv, NamesOwned, Attached
    <3>2. CASE u # t
      BY <3>1, <3>2, <2>10 DEF Owned
    <3>3. CASE u = t
      <4>1. session'[u].dev \in Devices /\ session'[u].id = uid /\ session'[u].dev = session[t].dev
        BY <3>1, <3>3, <2>7, <2>9 DEF Owned
      <4>2. ASSUME HostNamesDiffer PROVE uid \in HeaderNames(session[t].dev)
        <5>1. id \in HeaderNames(session[t].dev) /\ id \in HeaderNames(session[s].dev)
          BY <4>2, <3>1, <2>2, <1>1 DEF Owned
        <5>2. session[t].dev \in Devices /\ session[s].dev \in Devices
          BY <3>1 DEF Owned
        <5>3. session[t].dev = session[s].dev
          BY <4>2, <5>1, <5>2, RegistryAssumption DEF HeaderNames, HostNamesDiffer
        <5> QED
          BY <5>3, <1>2 DEF HeaderNames
      <4> QED
        BY <4>1, <4>2, <1>2 DEF Owned
    <3> QED
      BY <3>2, <3>3
  <2>14. CallsOwned'
    BY <2>10, <1>2 DEF ConnInv, CallsOwned
  <2>15. TableHoldsLive'
    <3> SUFFICES ASSUME NEW k \in DOMAIN table'
                 PROVE  /\ session'[table'[k]].id = k
                        /\ session'[table'[k]].stage \in Stages \ {"unused", "upgraded", "closed"}
      BY DEF TableHoldsLive
    <3>1. \A u \in Sessions : session'[u].stage \in Attached
                              => session'[u].stage \in Stages \ {"unused", "upgraded", "closed"}
      BY DEF Attached, Stages
    <3>2. CASE k = uid
      BY <3>1, <3>2, <2>6, <2>7, <2>9, <2>11
    <3>3. CASE k # uid
      <4>1. k \in DOMAIN table /\ k # id /\ table'[k] = table[k] /\ table[k] \in Sessions
        BY <3>3, <2>11, <1>2
      <4>2. table[k] # t /\ session[table[k]].id = k /\ session[table[k]].stage \in Attached
        BY <4>1, <2>3, <1>2 DEF ConnInv, TableHoldsLive, Stages, Attached
      <4> QED
        BY <4>1, <4>2, <3>1, <2>10
    <3> QED
      BY <3>2, <3>3
  <2>16. AttachedFound'
    <3> SUFFICES ASSUME ~replaced', NEW u \in Sessions, session'[u].stage \in Attached
                 PROVE  session'[u].id \in DOMAIN table' /\ table'[session'[u].id] = u
      BY DEF AttachedFound
    <3>1. ~replaced /\ uid \notin DOMAIN table /\ t = s
      BY <2>1, <1>7 DEF ConnInv, ConnTypes
    <3>2. CASE u = t
      BY <3>2, <2>7, <2>9, <2>11
    <3>3. CASE u # t
      <4>1. session[u].id \in DOMAIN table /\ table[session[u].id] = u
        BY <3>1, <2>10 DEF ConnInv, AttachedFound
      <4>2. session[u].id # id /\ session[u].id # uid /\ session'[u].id = session[u].id
        BY <4>1, <3>1, <3>3, <2>1, <2>10
      <4> QED
        BY <4>1, <4>2, <2>11
    <3> QED
      BY <3>2, <3>3
  <2>17. MailOwned'
    <3>1. writing # Nobody => writing.to \in Sessions
      BY DEF ConnInv, ConnTypes
    <3> QED
      BY <3>1, <2>10, <1>2 DEF ConnInv, MailOwned, DeliveredToOwner
  <2> QED
    BY <2>12, <2>13, <2>14, <2>15, <2>16, <2>17 DEF ConnInv
<1> QED
  BY <1>1, <1>5, <1>6, <1>7 DEF Rekey

LEMMA TakeMessageStep ==
  ASSUME GatewayInv, NEW e \in wire, TakeMessage(e)
  PROVE  GatewayInv'
<1>1. /\ UNCHANGED <<agents, byHost, pending, begun, completing, sent, clock,
                     session, table, beats, delivered, replaced>>
      /\ wire' = wire \ {e} /\ e \in Envelope
  BY DEF TakeMessage, GatewayInv, RegistryInv, CallsInv
<1>2. AgentsInv' /\ CallsInv'
  BY <1>1, AgentsInvKept DEF GatewayInv, RegistryInv, CallsInv
<1>3. NamesOwned' /\ CallsOwned' /\ TableHoldsLive' /\ AttachedFound'
  BY <1>1 DEF GatewayInv, ConnInv, NamesOwned, Owned, CallsOwned, TableHoldsLive, AttachedFound
<1>4. CASE e.target \in DOMAIN table
  <2>1. PICK to \in Sessions : to = table[e.target]
    BY <1>4 DEF GatewayInv, ConnInv, ConnTypes
  <2>2. PICK w : w = [env |-> e, to |-> to]
    OBVIOUS
  <2>3. w \in [env: Envelope, to: Sessions] /\ w.to = to /\ w.env = e /\ writing' = w
    BY <1>1, <1>4, <2>1, <2>2 DEF TakeMessage
  <2>4. session[to].id = e.target /\ session[to].stage # "unused"
    BY <1>4, <2>1 DEF GatewayInv, ConnInv, TableHoldsLive
  <2>5. HostNamesDiffer => e.target \in HeaderNames(session[to].dev)
    BY <2>4 DEF GatewayInv, ConnInv, NamesOwned, Owned
  <2>6. MailOwned'
    BY <1>1, <2>3, <2>4, <2>5 DEF GatewayInv, ConnInv, MailOwned, DeliveredToOwner
  <2>7. ConnTypes'
    BY <1>1, <2>3 DEF GatewayInv, ConnInv, ConnTypes
  <2> QED
    BY <1>2, <1>3, <2>6, <2>7 DEF GatewayInv, RegistryInv, ConnInv
<1>5. CASE e.target \notin DOMAIN table
  <2>1. writing' = Nobody
    BY <1>5 DEF TakeMessage
  <2>2. MailOwned' /\ ConnTypes'
    BY <1>1, <2>1 DEF GatewayInv, ConnInv, MailOwned, DeliveredToOwner, ConnTypes
  <2> QED
    BY <1>2, <1>3, <2>2 DEF GatewayInv, RegistryInv, ConnInv
<1> QED
  BY <1>4, <1>5

LEMMA WriteMessageStep ==
  ASSUME ConnInv, WriteMessage
  PROVE  ConnInv'
<1>1. /\ UNCHANGED <<completing, session, table, beats, replaced>> /\ writing' = Nobody
      /\ writing \in [env: Envelope, to: Sessions]
  BY DEF WriteMessage, registryVars, ConnInv, ConnTypes
<1>2. NamesOwned' /\ CallsOwned' /\ TableHoldsLive' /\ AttachedFound'
  BY <1>1 DEF ConnInv, NamesOwned, Owned, CallsOwned, TableHoldsLive, AttachedFound
<1>3. PICK r : r = [env |-> writing.env, dev |-> session[writing.to].dev]
  OBVIOUS
<1>4. /\ session[writing.to].dev \in Devices /\ writing.env \in Envelope
      /\ HostNamesDiffer => writing.env.target \in HeaderNames(session[writing.to].dev)
  BY <1>1 DEF WriteMessage, ConnInv, MailOwned, NamesOwned, Owned
<1>5. /\ r \in [env: Envelope, dev: Devices]
      /\ HostNamesDiffer => r.env.target \in HeaderNames(r.dev)
  BY <1>3, <1>4
<1>6. delivered' \subseteq delivered \cup {r}
  BY <1>3 DEF WriteMessage
<1>7. ConnTypes' /\ MailOwned'
  BY <1>1, <1>5, <1>6 DEF ConnInv, ConnTypes, MailOwned, DeliveredToOwner
<1> QED
  BY <1>2, <1>7 DEF ConnInv

LEMMA RestartStep ==
  ASSUME ConnInv, Restart
  PROVE  ConnInv'
<1>1. /\ session \in [Sessions -> SessionRec]
      /\ UNCHANGED <<completing, delivered, replaced>>
      /\ table' = << >> /\ beats' = {} /\ writing' = Nobody
  BY DEF ConnInv, ConnTypes, Restart
<1>2. DOMAIN table' = {} /\ table' \in [DOMAIN table' -> Sessions]
  BY <1>1
<1>3. PICK f : f = [s \in Sessions |-> [session[s] EXCEPT
                       !.stage = IF @ = "unused" THEN @ ELSE "closed", !.as = Nobody]]
  OBVIOUS
<1>4. session' = f
  BY <1>3 DEF Restart
<1>5. \A s \in Sessions :
         /\ f[s] \in SessionRec /\ f[s].dev = session[s].dev /\ f[s].id = session[s].id
         /\ f[s].stage = IF session[s].stage = "unused" THEN "unused" ELSE "closed"
  BY <1>1, <1>3 DEF SessionRec, Stages
<1>6. session' \in [Sessions -> SessionRec]
  BY <1>3, <1>4, <1>5
<1>7. ConnTypes'
  BY <1>1, <1>2, <1>6 DEF ConnInv, ConnTypes
<1>8. NamesOwned' /\ CallsOwned'
  BY <1>1, <1>4, <1>5 DEF ConnInv, NamesOwned, Owned, CallsOwned
<1>9. TableHoldsLive' /\ AttachedFound'
  BY <1>2, <1>4, <1>5 DEF TableHoldsLive, AttachedFound, Attached
<1>10. MailOwned'
  BY <1>1 DEF ConnInv, MailOwned, DeliveredToOwner
<1> QED
  BY <1>7, <1>8, <1>9, <1>10 DEF ConnInv

(* For any number of devices, connections and callers and any connection   *)
(* limit: whatever reconnections, renamings, timeouts, lost heartbeats and *)
(* restarts interleave, agentConnections holds only attached connections   *)
(* under the name they carry, handleNATSMessage writes to the device the   *)
(* message is for, and a connection stays reachable until its name is      *)
(* taken over.                                                             *)
THEOREM GatewayHolds == GatewaySpec => []GatewaySound
<1>1. GatewayInv /\ [GatewayNext]_gatewayVars => GatewayInv'
  <2> SUFFICES ASSUME GatewayInv, [GatewayNext]_gatewayVars PROVE GatewayInv'
    OBVIOUS
  <2> USE DEF GatewayInv
  <2>1. ASSUME UNCHANGED registryVars PROVE RegistryInv'
    BY <2>1, AgentsInvKept DEF registryVars, RegistryInv, CallsInv
  <2>2. /\ \A q \in completing : q[1] \in Sessions =>
               session[q[1]].stage # "unused" /\ q[2].key = session[q[1]].dev
        /\ session \in [Sessions -> SessionRec]
        /\ \A q \in completing : q[2] \in Registration
    BY DEF ConnInv, CallsOwned, ConnTypes, RegistryInv, CallsInv
  <2>3. ASSUME NEW s \in Sessions, NEW d \in Devices, NEW id \in Ids, Upgrade(s, d, id)
        PROVE  GatewayInv'
    BY <2>1, <2>3, UpgradeStep DEF Upgrade
  <2>4. ASSUME NEW s \in Sessions, Attach(s) PROVE GatewayInv'
    BY <2>1, <2>4, AttachStep DEF Attach
  <2>5. ASSUME NEW s \in Sessions, Authenticate(s) PROVE GatewayInv'
    <3>1. PICK r : r = [session[s] EXCEPT !.auth = TRUE]
      OBVIOUS
    <3>2. /\ session' = [session EXCEPT ![s] = r] /\ UNCHANGED <<table, beats, writing, delivered, replaced>>
          /\ UNCHANGED registryVars /\ completing' = completing
      BY <2>2, <2>5, <3>1 DEF Authenticate, registryVars
    <3>3. /\ r \in SessionRec /\ r.dev = session[s].dev /\ r.id = session[s].id
          /\ session[s].stage \in Attached /\ r.stage \in Attached /\ r.stage # "rekey"
      BY <2>2, <2>5, <3>1 DEF SessionRec, Authenticate, Attached
    <3> QED
      BY <2>1, <2>2, <3>2, <3>3, StageStep
  <2>6. ASSUME NEW s \in Sessions, ReceiveHeartbeat(s) PROVE GatewayInv'
    <3>1. PICK b : b = [id |-> session[s].id, seen |-> clock]
      OBVIOUS
    <3>2. session[s].id \in Ids /\ clock \in 0..MaxClock
      BY <2>6 DEF ReceiveHeartbeat, Routed, ConnInv, NamesOwned, Owned, RegistryInv, CallsInv
    <3>3. b \in [id: Ids, seen: 0..MaxClock]
      BY <3>1, <3>2
    <3>4. /\ UNCHANGED registryVars /\ beats' = beats \cup {b} /\ completing' = completing
          /\ UNCHANGED <<session, table, writing, delivered, replaced>>
      BY <2>6, <3>1 DEF ReceiveHeartbeat, registryVars
    <3>5. ConnTypes'
      BY <3>3, <3>4 DEF ConnInv, ConnTypes
    <3>6. NamesOwned' /\ CallsOwned' /\ TableHoldsLive' /\ AttachedFound' /\ MailOwned'
      BY <3>4 DEF ConnInv, NamesOwned, Owned, CallsOwned, TableHoldsLive, AttachedFound, MailOwned,
                  DeliveredToOwner
    <3> QED
      BY <2>1, <3>4, <3>5, <3>6 DEF ConnInv
  <2>7. ASSUME NEW s \in Sessions, ReceiveRegistration(s) PROVE GatewayInv'
    <3>1. session[s].dev \in Devices /\ UNCHANGED gatewayOnly
      BY <2>7 DEF ReceiveRegistration, Routed, ConnInv, NamesOwned, Owned
    <3>2. PICK h \in {HostOf[session[s].dev], NoHost} : RegisterInit(session[s].dev, h)
      BY <2>7 DEF ReceiveRegistration
    <3>3. completing' = completing
      BY <3>2 DEF RegisterInit
    <3>4. RegistryInv'
      BY <2>2, <3>1, <3>2, RegisterInitInv
    <3> QED
      BY <2>2, <3>1, <3>3, <3>4, ConnKept
  <2>8. ASSUME NEW s \in Sessions, Rekey(s) PROVE GatewayInv'
    BY <2>1, <2>8, RekeyStep DEF Rekey
  <2>9. ASSUME NEW s \in Sessions, ReadFails(s) PROVE GatewayInv'
    <3>1. PICK r : r = [session[s] EXCEPT !.stage = "closing"]
      OBVIOUS
    <3>2. /\ session' = [session EXCEPT ![s] = r] /\ UNCHANGED <<table, beats, writing, delivered, replaced>>
          /\ UNCHANGED registryVars /\ completing' = completing
      BY <2>2, <2>9, <3>1 DEF ReadFails, registryVars
    <3>3. /\ r \in SessionRec /\ r.dev = session[s].dev /\ r.id = session[s].id
          /\ session[s].stage \in Attached /\ r.stage \in Attached /\ r.stage # "rekey"
      BY <2>2, <2>9, <3>1 DEF SessionRec, Stages, ReadFails, Attached
    <3> QED
      BY <2>1, <2>2, <3>2, <3>3, StageStep
  <2>10. ASSUME NEW s \in Sessions, Cleanup(s) PROVE GatewayInv'
    BY <2>1, <2>10, CleanupStep DEF Cleanup
  <2>11. ASSUME NEW c \in Callers, NEW p \in pending, CompleteLookup(c, p) PROVE RegistryInv'
    <3>1. CallsInv'
      BY <2>11 DEF CompleteLookup, RegistryInv, CallsInv
    <3> QED
      BY <2>11, <3>1, AgentsInvKept DEF CompleteLookup, RegistryInv
  <2>12. ASSUME NEW s \in Sessions, NEW p \in pending, ReceiveComplete(s, p) PROVE GatewayInv'
    <3>1. PICK r : r = [session[s] EXCEPT !.stage = "completing"]
      OBVIOUS
    <3>2. /\ session' = [session EXCEPT ![s] = r] /\ UNCHANGED <<table, beats, writing, delivered, replaced>>
          /\ CompleteLookup(s, p) /\ completing' = completing \cup {<<s, p>>}
          /\ p.key = session[s].dev /\ session[s].stage = "open" /\ s \in Callers
      BY <2>2, <2>12, <3>1, GatewayAssumption DEF ReceiveComplete, CompleteLookup
    <3>3. /\ r \in SessionRec /\ r.dev = session[s].dev /\ r.id = session[s].id
          /\ session[s].stage \in Attached /\ r.stage \in Attached /\ r.stage # "rekey"
      BY <2>2, <3>1, <3>2 DEF SessionRec, Stages, Attached
    <3>4. \A q \in completing' : q[1] \in Sessions =>
             session[q[1]].stage # "unused" /\ q[2].key = session[q[1]].dev
      BY <2>2, <3>2
    <3>5. ConnInv'
      BY <3>2, <3>3, <3>4, StageStep
    <3> QED
      BY <2>11, <3>2, <3>5
  <2>13. ASSUME NEW q \in completing, q[1] \in Sessions, CompleteAnswered(q[1], q[2]) PROVE GatewayInv'
    <3>1. PICK s, p : s = q[1] /\ p = q[2]
      OBVIOUS
    <3>2. /\ s \in Sessions /\ p \in Registration /\ CompleteStore(s, p) /\ p.key = session[s].dev
          /\ session[s].stage = "completing" /\ completing' \subseteq completing
          /\ UNCHANGED <<table, beats, writing, delivered, replaced>>
      BY <2>2, <2>13, <3>1 DEF CompleteAnswered, CompleteStore
    <3>3. PICK r : r = [session[s] EXCEPT !.stage = "rekey", !.as = p.key]
      OBVIOUS
    <3>4. session' = [session EXCEPT ![s] = r]
      BY <2>2, <2>13, <3>1, <3>3 DEF CompleteAnswered
    <3>5. p.key \in Ids
      BY <3>2 DEF Registration, Ids
    <3>6. /\ r \in SessionRec /\ r.dev = session[s].dev /\ r.id = session[s].id
          /\ session[s].stage \in Attached /\ r.stage \in Attached /\ r.as = r.dev
      BY <2>2, <3>2, <3>3, <3>5 DEF SessionRec, Stages, Attached
    <3>7. ConnInv'
      BY <2>2, <3>2, <3>4, <3>6, StageStep
    <3> QED
      BY <3>2, <3>7, CompleteStoreInv
  <2>14. ASSUME NEW q \in completing, q[1] \in Sessions, CompleteTimesOut(q[1], q[2]) PROVE GatewayInv'
    <3>1. PICK s, p : s = q[1] /\ p = q[2]
      OBVIOUS
    <3>2. /\ s \in Sessions /\ p \in Registration /\ CompleteStore(s, p)
          /\ session[s].stage \in {"completing", "closed"} /\ completing' \subseteq completing
          /\ UNCHANGED <<table, beats, writing, delivered, replaced>>
      BY <2>2, <2>14, <3>1 DEF CompleteTimesOut, CompleteStore
    <3>3. PICK st : st = IF session[s].stage = "completing" THEN "open" ELSE session[s].stage
      OBVIOUS
    <3>4. PICK r : r = [session[s] EXCEPT !.stage = st]
      OBVIOUS
    <3>5. session' = [session EXCEPT ![s] = r]
      BY <2>2, <2>14, <3>1, <3>3, <3>4 DEF CompleteTimesOut
    <3>6. /\ r \in SessionRec /\ r.dev = session[s].dev /\ r.id = session[s].id
          /\ \/ session[s].stage \in Attached /\ r.stage \in Attached
             \/ session[s].stage = "closed" /\ r.stage = "closed"
          /\ r.stage # "rekey"
      BY <2>2, <3>2, <3>3, <3>4 DEF SessionRec, Stages, Attached
    <3>7. ConnInv'
      BY <2>2, <3>2, <3>5, <3>6, StageStep
    <3> QED
      BY <3>2, <3>7, CompleteStoreInv
  <2>15. ASSUME NEW b \in beats, PostHeartbeat(b) PROVE GatewayInv'
    <3>1. b.id \in Ids /\ b.seen \in 0..MaxClock /\ NoHost \in HostNames \cup {NoHost}
          /\ {} \in SUBSET Labels
      BY DEF ConnInv, ConnTypes
    <3>2. /\ HeartbeatEffect(b.id, NoHost, b.seen, {}) \/ UNCHANGED <<agents, byHost>>
          /\ beats' \subseteq beats
          /\ UNCHANGED <<pending, begun, completing, wire, sent, clock,
                         session, table, writing, delivered, replaced>>
      BY <2>15 DEF PostHeartbeat
    <3>3. AgentsInv'
      BY <3>1, <3>2, HeartbeatEffectInv, AgentsInvKept DEF RegistryInv
    <3>4. CallsInv' /\ ConnTypes'
      BY <3>2 DEF RegistryInv, CallsInv, ConnInv, ConnTypes
    <3>5. NamesOwned' /\ CallsOwned' /\ TableHoldsLive' /\ AttachedFound' /\ MailOwned'
      BY <3>2 DEF ConnInv, NamesOwned, Owned, CallsOwned, TableHoldsLive, AttachedFound, MailOwned,
                  DeliveredToOwner
    <3> QED
      BY <3>3, <3>4, <3>5 DEF RegistryInv, ConnInv
  <2>16. ASSUME NEW e \in wire, TakeMessage(e) PROVE GatewayInv'
    BY <2>16, TakeMessageStep
  <2>17. ASSUME NEW c \in Callers, HttpRegistration(c) PROVE GatewayInv'
    <3>1. c \notin Sessions /\ UNCHANGED gatewayOnly
      BY <2>17 DEF HttpRegistration
    <3>2. ASSUME NEW d \in Devices, NEW h \in {HostOf[d], NoHost}, RegisterInit(d, h) PROVE GatewayInv'
      BY <2>2, <3>1, <3>2, RegisterInitInv, ConnKept DEF RegisterInit
    <3>3. ASSUME NEW p \in pending, CompleteLookup(c, p) PROVE GatewayInv'
      <4>1. completing' = completing \cup {<<c, p>>}
        BY <3>3 DEF CompleteLookup
      <4>2. \A q \in completing' : q[1] \in Sessions =>
               session[q[1]].stage # "unused" /\ q[2].key = session[q[1]].dev
        BY <2>2, <3>1, <4>1
      <4> QED
        BY <2>11, <3>1, <3>3, <4>2, ConnKept
    <3>4. ASSUME NEW q \in completing, CompleteStore(c, q[2]) PROVE GatewayInv'
      <4>1. completing' \subseteq completing /\ q[2] \in Registration
        BY <2>2, <3>4 DEF CompleteStore
      <4> QED
        BY <2>2, <3>1, <3>4, <4>1, CompleteStoreInv, ConnKept
    <3> QED
      BY <2>17, <3>2, <3>3, <3>4 DEF HttpRegistration
  <2>18. CASE WriteMessage
    BY <2>1, <2>18, WriteMessageStep DEF WriteMessage
  <2>19. CASE Restart
    <3>1. CallsInv' /\ UNCHANGED <<agents, byHost>>
      BY <2>19 DEF Restart, RegistryInv, CallsInv
    <3> QED
      BY <2>19, <3>1, AgentsInvKept, RestartStep DEF RegistryInv
  <2>20. CASE Operator
    <3>1. UNCHANGED gatewayOnly
      BY <2>20 DEF Operator
    <3>2. CASE RegistryTick
      <4>1. CallsInv' /\ UNCHANGED <<agents, byHost, completing>>
        BY <3>2, RegistryAssumption DEF RegistryTick, RegistryInv, CallsInv
      <4> QED
        BY <2>2, <3>1, <4>1, AgentsInvKept, ConnKept DEF RegistryInv
    <3>3. ASSUME NEW m \in Messages, NEW u \in DOMAIN agents, SendMessage(m, u) PROVE GatewayInv'
      <4>1. {u} \in SUBSET DOMAIN agents /\ Publish(m, {u})
        BY <3>3 DEF SendMessage
      <4>2. RegistryInv' /\ completing' = completing
        BY <4>1, PublishInv DEF Publish
      <4> QED
        BY <2>2, <3>1, <4>2, ConnKept
    <3> QED
      BY <2>20, <3>2, <3>3 DEF Operator
  <2>21. CASE UNCHANGED gatewayVars
    <3>1. UNCHANGED registryVars /\ UNCHANGED gatewayOnly /\ completing' = completing
      BY <2>21 DEF gatewayVars, registryVars
    <3> QED
      BY <2>1, <2>2, <3>1, ConnKept
  <2> QED
    BY <2>3, <2>4, <2>5, <2>6, <2>7, <2>8, <2>9, <2>10, <2>12, <2>13, <2>14, <2>15, <2>16, <2>17,
       <2>18, <2>19, <2>20, <2>21 DEF GatewayNext
<1> QED
  BY <1>1, GatewayInvInit, GatewayInvSound, PTL DEF GatewaySpec

-----------------------------------------------------------------------------
(***************************************************************************)
(* The correlator's chain.  What a draft holds is bounded whatever the     *)
(* finding: its edges are few, its confidence a percentage and its time to *)
(* live below a day.                                                       *)
(***************************************************************************)
LEMMA FewPorts ==
  ASSUME NEW S, NEW n \in 0..50, NEW g \in [1..n -> S], \A x \in S : \E i \in 1..n : g[i] = x
  PROVE  Cardinality(S) <= 50
<1>1. g \in Surjection(1..n, S)
  BY DEF Surjection
<1>2. IsFiniteSet(1..n) /\ Cardinality(1..n) = IF 1 > n THEN 0 ELSE n - 1 + 1
  BY FS_Interval
<1>3. IsFiniteSet(S) /\ Cardinality(S) <= Cardinality(1..n)
  BY <1>1, <1>2, FS_Surjection
<1>4. Cardinality(S) \in Nat
  BY <1>3, FS_CardinalityType
<1> QED
  BY <1>2, <1>3, <1>4

LEMMA FewScanned ==
  Cardinality({Edge("any", "tcp", p) :
                 p \in {22, 23, 25, 53, 80, 443, 135, 139, 445, 1433, 3389}}) <= 50
<1> DEFINE P == {22, 23, 25, 53, 80, 443, 135, 139, 445, 1433, 3389}
           S == {Edge("any", "tcp", p) : p \in P}
           q == <<22, 23, 25, 53, 80, 443, 135, 139, 445, 1433, 3389>>
           g == [i \in 1..11 |-> Edge("any", "tcp", q[i])]
<1>1. \A i \in 1..11 : q[i] \in P
  OBVIOUS
<1>2. \A p \in P : \E i \in 1..11 : q[i] = p
  <2>1. q[1] = 22 /\ q[2] = 23 /\ q[3] = 25 /\ q[4] = 53 /\ q[5] = 80 /\ q[6] = 443
    OBVIOUS
  <2>2. q[7] = 135 /\ q[8] = 139 /\ q[9] = 445 /\ q[10] = 1433 /\ q[11] = 3389
    OBVIOUS
  <2> HIDE DEF q
  <2> QED
    BY <2>1, <2>2
<1> HIDE DEF P, q
<1>3. g \in [1..11 -> S]
  BY <1>1
<1>4. \A x \in S : \E i \in 1..11 : g[i] = x
  BY <1>2
<1> HIDE DEF g, S
<1>5. Cardinality(S) <= 50
  <2>1. 11 \in 0..50
    OBVIOUS
  <2> QED
    BY <1>3, <1>4, <2>1, FewPorts, Zenon
<1> QED
  BY <1>5 DEF S, P

LEMMA FewExfiltrated ==
  Cardinality({Edge("any", "tcp", p) : p \in {21, 22, 23, 25, 53, 80, 443, 993, 995}}) <= 50
<1> DEFINE P == {21, 22, 23, 25, 53, 80, 443, 993, 995}
           S == {Edge("any", "tcp", p) : p \in P}
           q == <<21, 22, 23, 25, 53, 80, 443, 993, 995>>
           g == [i \in 1..9 |-> Edge("any", "tcp", q[i])]
<1>1. \A i \in 1..9 : q[i] \in P
  OBVIOUS
<1>2. \A p \in P : \E i \in 1..9 : q[i] = p
  <2>1. q[1] = 21 /\ q[2] = 22 /\ q[3] = 23 /\ q[4] = 25 /\ q[5] = 53
    OBVIOUS
  <2>2. q[6] = 80 /\ q[7] = 443 /\ q[8] = 993 /\ q[9] = 995
    OBVIOUS
  <2> HIDE DEF q
  <2> QED
    BY <2>1, <2>2
<1> HIDE DEF P, q
<1>3. g \in [1..9 -> S]
  BY <1>1
<1>4. \A x \in S : \E i \in 1..9 : g[i] = x
  BY <1>2
<1> HIDE DEF g, S
<1>5. Cardinality(S) <= 50
  <2>1. 9 \in 0..50
    OBVIOUS
  <2> QED
    BY <1>3, <1>4, <2>1, FewPorts, Zenon
<1> QED
  BY <1>5 DEF S, P

LEMMA FewSubnets ==
  Cardinality({Edge(c, "any", 0) : c \in {"10/8", "172.16/12", "192.168/16"}}) <= 50
<1> DEFINE P == {"10/8", "172.16/12", "192.168/16"}
           S == {Edge(c, "any", 0) : c \in P}
           q == <<"10/8", "172.16/12", "192.168/16">>
           g == [i \in 1..3 |-> Edge(q[i], "any", 0)]
<1>1. \A i \in 1..3 : q[i] \in P
  OBVIOUS
<1>2. \A p \in P : \E i \in 1..3 : q[i] = p
  OBVIOUS
<1> HIDE DEF P, q
<1>3. g \in [1..3 -> S]
  BY <1>1
<1>4. \A x \in S : \E i \in 1..3 : g[i] = x
  BY <1>2
<1> HIDE DEF g, S
<1>5. Cardinality(S) <= 50
  BY <1>3, <1>4, FewPorts
<1> QED
  BY <1>5 DEF S, P

LEMMA FewAlone ==
  ASSUME NEW x
  PROVE  Cardinality({x}) <= 50
  BY FS_Singleton

LEMMA FewEdges ==
  ASSUME NEW f
  PROVE  Cardinality(NetworkEdges(f)) <= 50
<1>1. Cardinality(DefaultEdges(f)) <= 50
  <2>1. CASE f.type = "reconnaissance"
    BY <2>1, FewScanned DEF DefaultEdges
  <2>2. CASE f.type = "data_exfiltration"
    BY <2>2, FewExfiltrated DEF DefaultEdges
  <2>3. CASE f.type = "lateral_movement"
    BY <2>3, FewSubnets DEF DefaultEdges
  <2>4. CASE f.type \notin {"reconnaissance", "data_exfiltration", "lateral_movement"}
    <3>1. DefaultEdges(f) = {Edge("any", "any", 0)}
      BY <2>4 DEF DefaultEdges
    <3> QED
      BY <3>1, FewAlone
  <2> QED
    BY <2>1, <2>2, <2>3, <2>4
<1> QED
  BY <1>1, FewAlone DEF NetworkEdges

LEMMA Scaled ==
  ASSUME NEW b \in Nat, NEW n \in Nat, b <= n
  PROVE  /\ b * 2 \in Nat /\ b * 2 <= n * 2
         /\ (b * 3) \div 2 \in Nat /\ (b * 3) \div 2 <= n * 2
         /\ (b * 4) \div 5 \in Nat /\ (b * 4) \div 5 <= n * 2
         /\ b \div 2 \in Nat /\ b \div 2 <= n
<1>1. b * 2 \in Nat /\ b * 2 <= n * 2
  OBVIOUS
<1>2. (b * 3) \div 2 \in Nat /\ (b * 3) \div 2 <= n * 2
  OBVIOUS
<1>3. (b * 4) \div 5 \in Nat /\ (b * 4) \div 5 <= n * 2
  OBVIOUS
<1>4. b \div 2 \in Nat /\ b \div 2 <= n
  OBVIOUS
<1> QED
  BY <1>1, <1>2, <1>3, <1>4

LEMMA TTLBelowDay ==
  ASSUME NEW f, f.conf \in 0..100
  PROVE  TTL(f) \in Nat /\ TTL(f) <= 86400
<1>1. BaseTTL(f) \in Nat /\ BaseTTL(f) <= 14400
  <2> DEFINE base == CASE f.sev = "critical" -> 7200 [] f.sev = "medium" -> 1800
                       [] f.sev = "low" -> 900 [] OTHER -> 3600
  <2>1. base \in Nat /\ base <= 7200
    OBVIOUS
  <2>2. \/ BaseTTL(f) = (base * 3) \div 2
        \/ BaseTTL(f) = base \div 2
        \/ BaseTTL(f) = base
    BY DEF BaseTTL
  <2> HIDE DEF base
  <2>3. PICK b \in Nat : b = base
    BY <2>1
  <2> QED
    BY <2>1, <2>2, <2>3, Scaled
<1>2. PICK b \in Nat : b = BaseTTL(f)
  BY <1>1
<1>3. TTL(f) = b * 2 \/ TTL(f) = (b * 3) \div 2 \/ TTL(f) = (b * 4) \div 5 \/ TTL(f) = b
  BY <1>2 DEF TTL
<1>4. b <= 14400
  BY <1>1, <1>2
<1>5. /\ b * 2 \in Nat /\ b * 2 <= 28800
      /\ (b * 3) \div 2 \in Nat /\ (b * 3) \div 2 <= 28800
      /\ (b * 4) \div 5 \in Nat /\ (b * 4) \div 5 <= 28800
  BY <1>2, <1>4, Scaled
<1> QED
  BY <1>2, <1>3, <1>4, <1>5

LEMMA DraftIsPercent ==
  ASSUME NEW f, f.conf \in 0..100
  PROVE  DraftConfidence(f) \in 0..100
  BY DEF DraftConfidence, Bounded

(***************************************************************************)
(* ForwardInv: a callback past the match holds a finding that was graded   *)
(* and published, and past the forwarder one whose safeguard was sent.     *)
(***************************************************************************)
RuleSet == {FwdRules[i] : i \in DOMAIN FwdRules}

Findings == {NewFinding(s, m, r) : s \in Subscriptions, m \in Incoming, r \in RuleSet}

FwdJobs ==
    [stage : {"idle"}] \cup
    [stage : {"match"}, msg : Incoming, left : Seq(RuleSet)] \cup
    [stage : {"match", "forward", "snapshot", "plan"}, msg : Incoming, left : Seq(RuleSet),
     f : Findings]

FwdTypes == fwdJob \in [Subscriptions -> FwdJobs]

Graded ==
    \A s \in Subscriptions : fwdJob[s].stage \in {"forward", "snapshot", "plan"} =>
        /\ fwdJob[s].f \in Findings /\ ShouldProcess(fwdJob[s].f)
        /\ fwdJob[s].f \in published

Safeguarded ==
    \A s \in Subscriptions : fwdJob[s].stage \in {"snapshot", "plan"} =>
        \E g \in safeguards : g.f = fwdJob[s].f

ForwardInv == FwdTypes /\ Graded /\ Safeguarded /\ ForwardingSound

LEMMA FindingConf ==
  ASSUME NEW f \in Findings
  PROVE  f.conf \in 0..100
<1>1. PICK s \in Subscriptions, m \in Incoming, r \in RuleSet : f = NewFinding(s, m, r)
  BY DEF Findings
<1>2. f.conf = r.conf
  BY <1>1 DEF NewFinding
<1>3. r.conf \in 0..100
  BY ForwardAssumption DEF RuleSet
<1> QED
  BY <1>2, <1>3

(* A draft that passes the synthesizer's own check passes the              *)
(* orchestrator's.                                                         *)
LEMMA DraftAccepted ==
  ASSUME NEW f \in Findings, ValidDraft(Draft(f))
  PROVE  /\ Draft(f).edges # {} /\ Cardinality(Draft(f).edges) <= 50
         /\ Draft(f).conf \in 0..100 /\ Draft(f).ttl \in MinTTL..MaxTTL
<1>1. f.conf \in 0..100
  BY FindingConf
<1>2. /\ Draft(f).edges = NetworkEdges(f) /\ Draft(f).ttl = TTL(f)
      /\ Draft(f).conf = DraftConfidence(f)
  BY DEF Draft
<1>3. Draft(f).edges # {} /\ Draft(f).ttl >= MinTTL
  BY DEF ValidDraft
<1>4. Cardinality(NetworkEdges(f)) <= 50
  BY FewEdges, Zenon
<1>5. TTL(f) \in Nat /\ TTL(f) <= 86400
  BY <1>1, TTLBelowDay, SMT
<1>6. DraftConfidence(f) \in 0..100
  BY <1>1, DraftIsPercent, Zenon
<1>7. MinTTL \in Nat /\ MaxTTL = 86400
  BY DEF MinTTL, MaxTTL
<1> QED
  BY <1>2, <1>3, <1>4, <1>5, <1>6, <1>7

LEMMA ForwardInitial == FwdInit => ForwardInv
<1> SUFFICES ASSUME FwdInit PROVE ForwardInv
  OBVIOUS
<1>1. FwdTypes
  BY DEF FwdInit, FwdTypes, FwdJobs
<1>2. Graded /\ Safeguarded
  BY DEF FwdInit, Graded, Safeguarded
<1>3. ForwardingSound
  BY DEF FwdInit, ForwardingSound, ChainInOrder, SnapshotsValid
<1> QED
  BY <1>1, <1>2, <1>3 DEF ForwardInv

LEMMA DeliverKeeps ==
  ASSUME ForwardInv, NEW s \in Subscriptions, NEW m \in Incoming, Deliver(s, m)
  PROVE  ForwardInv'
<1> USE DEF ForwardInv
<1>1. CASE m.host = NoHostId
  <2>1. UNCHANGED <<fwdJob, published, safeguards, plans, mapsnapshots>>
    BY <1>1 DEF Deliver
  <2> QED
    BY <2>1 DEF FwdTypes, Graded, Safeguarded, ForwardingSound, ChainInOrder, SnapshotsValid
<1>2. CASE m.host # NoHostId
  <2>1. PICK j : j = [stage |-> "match", msg |-> m, left |-> FwdRules]
    OBVIOUS
  <2>2. fwdJob' = [fwdJob EXCEPT ![s] = j] /\ UNCHANGED <<published, safeguards, plans, mapsnapshots>>
    BY <1>2, <2>1 DEF Deliver
  <2>3. FwdRules \in Seq(RuleSet)
    BY ForwardAssumption DEF RuleSet
  <2>4. j \in FwdJobs /\ j.stage = "match"
    BY <2>1, <2>3 DEF FwdJobs
  <2>5. FwdTypes'
    BY <2>2, <2>4 DEF FwdTypes
  <2>6. Graded' /\ Safeguarded'
    BY <2>2, <2>4 DEF FwdTypes, Graded, Safeguarded
  <2>7. ForwardingSound'
    BY <2>2 DEF ForwardingSound, ChainInOrder, SnapshotsValid
  <2> QED
    BY <2>5, <2>6, <2>7
<1> QED
  BY <1>1, <1>2

LEMMA HandleRuleKeeps ==
  ASSUME ForwardInv, NEW s \in Subscriptions, HandleRule(s)
  PROVE  ForwardInv'
<1> USE DEF ForwardInv
<1>1. PICK j : j = fwdJob[s]
  OBVIOUS
<1>2. j \in FwdJobs /\ j.stage = "match"
  BY <1>1 DEF HandleRule, FwdTypes
<1>3. j.msg \in Incoming /\ j.left \in Seq(RuleSet)
  BY <1>2 DEF FwdJobs
<1>4. UNCHANGED <<safeguards, plans, mapsnapshots>>
  BY DEF HandleRule
<1>5. published \subseteq published' => ForwardingSound'
  BY <1>4 DEF ForwardingSound, ChainInOrder, SnapshotsValid
<1>6. CASE j.left = <<>> /\ fwdJob' = [fwdJob EXCEPT ![s] = [stage |-> "idle"]]
           /\ UNCHANGED published
  <2>1. PICK k : k = [stage |-> "idle"]
    OBVIOUS
  <2>2. fwdJob' = [fwdJob EXCEPT ![s] = k] /\ UNCHANGED published
    BY <1>6, <2>1
  <2>3. k \in FwdJobs /\ k.stage = "idle"
    BY <2>1 DEF FwdJobs
  <2>4. FwdTypes'
    BY <2>2, <2>3 DEF FwdTypes
  <2>5. Graded' /\ Safeguarded'
    BY <1>4, <2>2, <2>3 DEF FwdTypes, Graded, Safeguarded
  <2> QED
    BY <1>5, <2>2, <2>4, <2>5
<1>7. CASE j.left # <<>> /\ fwdJob' = [fwdJob EXCEPT ![s].left = Tail(@)] /\ UNCHANGED published
  <2>1. PICK k : k = [j EXCEPT !.left = Tail(@)]
    OBVIOUS
  <2>2. fwdJob' = [fwdJob EXCEPT ![s] = k] /\ UNCHANGED published
    BY <1>1, <1>7, <2>1
  <2>3. Tail(j.left) \in Seq(RuleSet)
    BY <1>3, <1>7
  <2>4. k \in FwdJobs /\ k.stage = "match"
    BY <1>2, <2>1, <2>3 DEF FwdJobs
  <2>5. FwdTypes'
    BY <2>2, <2>4 DEF FwdTypes
  <2>6. Graded' /\ Safeguarded'
    BY <1>4, <2>2, <2>4 DEF FwdTypes, Graded, Safeguarded
  <2> QED
    BY <1>5, <2>2, <2>5, <2>6
<1>8. CASE LET f == NewFinding(s, j.msg, Head(j.left))
           IN  /\ j.left # <<>>
               /\ published' = IF up THEN published \cup {f} ELSE published
               /\ fwdJob' = [fwdJob EXCEPT ![s] =
                      [stage |-> IF Proceeds(s) /\ ShouldProcess(f) THEN "forward" ELSE "match",
                       msg |-> j.msg, left |-> Tail(j.left), f |-> f]]
  <2>1. PICK f : f = NewFinding(s, j.msg, Head(j.left))
    OBVIOUS
  <2>2. PICK t : t = IF Proceeds(s) /\ ShouldProcess(f) THEN "forward" ELSE "match"
    OBVIOUS
  <2>3. PICK k : k = [stage |-> t, msg |-> j.msg, left |-> Tail(j.left), f |-> f]
    OBVIOUS
  <2>4. /\ fwdJob' = [fwdJob EXCEPT ![s] = k]
        /\ published' = IF up THEN published \cup {f} ELSE published
    BY <1>8, <2>1, <2>2, <2>3
  <2>5. Tail(j.left) \in Seq(RuleSet) /\ Head(j.left) \in RuleSet
    BY <1>3, <1>8
  <2>6. f \in Findings
    BY <1>3, <2>1, <2>5 DEF Findings
  <2>7. t \in {"match", "forward"} /\ (t = "forward" => up /\ ShouldProcess(f))
    BY <2>2 DEF Proceeds
  <2>8. k \in FwdJobs /\ k.stage = t /\ k.f = f
    BY <1>3, <2>3, <2>5, <2>6, <2>7 DEF FwdJobs
  <2>9. FwdTypes'
    BY <2>4, <2>8 DEF FwdTypes
  <2>10. Graded'
    BY <2>4, <2>6, <2>7, <2>8 DEF FwdTypes, Graded
  <2>11. Safeguarded'
    BY <1>4, <2>4, <2>7, <2>8 DEF FwdTypes, Safeguarded
  <2> QED
    BY <1>5, <2>4, <2>9, <2>10, <2>11
<1> QED
  BY <1>1, <1>6, <1>7, <1>8 DEF HandleRule

LEMMA ForwardFindingKeeps ==
  ASSUME ForwardInv, NEW s \in Subscriptions, ForwardFinding(s)
  PROVE  ForwardInv'
<1> USE DEF ForwardInv
<1>1. PICK f : f = fwdJob[s].f
  OBVIOUS
<1>2. f \in Findings /\ ShouldProcess(f) /\ f \in published /\ fwdJob[s].stage = "forward"
  BY <1>1 DEF ForwardFinding, Graded
<1>3. ShouldForward(f)
  BY <1>2 DEF ShouldProcess, ShouldForward
<1>4. PICK g : g = Safeguard(f)
  OBVIOUS
<1>5. g.f = f
  BY <1>4 DEF Safeguard
<1>6. /\ safeguards' = IF up THEN safeguards \cup {g} ELSE safeguards
      /\ UNCHANGED <<published, plans, mapsnapshots>>
  BY <1>1, <1>3, <1>4 DEF ForwardFinding
<1>7. PICK t : t = IF up THEN "snapshot" ELSE "match"
  OBVIOUS
<1>8. PICK k : k = [fwdJob[s] EXCEPT !.stage = t]
  OBVIOUS
<1>9. fwdJob' = [fwdJob EXCEPT ![s] = k]
  BY <1>7, <1>8 DEF ForwardFinding
<1>10. k \in FwdJobs /\ k.stage = t /\ k.f = f
  BY <1>1, <1>2, <1>7, <1>8 DEF FwdTypes, FwdJobs
<1>11. FwdTypes'
  BY <1>9, <1>10 DEF FwdTypes
<1>12. Graded'
  BY <1>2, <1>6, <1>7, <1>9, <1>10 DEF FwdTypes, Graded
<1>13. Safeguarded'
  BY <1>5, <1>6, <1>7, <1>9, <1>10 DEF FwdTypes, Safeguarded
<1>14. ForwardingSound'
  BY <1>2, <1>5, <1>6 DEF ForwardingSound, ChainInOrder, SnapshotsValid
<1> QED
  BY <1>11, <1>12, <1>13, <1>14

(* A stage that sends one message for its finding and goes on.             *)
LEMMA StageKeeps ==
  ASSUME ForwardInv, NEW s \in Subscriptions, NEW t \in {"plan", "match"},
         fwdJob[s].stage \in {"snapshot", "plan"},
         fwdJob' = [fwdJob EXCEPT ![s].stage = t], UNCHANGED <<published, safeguards>>
  PROVE  FwdTypes' /\ Graded' /\ Safeguarded'
<1> USE DEF ForwardInv
<1>1. PICK k : k = [fwdJob[s] EXCEPT !.stage = t]
  OBVIOUS
<1>2. fwdJob' = [fwdJob EXCEPT ![s] = k]
  BY <1>1
<1>3. k \in FwdJobs /\ k.stage = t /\ k.f = fwdJob[s].f
  BY <1>1 DEF FwdTypes, FwdJobs
<1>4. FwdTypes'
  BY <1>2, <1>3 DEF FwdTypes
<1>5. Graded'
  BY <1>2, <1>3 DEF FwdTypes, Graded
<1>6. Safeguarded'
  BY <1>2, <1>3 DEF FwdTypes, Safeguarded
<1> QED
  BY <1>4, <1>5, <1>6

LEMMA SendMapSnapshotKeeps ==
  ASSUME ForwardInv, NEW s \in Subscriptions, SendMapSnapshot(s)
  PROVE  ForwardInv'
<1> USE DEF ForwardInv
<1>1. PICK f : f = fwdJob[s].f
  OBVIOUS
<1>2. fwdJob[s].stage = "snapshot" /\ UNCHANGED <<published, safeguards, plans>>
  BY DEF SendMapSnapshot
<1>3. f \in Findings /\ \E g \in safeguards : g.f = f
  BY <1>1, <1>2 DEF Graded, Safeguarded
<1>4. FwdTypes' /\ Graded' /\ Safeguarded'
  BY <1>2, StageKeeps DEF SendMapSnapshot
<1>5. PICK p : p = [f |-> f, draft |-> Draft(f)]
  OBVIOUS
<1>6. p.f = f /\ p.draft = Draft(f)
  BY <1>5
<1>7. mapsnapshots' = mapsnapshots
      \/ (mapsnapshots' = mapsnapshots \cup {p} /\ ValidDraft(Draft(f)))
  BY <1>1, <1>5 DEF SendMapSnapshot, Sent
<1>8. ChainInOrder'
  BY <1>2, <1>3, <1>6, <1>7 DEF ForwardingSound, ChainInOrder
<1>9. SnapshotsValid'
  <2>1. CASE mapsnapshots' = mapsnapshots
    BY <2>1 DEF ForwardingSound, SnapshotsValid
  <2>2. CASE mapsnapshots' = mapsnapshots \cup {p} /\ ValidDraft(Draft(f))
    <3>1. /\ p.draft.edges # {} /\ Cardinality(p.draft.edges) <= 50
          /\ p.draft.conf \in 0..100 /\ p.draft.ttl \in MinTTL..MaxTTL
      BY <1>3, <1>6, <2>2, DraftAccepted
    <3> QED
      BY <2>2, <3>1 DEF ForwardingSound, SnapshotsValid
  <2> QED
    BY <1>7, <2>1, <2>2
<1> QED
  BY <1>4, <1>8, <1>9 DEF ForwardingSound

LEMMA SendPlanKeeps ==
  ASSUME ForwardInv, NEW s \in Subscriptions, SendPlan(s)
  PROVE  ForwardInv'
<1> USE DEF ForwardInv
<1>1. PICK f : f = fwdJob[s].f
  OBVIOUS
<1>2. fwdJob[s].stage = "plan" /\ UNCHANGED <<published, safeguards, mapsnapshots>>
  BY DEF SendPlan
<1>3. \E g \in safeguards : g.f = f
  BY <1>1, <1>2 DEF Safeguarded
<1>4. FwdTypes' /\ Graded' /\ Safeguarded'
  BY <1>2, StageKeeps DEF SendPlan
<1>5. PICK p : p = [f |-> f, mode |-> StrategyMode(f), prio |-> Priority(f),
                    auto |-> AutoApprove(f)]
  OBVIOUS
<1>6. p.f = f
  BY <1>5
<1>7. plans' = plans \/ plans' = plans \cup {p}
  BY <1>1, <1>5 DEF SendPlan, Sent
<1>8. ChainInOrder'
  BY <1>2, <1>3, <1>6, <1>7 DEF ForwardingSound, ChainInOrder
<1>9. SnapshotsValid'
  BY <1>2 DEF ForwardingSound, SnapshotsValid
<1> QED
  BY <1>4, <1>8, <1>9 DEF ForwardingSound

(* Through outages between any two stages, what the correlator sends on is *)
(* a prefix of the chain finding, safeguard, map snapshot, plan, and every *)
(* map snapshot is one the orchestrator accepts, for any set of messages   *)
(* and any list of rules the loader lets through.                          *)
THEOREM ForwardingHolds == FwdSpec => []ForwardingSound
<1>1. FwdInit => ForwardInv
  BY ForwardInitial
<1>2. ForwardInv /\ [FwdNext]_fwdVars => ForwardInv'
  <2> SUFFICES ASSUME ForwardInv, [FwdNext]_fwdVars PROVE ForwardInv'
    OBVIOUS
  <2>1. ASSUME Outage \/ Reconnect \/ UNCHANGED fwdVars PROVE ForwardInv'
    <3>1. UNCHANGED <<fwdJob, published, safeguards, plans, mapsnapshots>>
      BY <2>1 DEF Outage, Reconnect, fwdVars
    <3> QED
      BY <3>1 DEF ForwardInv, FwdTypes, Graded, Safeguarded, ForwardingSound, ChainInOrder,
                  SnapshotsValid
  <2> QED
    BY <2>1, DeliverKeeps, HandleRuleKeeps, ForwardFindingKeeps, SendMapSnapshotKeeps,
       SendPlanKeeps DEF FwdNext
<1>3. ForwardInv => ForwardingSound
  BY DEF ForwardInv
<1> QED
  BY <1>1, <1>2, <1>3, PTL DEF FwdSpec

-----------------------------------------------------------------------------
(***************************************************************************)
(* Evaluation.  The invariant has a part for each shared structure: the    *)
(* window of events, the cooldown cache, the store, and what a callback    *)
(* carries between looking a cooldown up and recording it.                 *)
(***************************************************************************)
Severities == STRING \cup Overridable

Found == [n: Nat, host: EvHosts, rule: STRING, sev: Severities, at: Nat]

StoreKeys == {StoreKey(f) : f \in Found}

Busy == [stage: {"evaluate", "record"}, ev: arrived, found: Seq(Found), rules: Seq(RuleShape)]

EventsInv ==
    /\ evTime \in Nat /\ IsFiniteSet(arrived) /\ window \subseteq arrived
    /\ \A a \in arrived : /\ a.n \in Nat /\ a.n < Cardinality(arrived) /\ a.host \in EvHosts
                          /\ a.at \in Nat /\ a.at <= evTime
    /\ \A a, b \in arrived : a.n = b.n => a = b

OverridesInv == overrides \in Seq([id: STRING, sev: Overridable])

CooldownInv ==
    /\ \A k \in DOMAIN cooled : cooled[k] \in Nat /\ cooled[k] <= evTime
    /\ \A g \in generated :
          /\ g.rule \in RuleShape /\ g.checked \in Nat /\ g.at \in Nat
          /\ g.checked <= g.at /\ g.at <= evTime
          /\ g.rule.cooldown > 0 => /\ Key(g.host, g.rule) \in DOMAIN cooled
                                    /\ g.at <= cooled[Key(g.host, g.rule)]

(* The prior events of event n of host h, when rule r was evaluated at t. *)
Backing(n, h, r, t, type) ==
    \E a \in arrived : /\ a.n # n /\ a.host = h /\ a.type = type
                       /\ a.at >= t - r.window /\ a.at <= t

Backed(n, h, r, t) ==
    \/ \E type \in r.priorAny : Backing(n, h, r, t, type)
    \/ \A type \in r.priorAll : Backing(n, h, r, t, type)

(* The callback's earlier findings of the key are a cooldown before t. *)
Spaced(c, h, r, t) ==
    \A g \in generated : (g.by = c /\ g.host = h /\ g.rule = r /\ r.cooldown > 0)
                            => t - g.at >= r.cooldown

Last(j) == j.found[Len(j.found)]

(* What holds between the two critical sections of a turn. *)
Recording(c, j) ==
    /\ j.rules # <<>> /\ j.found # <<>>
    /\ Last(j).n = j.ev.n /\ Last(j).host = j.ev.host /\ Last(j).at <= evTime
    /\ Backed(j.ev.n, j.ev.host, Head(j.rules), Last(j).at)
    /\ Spaced(c, j.ev.host, Head(j.rules), Last(j).at)

JobInv(c, j) ==
    \/ j = Idle
    \/ j \in Busy /\ (j.stage = "record" => Recording(c, j))

JobsInv == job = [c \in Callbacks |-> job[c]] /\ \A c \in Callbacks : JobInv(c, job[c])

StoreInv ==
    /\ ring \in Seq(Found) /\ lru \in Seq(StoreKeys) /\ Unrepeated(lru) /\ Len(lru) <= DedupeCap
    /\ Len(lru) < DedupeCap => \A i \in DOMAIN ring : StoreKey(ring[i]) \in Elements(lru)
    /\ StoreHasNoDuplicates

EvalInv ==
    /\ EventsInv /\ OverridesInv /\ CooldownInv /\ JobsInv /\ StoreInv
    /\ OnePerCallbackAndCooldown /\ PriorIsAnother /\ WindowComplete

LEMMA EvalInvSound == EvalInv => FindingsSound
  BY DEF EvalInv, StoreInv, FindingsSound

LEMMA EvalInitial == EvalInit => EvalInv
<1> SUFFICES ASSUME EvalInit PROVE EvalInv
  OBVIOUS
<1> USE DEF EvalInit
<1>1. EventsInv /\ WindowComplete
  BY FS_EmptySet DEF EventsInv, WindowComplete
<1>2. OverridesInv
  BY DEF OverridesInv
<1>3. CooldownInv /\ OnePerCallbackAndCooldown /\ PriorIsAnother
  BY DEF CooldownInv, OnePerCallbackAndCooldown, PriorIsAnother, Preceded
<1>4. JobsInv
  BY DEF JobsInv, JobInv
<1>5. StoreInv
  <2>1. DedupeCap \in Nat \ {0}
    BY EvalAssumption
  <2>2. << >> \in Seq(Found) /\ << >> \in Seq(StoreKeys) /\ Len(<< >>) = 0 /\ DOMAIN << >> = {}
    OBVIOUS
  <2> QED
    BY <2>1, <2>2 DEF StoreInv, StoreHasNoDuplicates, Unrepeated
<1> QED
  BY <1>1, <1>2, <1>3, <1>4, <1>5 DEF EvalInv

(* AddFinding keeps the keys distinct and, until the cache is full, the    *)
(* ring covered by it.                                                     *)
LEMMA FindingAdded ==
  ASSUME StoreInv, NEW f \in Found, AddFinding(f)
  PROVE  StoreInv'
<1>1. PICK k : k = StoreKey(f)
  OBVIOUS
<1>2. k \in StoreKeys
  BY <1>1 DEF StoreKeys
<1>3. PICK cap, max : cap = DedupeCap /\ max = MaxFindings
  OBVIOUS
<1>4. cap \in Nat \ {0} /\ max \in Nat \ {0}
  BY <1>3, EvalAssumption
<1>5. /\ ring \in Seq(Found) /\ lru \in Seq(StoreKeys) /\ Unrepeated(lru) /\ Len(lru) <= cap
      /\ Len(lru) \in Nat /\ Len(ring) \in Nat /\ DOMAIN ring = 1..Len(ring)
  BY <1>3 DEF StoreInv
<1>6. Holds(lru, k) <=> k \in Elements(lru)
  BY DEF Holds, Elements
<1>7. CASE k \in Elements(lru)
  <2>1. lru' = Append(Kept(lru, {k}), k) /\ ring' = ring
    BY <1>1, <1>6, <1>7 DEF AddFinding, Dropped
  <2>2. PICK t : t = Kept(lru, {k})
    OBVIOUS
  <2>3. t \in Seq(StoreKeys) /\ Unrepeated(t) /\ Elements(t) = Elements(lru) \ {k} /\ Len(t) = Len(lru) - 1
    BY <1>5, <1>7, <2>2, KeptWithout
  <2>4. /\ Append(t, k) \in Seq(StoreKeys) /\ Elements(Append(t, k)) = Elements(t) \cup {k}
        /\ Len(Append(t, k)) = Len(t) + 1
    BY <1>2, <2>3, ElementsAppend
  <2>5. Unrepeated(Append(t, k))
    BY <1>2, <2>3, UnrepeatedAppend
  <2>6. lru' \in Seq(StoreKeys) /\ Unrepeated(lru') /\ Elements(lru') = Elements(lru) /\ Len(lru') = Len(lru)
    <3>1. lru' = Append(t, k)
      BY <2>1, <2>2
    <3>2. Elements(t) \cup {k} = Elements(lru)
      BY <1>7, <2>3
    <3>3. Len(t) + 1 = Len(lru)
      BY <1>5, <2>3
    <3> QED
      BY <2>4, <2>5, <3>1, <3>2, <3>3
  <2> QED
    BY <2>1, <2>6 DEF StoreInv, StoreHasNoDuplicates, StoreKey, Unrepeated, Elements
<1>8. CASE k \notin Elements(lru)
  <2>1. lru' = Pushed(lru, k, cap) /\ ring' = Pushed(ring, f, max)
    BY <1>1, <1>3, <1>6, <1>8 DEF AddFinding
  <2>2. PICK keys, kept : /\ keys = (IF Len(lru) = cap THEN Tail(lru) ELSE lru)
                          /\ kept = (IF Len(ring) = max THEN Tail(ring) ELSE ring)
    OBVIOUS
  <2>3. /\ keys \in Seq(StoreKeys) /\ Unrepeated(keys) /\ Elements(keys) \subseteq Elements(lru)
        /\ Len(keys) = IF Len(lru) = cap THEN cap - 1 ELSE Len(lru)
        /\ Len(lru) # cap => keys = lru
    <3>1. CASE Len(lru) = cap
      <4>1. lru # << >>
        BY <1>4, <1>5, <3>1
      <4> QED
        BY <1>4, <1>5, <2>2, <3>1, <4>1, UnrepeatedTail, ElementsTail
    <3>2. CASE Len(lru) # cap
      BY <1>5, <2>2, <3>2
    <3> QED
      BY <3>1, <3>2
  <2>4. lru' = Append(keys, k) /\ ring' = Append(kept, f)
    BY <2>1, <2>2 DEF Pushed
  <2>5. k \notin Elements(keys)
    BY <1>8, <2>3
  <2>6. /\ lru' \in Seq(StoreKeys) /\ Elements(lru') = Elements(keys) \cup {k}
        /\ Len(lru') = Len(keys) + 1 /\ Unrepeated(lru')
    BY <1>2, <2>3, <2>4, <2>5, ElementsAppend, UnrepeatedAppend
  <2>7. Len(lru') <= cap
    BY <1>4, <1>5, <2>3, <2>6
  <2>8. PICK d \in {0, 1} : /\ kept \in Seq(Found) /\ Len(kept) = Len(ring) - d /\ Len(kept) \in Nat
                            /\ \A i \in 1..Len(kept) : i + d \in DOMAIN ring /\ kept[i] = ring[i + d]
    <3>1. CASE Len(ring) = max
      <4>1. ring # << >>
        BY <1>4, <1>5, <3>1
      <4>2. /\ kept \in Seq(Found) /\ Len(kept) = Len(ring) - 1 /\ Len(kept) \in Nat
            /\ \A i \in 1..Len(kept) : i + 1 \in DOMAIN ring /\ kept[i] = ring[i + 1]
        BY <1>4, <1>5, <2>2, <3>1, <4>1
      <4> QED
        BY <4>2
    <3>2. CASE Len(ring) # max
      <4>1. /\ kept \in Seq(Found) /\ Len(kept) = Len(ring) - 0 /\ Len(kept) \in Nat
            /\ \A i \in 1..Len(kept) : i + 0 \in DOMAIN ring /\ kept[i] = ring[i + 0]
        <5>1. kept = ring
          BY <2>2, <3>2
        <5>2. \A i \in 1..Len(ring) : i + 0 = i
          OBVIOUS
        <5> QED
          BY <1>5, <5>1, <5>2
      <4> QED
        BY <4>1
    <3> QED
      BY <3>1, <3>2
  <2>9. /\ ring' \in Seq(Found) /\ DOMAIN ring' = 1..(Len(kept) + 1) /\ ring'[Len(kept) + 1] = f
        /\ \A i \in 1..Len(kept) : ring'[i] = kept[i]
    BY <2>4, <2>8
  <2>10. ASSUME Len(lru') < cap
         PROVE  /\ \A i \in DOMAIN ring' : StoreKey(ring'[i]) \in Elements(lru')
                /\ \A i, j \in DOMAIN ring' : StoreKey(ring'[i]) = StoreKey(ring'[j]) => i = j
    <3>1. Len(lru) < cap /\ keys = lru
      BY <1>4, <1>5, <2>3, <2>6, <2>10
    <3>2. PICK key : key = [i \in 1..(Len(kept) + 1) |-> StoreKey(ring'[i])]
      OBVIOUS
    <3>3. PICK old : old = [i \in DOMAIN ring |-> StoreKey(ring[i])]
      OBVIOUS
    <3>4. /\ key[Len(kept) + 1] = k
          /\ \A i \in 1..Len(kept) : i + d \in DOMAIN ring /\ key[i] = old[i + d]
      BY <1>1, <2>8, <2>9, <3>2, <3>3
    <3>5. /\ \A i \in DOMAIN ring : old[i] \in Elements(lru)
          /\ \A i, j \in DOMAIN ring : old[i] = old[j] => i = j
      BY <1>3, <3>1, <3>3 DEF StoreInv, StoreHasNoDuplicates
    <3>6. \A i \in 1..(Len(kept) + 1) : key[i] \in Elements(lru) \cup {k}
      <4>1. \A i \in 1..(Len(kept) + 1) : i \in 1..Len(kept) \/ i = Len(kept) + 1
        BY <2>8
      <4> QED
        BY <3>4, <3>5, <4>1
    <3>7. \A i, j \in 1..(Len(kept) + 1) : key[i] = key[j] => i = j
      <4> SUFFICES ASSUME NEW i \in 1..(Len(kept) + 1), NEW j \in 1..(Len(kept) + 1), key[i] = key[j]
                   PROVE  i = j
        OBVIOUS
      <4>1. \A m \in 1..(Len(kept) + 1) : m \in 1..Len(kept) \/ m = Len(kept) + 1
        BY <2>8
      <4>2. \A m \in 1..Len(kept) : key[m] # k
        BY <1>8, <3>4, <3>5
      <4>3. CASE i \in 1..Len(kept) /\ j \in 1..Len(kept)
        <5>1. i + d = j + d
          BY <3>4, <3>5, <4>3
        <5> QED
          BY <4>3, <5>1
      <4> QED
        BY <3>4, <4>1, <4>2, <4>3
    <3> QED
      BY <2>6, <2>9, <3>1, <3>2, <3>6, <3>7
  <2> QED
    BY <1>3, <2>6, <2>7, <2>9, <2>10 DEF StoreInv, StoreHasNoDuplicates, StoreKey, Unrepeated,
       Elements
<1> QED
  BY <1>7, <1>8

(* Time, and what others do, does not take away what a callback found.     *)
LEMMA RecordingKept ==
  ASSUME NEW c, NEW j, Recording(c, j), evTime \in Nat, evTime' \in Nat, evTime <= evTime',
         Last(j).at \in Nat, arrived \subseteq arrived',
         \A g \in generated' : g \in generated \/ g.by # c
  PROVE  Recording(c, j)'
<1>1. PICK n, h, r, t : n = j.ev.n /\ h = j.ev.host /\ r = Head(j.rules) /\ t = Last(j).at
  OBVIOUS
<1>2. Backed(n, h, r, t) /\ Spaced(c, h, r, t)
  BY <1>1 DEF Recording
<1>3. Backed(n, h, r, t)'
  BY <1>2 DEF Backed, Backing
<1>4. Spaced(c, h, r, t)'
  BY <1>2 DEF Spaced
<1>5. t <= evTime'
  BY <1>1 DEF Recording
<1> QED
  BY <1>1, <1>3, <1>4, <1>5 DEF Recording, Last

LEMMA JobKept ==
  ASSUME NEW c, NEW j, JobInv(c, j), evTime \in Nat, evTime' \in Nat, evTime <= evTime',
         arrived \subseteq arrived', \A g \in generated' : g \in generated \/ g.by # c
  PROVE  JobInv(c, j)'
<1>1. CASE j = Idle
  BY <1>1 DEF JobInv, Idle
<1>2. CASE j \in Busy /\ (j.stage = "record" => Recording(c, j))
  <2>1. j \in Busy'
    BY <1>2 DEF Busy
  <2>2. ASSUME j.stage = "record" PROVE Recording(c, j)'
    <3>1. Recording(c, j)
      BY <1>2, <2>2
    <3>2. Last(j).at \in Nat
      <4>1. j.found \in Seq(Found) /\ j.found # << >>
        BY <1>2, <3>1 DEF Busy, Recording
      <4>2. Last(j) \in Found
        BY <4>1 DEF Last
      <4> QED
        BY <4>2 DEF Found
    <3> QED
      BY <3>1, <3>2, RecordingKept
  <2> QED
    BY <2>1, <2>2 DEF JobInv
<1> QED
  BY <1>1, <1>2 DEF JobInv

LEMMA JobsKept ==
  ASSUME EventsInv, JobsInv, evTime' \in Nat, evTime <= evTime', arrived \subseteq arrived',
         UNCHANGED <<job, generated>>
  PROVE  JobsInv'
<1> SUFFICES ASSUME NEW c \in Callbacks PROVE JobInv(c, job[c])'
  BY DEF JobsInv
<1>1. PICK j : j = job[c]
  OBVIOUS
<1>2. JobInv(c, j)'
  BY <1>1, JobKept DEF JobsInv, EventsInv
<1> QED
  BY <1>1, <1>2 DEF JobInv, Recording, Last, Idle, Busy

LEMMA JobMoved ==
  ASSUME EventsInv, JobsInv, evTime' = evTime, arrived \subseteq arrived',
         NEW c \in Callbacks, NEW k, job' = [job EXCEPT ![c] = k], JobInv(c, k)',
         \A g \in generated' : g \in generated \/ g.by = c
  PROVE  JobsInv'
<1>1. job' = [b \in Callbacks |-> job'[b]] /\ job'[c] = k /\ \A b \in Callbacks \ {c} : job'[b] = job[b]
  BY DEF JobsInv
<1> SUFFICES ASSUME NEW b \in Callbacks PROVE JobInv(b, job[b])'
  BY <1>1 DEF JobsInv
<1>2. PICK j : j = job'[b]
  OBVIOUS
<1>3. JobInv(b, j)'
  <2>1. CASE b = c
    BY <1>1, <1>2, <2>1
  <2>2. CASE b # c
    BY <1>1, <1>2, <2>2, JobKept DEF JobsInv, EventsInv
  <2> QED
    BY <2>1, <2>2
<1> QED
  BY <1>2, <1>3 DEF JobInv, Recording, Last, Idle, Busy

LEMMA TimeKeeps ==
  ASSUME EvalInv, EvalTick \/ WindowGC
  PROVE  EvalInv'
<1> USE DEF EvalInv
<1>1. UNCHANGED <<arrived, cooled, overrides, job, generated, ring, lru>> /\ window' \subseteq window
  BY DEF EvalTick, WindowGC
<1>2. evTime \in Nat /\ evTime' \in {evTime, evTime + 1}
  BY DEF EventsInv, EvalTick, WindowGC
<1>3. EventsInv'
  BY <1>1, <1>2 DEF EventsInv
<1>4. OverridesInv' /\ StoreInv'
  BY <1>1 DEF OverridesInv, StoreInv, StoreHasNoDuplicates, StoreKey, Unrepeated, Elements
<1>5. CooldownInv'
  BY <1>1, <1>2 DEF CooldownInv, Key
<1>6. JobsInv'
  <2>1. evTime' \in Nat /\ evTime <= evTime'
    BY <1>2
  <2> QED
    BY <1>1, <2>1, JobsKept
<1>7. OnePerCallbackAndCooldown' /\ PriorIsAnother'
  BY <1>1 DEF OnePerCallbackAndCooldown, PriorIsAnother, Preceded
<1>8. WindowComplete'
  <2>1. MaxAge \in Nat
    BY EvalAssumption
  <2>2. \A a \in arrived : a.at \in Nat
    BY DEF EventsInv
  <2>3. CASE EvalTick
    BY <1>1, <1>2, <2>1, <2>2, <2>3 DEF WindowComplete, EvalTick
  <2>4. CASE WindowGC
    BY <1>1, <1>2, <2>1, <2>2, <2>4 DEF WindowComplete, WindowGC, Collected
  <2> QED
    BY <2>3, <2>4
<1> QED
  BY <1>3, <1>4, <1>5, <1>6, <1>7, <1>8

(* A step that leaves alone what is evaluated: the store is emptied, the   *)
(* snapshot or the overrides change.                                       *)
LEMMA ApiKeeps ==
  ASSUME EvalInv, UNCHANGED <<evTime, arrived, window, cooled, job, generated>>,
         OverridesInv', StoreInv'
  PROVE  EvalInv'
<1> USE DEF EvalInv
<1>1. EventsInv' /\ WindowComplete'
  BY DEF EventsInv, WindowComplete
<1>2. CooldownInv'
  BY DEF CooldownInv, Key
<1>3. JobsInv'
  <2>1. evTime' \in Nat /\ evTime <= evTime' /\ arrived \subseteq arrived'
    BY DEF EventsInv
  <2> QED
    BY <2>1, JobsKept
<1>4. OnePerCallbackAndCooldown' /\ PriorIsAnother'
  BY DEF OnePerCallbackAndCooldown, PriorIsAnother, Preceded
<1> QED
  BY <1>1, <1>2, <1>3, <1>4

LEMMA ClearFindingsKeeps ==
  ASSUME EvalInv, ClearFindings
  PROVE  EvalInv'
<1>1. ring' = << >> /\ lru' = << >> /\ DedupeCap \in Nat \ {0}
  BY EvalAssumption DEF ClearFindings, RingAfterClear
<1>2. << >> \in Seq(Found) /\ << >> \in Seq(StoreKeys) /\ Len(<< >>) = 0 /\ DOMAIN << >> = {}
  OBVIOUS
<1>3. StoreInv'
  BY <1>1, <1>2 DEF StoreInv, StoreHasNoDuplicates, Unrepeated
<1>4. OverridesInv'
  BY DEF ClearFindings, EvalInv, OverridesInv
<1> QED
  BY <1>3, <1>4, ApiKeeps DEF ClearFindings

LEMMA StoreKept ==
  ASSUME StoreInv, UNCHANGED <<ring, lru>>
  PROVE  StoreInv'
  BY DEF StoreInv, StoreHasNoDuplicates, StoreKey, Unrepeated, Elements

LEMMA OverridesKeep ==
  ASSUME EvalInv,
         \/ \E ids \in Snapshots : SnapshotChanges(ids)
         \/ \E i \in DOMAIN RuleList, s \in Overridable : AddOverride([id |-> RuleList[i].id, sev |-> s])
         \/ \E i \in 1..MaxOverrides : RemoveOverride(i)
  PROVE  EvalInv'
<1>1. UNCHANGED <<evTime, arrived, window, cooled, job, generated, ring, lru>>
  BY DEF SnapshotChanges, AddOverride, RemoveOverride
<1>2. StoreInv'
  BY <1>1, StoreKept DEF EvalInv
<1>3. PICK S : S = [id: STRING, sev: Overridable]
  OBVIOUS
<1>4. overrides \in Seq(S)
  BY <1>3 DEF EvalInv, OverridesInv
<1>5. overrides' \in Seq(S)
  <2>1. CASE \E ids \in Snapshots : SnapshotChanges(ids)
    BY <1>4, <2>1 DEF SnapshotChanges
  <2>2. ASSUME NEW i \in DOMAIN RuleList, NEW s \in Overridable, AddOverride([id |-> RuleList[i].id, sev |-> s])
        PROVE  overrides' \in Seq(S)
    <3>1. RuleList[i] \in RuleShape
      BY RuleListAssumption
    <3>2. [id |-> RuleList[i].id, sev |-> s] \in S
      BY <1>3, <3>1 DEF RuleShape
    <3> QED
      BY <1>4, <2>2, <3>2 DEF AddOverride
  <2>3. ASSUME NEW i \in 1..MaxOverrides, RemoveOverride(i)
        PROVE  overrides' \in Seq(S)
    <3>1. PICK n : n = Len(overrides)
      OBVIOUS
    <3>2. n \in Nat /\ i \in 1..n /\ \A j \in 1..n : overrides[j] \in S
      BY <1>4, <2>3, <3>1 DEF RemoveOverride
    <3>3. \A j \in 1..(n - 1) : (IF j < i THEN overrides[j] ELSE overrides[j + 1]) \in S
      BY <3>2
    <3>4. overrides' = [j \in 1..(n - 1) |-> IF j < i THEN overrides[j] ELSE overrides[j + 1]]
      BY <2>3, <3>1 DEF RemoveOverride
    <3>5. n - 1 \in Nat
      BY <3>2
    <3>6. overrides' \in [1..(n - 1) -> S]
      BY <3>3, <3>4
    <3> QED
      BY <3>5, <3>6
  <2> QED
    BY <2>1, <2>2, <2>3
<1>6. OverridesInv'
  BY <1>3, <1>5 DEF OverridesInv
<1> QED
  BY <1>1, <1>2, <1>6, ApiKeeps

LEMMA OnEventKeeps ==
  ASSUME EvalInv, NEW c \in Callbacks, NEW h \in EvHosts, NEW t \in EvTypes,
         NEW l \in SUBSET EvLabels, OnEvent(c, h, t, l)
  PROVE  EvalInv'
<1> USE DEF EvalInv
<1>1. PICK n, ev : n = Cardinality(arrived)
                /\ ev = [n |-> n, host |-> h, type |-> t, ts |-> evTime, at |-> evTime]
  OBVIOUS
<1>2. /\ arrived' = arrived \cup {ev} /\ window' = window \cup {ev}
      /\ UNCHANGED <<evTime, cooled, overrides, generated, ring, lru>>
  BY <1>1 DEF OnEvent
<1>3. PICK out : job' = [job EXCEPT ![c] = [stage |-> "evaluate", ev |-> ev, found |-> <<>>,
                                            rules |-> Kept(RuleList, out)]]
  BY <1>1, Zenon DEF OnEvent
<1>4. ev.n = n /\ ev.host = h /\ ev.at = evTime /\ evTime \in Nat
  BY <1>1 DEF EventsInv
<1>5. n \in Nat /\ IsFiniteSet(arrived) /\ ev \notin arrived
  BY <1>1, <1>4, FS_CardinalityType DEF EventsInv
<1>6. IsFiniteSet(arrived') /\ Cardinality(arrived') = n + 1
  BY <1>1, <1>2, <1>5, FS_AddElement
<1>7. EventsInv'
  <2>1. \A a \in arrived : /\ a.n \in Nat /\ a.n < n /\ a.host \in EvHosts
                           /\ a.at \in Nat /\ a.at <= evTime
    BY <1>1 DEF EventsInv
  <2>2. \A a \in arrived' : /\ a.n \in Nat /\ a.n < n + 1 /\ a.host \in EvHosts
                            /\ a.at \in Nat /\ a.at <= evTime
    BY <1>2, <1>4, <1>5, <2>1
  <2>3. \A a, b \in arrived' : a.n = b.n => a = b
    BY <1>2, <1>4, <1>5, <2>1 DEF EventsInv
  <2> QED
    BY <1>2, <1>6, <2>2, <2>3 DEF EventsInv
<1>8. OverridesInv' /\ StoreInv'
  BY <1>2, StoreKept DEF OverridesInv
<1>9. CooldownInv'
  BY <1>2 DEF CooldownInv, Key
<1>10. JobsInv'
  <2>1. PICK rules : rules = Kept(RuleList, out)
    OBVIOUS
  <2>2. rules \in Seq(RuleShape)
    BY <2>1, RuleListAssumption, KeptElements
  <2>3. PICK k : k = [stage |-> "evaluate", ev |-> ev, found |-> <<>>, rules |-> rules]
    OBVIOUS
  <2>4. ev \in arrived' /\ << >> \in Seq(Found)
    BY <1>2
  <2>5. k \in Busy' /\ k.stage = "evaluate"
    BY <2>2, <2>3, <2>4 DEF Busy
  <2>6. JobInv(c, k)'
    BY <2>5 DEF JobInv
  <2>7. job' = [job EXCEPT ![c] = k]
    BY <1>3, <2>1, <2>3
  <2> QED
    BY <1>2, <2>6, <2>7, JobMoved
<1>11. OnePerCallbackAndCooldown' /\ PriorIsAnother'
  BY <1>2 DEF OnePerCallbackAndCooldown, PriorIsAnother, Preceded
<1>12. WindowComplete'
  BY <1>2 DEF WindowComplete
<1> QED
  BY <1>7, <1>8, <1>9, <1>10, <1>11, <1>12

(* A callback moves its job on and nothing else that matters here changes. *)
LEMMA TurnKeeps ==
  ASSUME EvalInv, NEW c \in Callbacks, NEW k, job' = [job EXCEPT ![c] = k], JobInv(c, k)',
         UNCHANGED <<evTime, arrived, window, cooled, overrides, generated>>, StoreInv'
  PROVE  EvalInv'
<1> USE DEF EvalInv
<1>1. EventsInv' /\ WindowComplete' /\ OverridesInv'
  BY DEF EventsInv, WindowComplete, OverridesInv
<1>2. CooldownInv'
  BY DEF CooldownInv, Key
<1>3. JobsInv'
  BY JobMoved
<1>4. OnePerCallbackAndCooldown' /\ PriorIsAnother'
  BY DEF OnePerCallbackAndCooldown, PriorIsAnother, Preceded
<1> QED
  BY <1>1, <1>2, <1>3, <1>4

LEMMA BusyJob ==
  ASSUME JobsInv, NEW c \in Callbacks, job[c].stage \in {"evaluate", "record"}
  PROVE  /\ job[c] \in Busy /\ JobInv(c, job[c])
<1>1. job[c] # Idle
  BY DEF Idle
<1> QED
  BY <1>1 DEF JobsInv, JobInv, Busy

(* How a callback's job moves on. *)
Checked(j, more) == [j EXCEPT !.stage = "record", !.found = more]
Recorded(j, rest) == [j EXCEPT !.stage = "evaluate", !.rules = rest]

LEMMA TurnChecked ==
  ASSUME NEW j \in Busy, NEW more \in Seq(Found), NEW k, k = Checked(j, more)
  PROVE  k \in Busy /\ k.stage = "record" /\ k.ev = j.ev /\ k.rules = j.rules /\ k.found = more
<1>1. PICK p : p = [j EXCEPT !.stage = "record"]
  OBVIOUS
<1>2. p \in Busy /\ p.stage = "record" /\ p.ev = j.ev /\ p.rules = j.rules
  BY <1>1 DEF Busy
<1>3. k = [p EXCEPT !.found = more]
  BY <1>1 DEF Checked
<1> QED
  BY <1>2, <1>3 DEF Busy

LEMMA TurnRecorded ==
  ASSUME NEW j \in Busy, NEW rest \in Seq(RuleShape), NEW k, k = Recorded(j, rest)
  PROVE  k \in Busy /\ k.stage = "evaluate"
<1>1. PICK p : p = [j EXCEPT !.stage = "evaluate"]
  OBVIOUS
<1>2. p \in Busy /\ p.stage = "evaluate"
  BY <1>1 DEF Busy
<1>3. k = [p EXCEPT !.rules = rest]
  BY <1>1 DEF Recorded
<1> QED
  BY <1>2, <1>3 DEF Busy

LEMMA TurnMoved ==
  ASSUME NEW j \in Busy, NEW rest \in Seq(RuleShape), NEW more \in Seq(Found)
  PROVE  /\ [j EXCEPT !.rules = rest] \in Busy /\ [j EXCEPT !.rules = rest].stage = j.stage
         /\ [j EXCEPT !.found = more] \in Busy /\ [j EXCEPT !.found = more].stage = j.stage
<1>1. PICK k : k = [j EXCEPT !.rules = rest]
  OBVIOUS
<1>2. k \in Busy /\ k.stage = j.stage
  BY <1>1 DEF Busy
<1>3. PICK m : m = [j EXCEPT !.found = more]
  OBVIOUS
<1>4. m \in Busy /\ m.stage = j.stage
  BY <1>3 DEF Busy
<1> QED
  BY <1>1, <1>2, <1>3, <1>4

LEMMA EvaluateRuleKeeps ==
  ASSUME EvalInv, NEW c \in Callbacks, EvaluateRule(c)
  PROVE  EvalInv'
<1> USE DEF EvalInv
<1>1. PICK ev, found, rules, r : ev = job[c].ev /\ found = job[c].found /\ rules = job[c].rules
                              /\ r = Head(rules)
  OBVIOUS
<1>2. /\ job[c].stage = "evaluate" /\ rules # << >>
      /\ UNCHANGED <<evTime, arrived, window, cooled, overrides, generated, ring, lru>>
  BY <1>1 DEF EvaluateRule
<1>3. /\ ev \in arrived /\ found \in Seq(Found) /\ rules \in Seq(RuleShape)
      /\ job[c] \in Busy
  BY <1>1, <1>2, BusyJob DEF Busy
<1>4. r \in RuleShape /\ Tail(rules) \in Seq(RuleShape)
  BY <1>1, <1>2, <1>3
<1>5. StoreInv'
  BY <1>2, StoreKept
<1>6. CASE Triggers(ev, r) /\ ~ShouldDedupe(ev.host, r)
  <2>1. PICK sev \in ApplyOverrides(r) :
           job' = [job EXCEPT ![c] = [job[c] EXCEPT !.stage = "record", !.found = Append(@,
                      [n |-> ev.n, host |-> ev.host, rule |-> r.id, sev |-> sev, at |-> evTime])]]
    BY <1>1, <1>6 DEF EvaluateRule
  <2>2. PICK f : f = [n |-> ev.n, host |-> ev.host, rule |-> r.id, sev |-> sev, at |-> evTime]
    OBVIOUS
  <2>3. PICK more, k : more = Append(found, f)
                    /\ k = Checked(job[c], more)
    OBVIOUS
  <2>4. job' = [job EXCEPT ![c] = k]
    BY <1>1, <2>1, <2>2, <2>3 DEF Checked
  <2>5. sev \in Severities
    <3>1. \A i \in DOMAIN overrides : overrides[i].sev \in Overridable
      <4>1. PICK S : S = [id: STRING, sev: Overridable]
        OBVIOUS
      <4>2. overrides \in Seq(S)
        BY <4>1 DEF OverridesInv
      <4>3. \A i \in DOMAIN overrides : overrides[i] \in S
        BY <4>2
      <4> QED
        BY <4>1, <4>3
    <3>2. r.sev \in STRING
      BY <1>4 DEF RuleShape
    <3> QED
      BY <3>1, <3>2 DEF ApplyOverrides, Severities
  <2>6. f \in Found
    BY <1>3, <1>4, <2>2, <2>5 DEF Found, EventsInv, RuleShape
  <2>7. more \in Seq(Found) /\ more # << >> /\ more[Len(more)] = f
    BY <1>3, <2>3, <2>6
  <2>8. k \in Busy /\ k.stage = "record" /\ k.ev = ev /\ k.rules = rules /\ k.found = more
    <3>1. PICK j : j = job[c]
      OBVIOUS
    <3>2. j \in Busy /\ k = Checked(j, more) /\ more \in Seq(Found)
      BY <1>3, <2>3, <2>7, <3>1
    <3>3. k \in Busy /\ k.stage = "record" /\ k.ev = j.ev /\ k.rules = j.rules /\ k.found = more
      BY <3>2, TurnChecked
    <3> QED
      BY <1>1, <3>1, <3>3
  <2>9. Last(k) = f /\ f.n = ev.n /\ f.host = ev.host /\ f.at = evTime
    BY <2>2, <2>7, <2>8 DEF Last
  <2>10. Backed(ev.n, ev.host, r, evTime)
    <3>1. ASSUME NEW type, HasPrior(ev, type, r) PROVE Backing(ev.n, ev.host, r, evTime, type)
      BY <1>3, <3>1 DEF Backing, HasPrior, RecentEvents, EventsInv
    <3>2. PriorsHold(ev, r)
      BY <1>6 DEF Triggers
    <3> QED
      BY <3>1, <3>2 DEF Backed, PriorsHold
  <2>11. Spaced(c, ev.host, r, evTime)
    BY <1>4, <1>6, SMTT(20) DEF Spaced, ShouldDedupe, CooldownInv, EventsInv, RuleShape
  <2>12. evTime \in Nat
    BY DEF EventsInv
  <2>13. Recording(c, k)
    BY <1>1, <1>2, <2>7, <2>8, <2>9, <2>10, <2>11, <2>12 DEF Recording
  <2>14. JobInv(c, k)'
    BY <1>2, <2>8, <2>13 DEF JobInv, Recording, Last, Backed, Backing, Spaced, Busy
  <2> QED
    BY <1>2, <1>5, <2>4, <2>14, TurnKeeps
<1>7. CASE ~(Triggers(ev, r) /\ ~ShouldDedupe(ev.host, r))
  <2>1. job' = [job EXCEPT ![c].rules = Tail(@)]
    BY <1>1, <1>7 DEF EvaluateRule
  <2>2. PICK k : k = [job[c] EXCEPT !.rules = Tail(rules)]
    OBVIOUS
  <2>3. job' = [job EXCEPT ![c] = k]
    BY <1>1, <2>1, <2>2
  <2>4. k \in Busy /\ k.stage = "evaluate"
    BY <1>2, <1>3, <1>4, <2>2, TurnMoved
  <2>5. JobInv(c, k)'
    BY <1>2, <2>4 DEF JobInv, Busy
  <2> QED
    BY <1>2, <1>5, <2>3, <2>5, TurnKeeps
<1> QED
  BY <1>6, <1>7

LEMMA RecordFindingKeeps ==
  ASSUME EvalInv, NEW c \in Callbacks, RecordFinding(c)
  PROVE  EvalInv'
<1> USE DEF EvalInv
<1>1. PICK j, r, h, f : j = job[c] /\ r = Head(j.rules) /\ h = j.ev.host /\ f = Last(j)
  OBVIOUS
<1>2. PICK new : new = [by |-> c, n |-> f.n, host |-> f.host, rule |-> r, checked |-> f.at,
                        at |-> evTime]
  OBVIOUS
<1>3. /\ j.stage = "record" /\ cooled' = RecordDedupeKey(h, r) /\ generated' = generated \cup {new}
      /\ UNCHANGED <<evTime, arrived, window, overrides, ring, lru>>
  BY <1>1, <1>2 DEF RecordFinding, Last
<1>4. job' = [job EXCEPT ![c] = Recorded(j, Tail(j.rules))]
  BY <1>1 DEF RecordFinding, Recorded
<1>5. j \in Busy /\ JobInv(c, j)
  BY <1>1, <1>3, BusyJob
<1>6. Recording(c, j)
  BY <1>3, <1>5 DEF JobInv, Idle
<1>7. j.rules \in Seq(RuleShape) /\ j.found \in Seq(Found) /\ j.rules # << >> /\ j.found # << >>
  BY <1>5, <1>6 DEF Busy, Recording
<1>8. r \in RuleShape /\ Tail(j.rules) \in Seq(RuleShape) /\ f \in Found
  BY <1>1, <1>7 DEF Last
<1>9. r.cooldown \in Nat /\ f.at \in Nat /\ evTime \in Nat /\ f.at <= evTime /\ f.host = h
  BY <1>1, <1>6, <1>8 DEF RuleShape, Found, EventsInv, Recording
<1>10. Backed(f.n, h, r, f.at) /\ Spaced(c, h, r, f.at)
  BY <1>1, <1>6 DEF Recording
<1>11. /\ new.by = c /\ new.n = f.n /\ new.host = h /\ new.rule = r /\ new.checked = f.at
       /\ new.at = evTime
  BY <1>2, <1>9
<1>12. EventsInv' /\ WindowComplete' /\ OverridesInv' /\ StoreInv'
  BY <1>3, StoreKept DEF EventsInv, WindowComplete, OverridesInv
<1>13. CooldownInv'
  <2>1. /\ DOMAIN cooled \subseteq DOMAIN cooled'
        /\ \A k \in DOMAIN cooled' : \/ k = Key(h, r) /\ cooled'[k] = evTime
                                     \/ k \in DOMAIN cooled /\ cooled'[k] = cooled[k]
        /\ r.cooldown > 0 => Key(h, r) \in DOMAIN cooled' /\ cooled'[Key(h, r)] = evTime
    BY <1>3, <1>9 DEF RecordDedupeKey
  <2>2. \A k \in DOMAIN cooled' : cooled'[k] \in Nat /\ cooled'[k] <= evTime
    BY <1>9, <2>1 DEF CooldownInv
  <2>3. \A k \in DOMAIN cooled : k \in DOMAIN cooled' /\ cooled[k] <= cooled'[k]
    BY <1>9, <2>1 DEF CooldownInv
  <2>4. \A g \in generated' :
          /\ g.rule \in RuleShape /\ g.checked \in Nat /\ g.at \in Nat
          /\ g.checked <= g.at /\ g.at <= evTime
          /\ g.rule.cooldown > 0 => /\ Key(g.host, g.rule) \in DOMAIN cooled'
                                    /\ g.at <= cooled'[Key(g.host, g.rule)]
    <3> SUFFICES ASSUME NEW g \in generated'
                 PROVE  /\ g.rule \in RuleShape /\ g.checked \in Nat /\ g.at \in Nat
                        /\ g.checked <= g.at /\ g.at <= evTime
                        /\ g.rule.cooldown > 0 => /\ Key(g.host, g.rule) \in DOMAIN cooled'
                                                  /\ g.at <= cooled'[Key(g.host, g.rule)]
      OBVIOUS
    <3>1. CASE g = new
      BY <1>8, <1>9, <1>11, <2>1, <3>1
    <3>2. CASE g \in generated
      <4>1. /\ g.rule \in RuleShape /\ g.checked \in Nat /\ g.at \in Nat
            /\ g.checked <= g.at /\ g.at <= evTime
        BY <3>2 DEF CooldownInv
      <4>2. ASSUME g.rule.cooldown > 0
            PROVE  Key(g.host, g.rule) \in DOMAIN cooled' /\ g.at <= cooled'[Key(g.host, g.rule)]
        <5>1. PICK k : k = Key(g.host, g.rule)
          OBVIOUS
        <5>2. k \in DOMAIN cooled /\ g.at <= cooled[k] /\ cooled[k] \in Nat
          BY <3>2, <4>2, <5>1 DEF CooldownInv
        <5>3. k \in DOMAIN cooled' /\ cooled[k] <= cooled'[k] /\ cooled'[k] \in Nat
          BY <2>2, <2>3, <5>2
        <5> QED
          BY <4>1, <5>1, <5>2, <5>3
      <4> QED
        BY <4>1, <4>2
    <3> QED
      BY <1>3, <3>1, <3>2
  <2> QED
    BY <1>3, <2>2, <2>4 DEF CooldownInv, Key
<1>14. JobsInv'
  <2>1. PICK k : k = Recorded(j, Tail(j.rules))
    OBVIOUS
  <2>2. k \in Busy /\ k.stage = "evaluate"
    BY <1>5, <1>8, <2>1, TurnRecorded
  <2>3. JobInv(c, k)'
    BY <1>3, <2>2 DEF JobInv, Busy
  <2>4. \A g \in generated' : g \in generated \/ g.by = c
    BY <1>3, <1>11
  <2> QED
    BY <1>3, <1>4, <2>1, <2>3, <2>4, JobMoved
<1>15. OnePerCallbackAndCooldown'
  <2>1. \A g \in generated : (g.by = c /\ g.host = h /\ g.rule = r /\ r.cooldown > 0)
                                => f.at - g.at >= r.cooldown /\ g.at < evTime
    BY <1>9, <1>10 DEF Spaced, CooldownInv
  <2> SUFFICES ASSUME NEW g \in generated', NEW d \in generated', g # d, g.by = d.by,
                      g.host = d.host, g.rule = d.rule, g.rule.cooldown > 0, g.at <= d.at
               PROVE  d.checked - g.at >= g.rule.cooldown
    BY DEF OnePerCallbackAndCooldown
  <2>2. CASE g \in generated /\ d \in generated
    BY <2>2 DEF OnePerCallbackAndCooldown
  <2>3. CASE g \in generated /\ d = new
    BY <1>11, <2>1, <2>3
  <2>4. CASE g = new /\ d \in generated
    <3>1. d.at < evTime /\ d.at \in Nat
      BY <1>11, <2>1, <2>4 DEF CooldownInv
    <3> QED
      BY <1>9, <1>11, <2>4, <3>1
  <2> QED
    BY <1>3, <2>2, <2>3, <2>4
<1>16. PriorIsAnother'
  BY <1>3, <1>10, <1>11 DEF PriorIsAnother, Preceded, Backed, Backing
<1> QED
  BY <1>12, <1>13, <1>14, <1>15, <1>16

LEMMA StoreFindingKeeps ==
  ASSUME EvalInv, NEW c \in Callbacks, StoreFinding(c)
  PROVE  EvalInv'
<1> USE DEF EvalInv
<1>1. PICK j, found : j = job[c] /\ found = j.found
  OBVIOUS
<1>2. j.stage = "evaluate" /\ UNCHANGED <<evTime, arrived, window, cooled, overrides, generated>>
  BY <1>1 DEF StoreFinding
<1>3. j \in Busy
  BY <1>1, <1>2, BusyJob
<1>4. found \in Seq(Found) /\ j.rules \in Seq(RuleShape)
  BY <1>1, <1>3 DEF Busy
<1>5. CASE found = << >>
  <2>1. job' = [job EXCEPT ![c] = Idle] /\ UNCHANGED <<ring, lru>>
    BY <1>1, <1>5 DEF StoreFinding
  <2>2. JobInv(c, Idle)'
    BY DEF JobInv, Idle
  <2> QED
    BY <1>2, <2>1, <2>2, StoreKept, TurnKeeps
<1>6. CASE found # << >>
  <2>1. AddFinding(Head(found)) /\ job' = [job EXCEPT ![c].found = Tail(@)]
    BY <1>1, <1>6 DEF StoreFinding
  <2>2. Head(found) \in Found /\ Tail(found) \in Seq(Found)
    BY <1>4, <1>6
  <2>3. PICK k : k = [j EXCEPT !.found = Tail(found)]
    OBVIOUS
  <2>4. job' = [job EXCEPT ![c] = k]
    BY <1>1, <2>1, <2>3
  <2>5. k \in Busy /\ k.stage = "evaluate"
    BY <1>2, <1>3, <1>4, <2>2, <2>3, TurnMoved
  <2>6. JobInv(c, k)'
    BY <1>2, <2>5 DEF JobInv, Busy
  <2>7. StoreInv'
    BY <2>1, <2>2, FindingAdded
  <2> QED
    BY <1>2, <2>4, <2>6, <2>7, TurnKeeps
<1> QED
  BY <1>5, <1>6

(* For any number of callbacks, hosts, events and rules: no callback       *)
(* repeats a finding within its cooldown although the look-up and the      *)
(* record are two critical sections, a temporal finding rests on another   *)
(* event, the window loses none it promised, and the store holds no        *)
(* duplicate while its cache of keys is not full.                          *)
THEOREM FindingsHold == EvalSpec => []FindingsSound
<1>1. EvalInit => EvalInv
  BY EvalInitial
<1>2. EvalInv /\ [EvalNext]_evalVars => EvalInv'
  <2> SUFFICES ASSUME EvalInv, [EvalNext]_evalVars PROVE EvalInv'
    OBVIOUS
  <2>1. ASSUME UNCHANGED evalVars PROVE EvalInv'
    <3>1. UNCHANGED <<evTime, arrived, window, cooled, job, generated>>
      BY <2>1 DEF evalVars
    <3>2. OverridesInv'
      BY <2>1 DEF EvalInv, OverridesInv, evalVars
    <3>3. StoreInv'
      BY <2>1, StoreKept DEF EvalInv, evalVars
    <3> QED
      BY <3>1, <3>2, <3>3, ApiKeeps
  <2> QED
    BY <2>1, TimeKeeps, ClearFindingsKeeps, OverridesKeep, OnEventKeeps, EvaluateRuleKeeps,
       RecordFindingKeeps, StoreFindingKeeps DEF EvalNext
<1>3. EvalInv => FindingsSound
  BY EvalInvSound
<1> QED
  BY <1>1, <1>2, <1>3, PTL DEF EvalSpec

-----------------------------------------------------------------------------
(***************************************************************************)
(* Selection.  The loop over the artifacts, whatever their order, and the  *)
(* order of versions.                                                      *)
(***************************************************************************)
NextBest(order, cands, over, i, best) ==
    IF order[i] \in cands /\ (best = None \/ <<order[i], best>> \in over) THEN order[i] ELSE best

(* A function that satisfies the recursion of BestUpTo up to n.            *)
BestsUpTo(f, order, cands, over, n) ==
    /\ f[0] = None
    /\ \A i \in 1..n : f[i] = NextBest(order, cands, over, i, f[i - 1])

LEMMA BestExists ==
  ASSUME NEW s, NEW cands, NEW over, Len(s) \in Nat
  PROVE  \E f : BestsUpTo(f, s, cands, over, Len(s)) /\ f = [i \in 0..Len(s) |-> f[i]]
<1> DEFINE T == {n \in Nat : \E f : BestsUpTo(f, s, cands, over, n) /\ f = [i \in 0..n |-> f[i]]}
<1>1. 0 \in T
  <2>1. PICK f : f = [i \in 0..0 |-> None]
    OBVIOUS
  <2>2. BestsUpTo(f, s, cands, over, 0) /\ f = [i \in 0..0 |-> f[i]]
    BY <2>1 DEF BestsUpTo
  <2> QED
    BY <2>2
<1>2. ASSUME NEW n \in Nat, n \in T PROVE n + 1 \in T
  <2>1. PICK f : BestsUpTo(f, s, cands, over, n) /\ f = [i \in 0..n |-> f[i]]
    BY <1>2
  <2>2. PICK v : v = NextBest(s, cands, over, n + 1, f[n])
    OBVIOUS
  <2>3. PICK g : g = [i \in 0..(n + 1) |-> IF i = n + 1 THEN v ELSE f[i]]
    OBVIOUS
  <2>4. g[n + 1] = v /\ \A i \in 0..n : g[i] = f[i]
    BY <2>3
  <2>5. BestsUpTo(g, s, cands, over, n + 1)
    <3>1. g[0] = None
      BY <2>1, <2>4 DEF BestsUpTo
    <3>2. ASSUME NEW i \in 1..(n + 1)
          PROVE  g[i] = NextBest(s, cands, over, i, g[i - 1])
      <4>1. CASE i = n + 1
        <5>1. i - 1 = n /\ g[i - 1] = f[n]
          BY <4>1, <2>4
        <5> QED
          BY <4>1, <5>1, <2>2, <2>4
      <4>2. CASE i \in 1..n
        <5>1. i - 1 \in 0..n /\ g[i - 1] = f[i - 1] /\ g[i] = f[i]
          BY <4>2, <2>4
        <5> QED
          BY <4>2, <5>1, <2>1 DEF BestsUpTo
      <4> QED
        BY <4>1, <4>2
    <3> QED
      BY <3>1, <3>2 DEF BestsUpTo
  <2>6. g = [i \in 0..(n + 1) |-> g[i]]
    BY <2>3
  <2> QED
    BY <2>5, <2>6
<1>3. Len(s) \in T
  <2> HIDE DEF T
  <2> QED
    BY <1>1, <1>2, SetInduction
<1> QED
  BY <1>3

LEMMA BestUnfolds ==
  ASSUME NEW s, NEW cands, NEW over, Len(s) \in Nat
  PROVE  BestsUpTo(BestUpTo(s, cands, over), s, cands, over, Len(s))
<1>1. PICK g : BestsUpTo(g, s, cands, over, Len(s)) /\ g = [i \in 0..Len(s) |-> g[i]]
  BY BestExists
<1>2. g = [i \in 0..Len(s) |->
             IF i = 0 THEN None
             ELSE IF s[i] \in cands /\ (g[i - 1] = None \/ <<s[i], g[i - 1]>> \in over)
                  THEN s[i] ELSE g[i - 1]]
  <2>1. \A i \in 0..Len(s) : i # 0 => i \in 1..Len(s)
    OBVIOUS
  <2> QED
    BY <1>1, <2>1 DEF BestsUpTo, NextBest
<1>3. PICK f : f = BestUpTo(s, cands, over)
  OBVIOUS
<1>4. BestUpTo(s, cands, over) =
        [i \in 0..Len(s) |->
             IF i = 0 THEN None
             ELSE IF /\ s[i] \in cands
                     /\ \/ BestUpTo(s, cands, over)[i - 1] = None
                        \/ <<s[i], BestUpTo(s, cands, over)[i - 1]>> \in over
                  THEN s[i] ELSE BestUpTo(s, cands, over)[i - 1]]
  BY <1>2, Zenon DEF BestUpTo
<1>5. f = [i \in 0..Len(s) |->
             IF i = 0 THEN None
             ELSE IF s[i] \in cands /\ (f[i - 1] = None \/ <<s[i], f[i - 1]>> \in over)
                  THEN s[i] ELSE f[i - 1]]
  BY <1>3, <1>4, Zenon
<1>6. BestsUpTo(f, s, cands, over, Len(s))
  <2>1. 0 \in 0..Len(s) /\ f[0] = None
    BY <1>5
  <2>2. ASSUME NEW i \in 1..Len(s)
        PROVE  f[i] = NextBest(s, cands, over, i, f[i - 1])
    <3>1. i \in 0..Len(s) /\ i # 0
      OBVIOUS
    <3> QED
      BY <3>1, <1>5 DEF NextBest
  <2> QED
    BY <2>1, <2>2 DEF BestsUpTo
<1> QED
  BY <1>3, <1>6

(* The loop ends with a candidate if there is one.                         *)
LEMMA BestIsCandidate ==
  ASSUME NEW S, None \notin S, NEW s \in Seq(S), NEW cands, NEW over
  PROVE  LET b == BestOf(s, cands, over)
         IN  /\ b # None => b \in cands /\ b \in S
             /\ b = None => \A i \in 1..Len(s) : s[i] \notin cands
<1>1. PICK f, len : f = BestUpTo(s, cands, over) /\ len = Len(s)
  OBVIOUS
<1>2. len \in Nat /\ BestsUpTo(f, s, cands, over, len) /\ \A i \in 1..len : s[i] \in S
  BY <1>1, BestUnfolds
<1> DEFINE Good(n) == /\ f[n] # None => f[n] \in cands /\ f[n] \in S
                      /\ f[n] = None => \A i \in 1..n : s[i] \notin cands
           T == {n \in Nat : n <= len => Good(n)}
<1>3. 0 \in T
  BY <1>2 DEF BestsUpTo
<1>4. ASSUME NEW n \in Nat, n \in T PROVE n + 1 \in T
  <2> SUFFICES ASSUME n + 1 <= len PROVE Good(n + 1)
    OBVIOUS
  <2>1. Good(n) /\ n + 1 \in 1..len
    BY <1>2, <1>4
  <2>2. f[n + 1] = NextBest(s, cands, over, n + 1, f[n])
    <3>1. (n + 1) - 1 = n
      OBVIOUS
    <3> QED
      BY <2>1, <1>2, <3>1 DEF BestsUpTo
  <2>3. PICK a, b, e : a = f[n] /\ b = f[n + 1] /\ e = s[n + 1]
    OBVIOUS
  <2>4. e \in S /\ e # None
    BY <1>2, <2>1, <2>3
  <2>5. b = IF e \in cands /\ (a = None \/ <<e, a>> \in over) THEN e ELSE a
    BY <2>2, <2>3 DEF NextBest
  <2>6. /\ a # None => a \in cands /\ a \in S
        /\ a = None => \A i \in 1..n : s[i] \notin cands
    BY <2>1, <2>3
  <2>7. b # None => b \in cands /\ b \in S
    BY <2>4, <2>5, <2>6
  <2>8. b = None => \A i \in 1..(n + 1) : s[i] \notin cands
    <3>1. \A i \in 1..(n + 1) : i \in 1..n \/ i = n + 1
      OBVIOUS
    <3> QED
      BY <2>3, <2>4, <2>5, <2>6, <3>1
  <2> QED
    BY <2>3, <2>7, <2>8
<1>5. len \in T
  <2> HIDE DEF T
  <2> QED
    BY <1>2, <1>3, <1>4, SetInduction
<1>6. Good(len)
  BY <1>2, <1>5
<1>7. BestOf(s, cands, over) = f[len]
  BY <1>1 DEF BestOf
<1> QED
  BY <1>1, <1>6, <1>7

(* A relation that orders the candidates strictly.                         *)
Strict(cands, over) ==
    /\ \A a \in cands : <<a, a>> \notin over
    /\ \A a, b, c \in cands : <<a, b>> \in over /\ <<b, c>> \in over => <<a, c>> \in over

(* If "over" is a strict order of them, no candidate is over the result.   *)
LEMMA BestIsUnbeaten ==
  ASSUME NEW S, None \notin S, NEW s \in Seq(S), NEW cands, NEW over, Strict(cands, over)
  PROVE  LET b == BestOf(s, cands, over)
         IN  b # None => \A i \in 1..Len(s) : s[i] \in cands => <<s[i], b>> \notin over
<1>1. PICK f, len : f = BestUpTo(s, cands, over) /\ len = Len(s)
  OBVIOUS
<1>2. len \in Nat /\ BestsUpTo(f, s, cands, over, len) /\ \A i \in 1..len : s[i] \in S
  BY <1>1, BestUnfolds
<1> DEFINE Good(n) == /\ f[n] # None => f[n] \in cands
                      /\ f[n] = None => \A i \in 1..n : s[i] \notin cands
                      /\ f[n] # None => \A i \in 1..n : s[i] \in cands => <<s[i], f[n]>> \notin over
           T == {n \in Nat : n <= len => Good(n)}
<1>3. 0 \in T
  BY <1>2 DEF BestsUpTo
<1>4. ASSUME NEW n \in Nat, n \in T PROVE n + 1 \in T
  <2> SUFFICES ASSUME n + 1 <= len PROVE Good(n + 1)
    OBVIOUS
  <2>1. Good(n) /\ n + 1 \in 1..len
    BY <1>2, <1>4
  <2>2. f[n + 1] = NextBest(s, cands, over, n + 1, f[n])
    <3>1. (n + 1) - 1 = n
      OBVIOUS
    <3> QED
      BY <2>1, <1>2, <3>1 DEF BestsUpTo
  <2>3. PICK a, b, e : a = f[n] /\ b = f[n + 1] /\ e = s[n + 1]
    OBVIOUS
  <2>4. e # None
    BY <1>2, <2>1, <2>3
  <2>5. b = IF e \in cands /\ (a = None \/ <<e, a>> \in over) THEN e ELSE a
    BY <2>2, <2>3 DEF NextBest
  <2>6. /\ a # None => a \in cands
        /\ a = None => \A i \in 1..n : s[i] \notin cands
        /\ a # None => \A i \in 1..n : s[i] \in cands => <<s[i], a>> \notin over
    BY <2>1, <2>3
  <2>7. \A i \in 1..(n + 1) : i \in 1..n \/ i = n + 1
    OBVIOUS
  <2>8. b # None => b \in cands
    BY <2>4, <2>5, <2>6
  <2>9. b = None => \A i \in 1..(n + 1) : s[i] \notin cands
    BY <2>3, <2>4, <2>5, <2>6, <2>7
  <2>10. ASSUME b # None, NEW i \in 1..(n + 1), s[i] \in cands PROVE <<s[i], b>> \notin over
    <3>1. CASE i = n + 1
      <4>1. s[i] = e /\ e \in cands
        BY <2>3, <2>10, <3>1
      <4> QED
        BY <2>5, <4>1 DEF Strict
    <3>2. CASE i \in 1..n
      <4>1. PICK x : x = s[i]
        OBVIOUS
      <4>2. x \in cands /\ a # None /\ a \in cands /\ <<x, a>> \notin over
        BY <2>6, <2>10, <3>2, <4>1
      <4>3. b = a \/ (b = e /\ e \in cands /\ <<e, a>> \in over)
        BY <2>5, <4>2
      <4> QED
        BY <4>1, <4>2, <4>3 DEF Strict
    <3> QED
      BY <2>7, <3>1, <3>2
  <2> QED
    BY <2>3, <2>8, <2>9, <2>10
<1>5. len \in T
  <2> HIDE DEF T
  <2> QED
    BY <1>2, <1>3, <1>4, SetInduction
<1>6. Good(len)
  BY <1>2, <1>5
<1>7. BestOf(s, cands, over) = f[len]
  BY <1>1 DEF BestOf
<1> QED
  BY <1>1, <1>6, <1>7

LEMMA VersionOrder ==
  ASSUME NEW a \in Cores, NEW b \in Cores, NEW c \in Cores
  PROVE  /\ ~SemverGT(a, a)
         /\ SemverGT(a, b) /\ SemverGT(b, c) => SemverGT(a, c)
         /\ a = b \/ SemverGT(a, b) \/ SemverGT(b, a)
<1>1. a \in Nat \X Nat \X Nat /\ b \in Nat \X Nat \X Nat /\ c \in Nat \X Nat \X Nat
  BY ControllerBounds
<1>2. /\ a[1] \in Nat /\ a[2] \in Nat /\ a[3] \in Nat /\ b[1] \in Nat /\ b[2] \in Nat
      /\ b[3] \in Nat /\ c[1] \in Nat /\ c[2] \in Nat /\ c[3] \in Nat
  BY <1>1
<1>3. (a[1] = b[1] /\ a[2] = b[2] /\ a[3] = b[3]) => a = b
  BY <1>1
<1>4. ~SemverGT(a, a)
  BY <1>2 DEF SemverGT
<1>5. SemverGT(a, b) /\ SemverGT(b, c) => SemverGT(a, c)
  BY <1>2 DEF SemverGT
<1>6. a = b \/ SemverGT(a, b) \/ SemverGT(b, a)
  BY <1>2, <1>3 DEF SemverGT
<1> QED
  BY <1>4, <1>5, <1>6

LEMMA NewerOrder ==
  ASSUME NEW a \in Artifact, NEW b \in Artifact, NEW c \in Artifact
  PROVE  ~Newer(a, a) /\ (Newer(a, b) /\ Newer(b, c) => Newer(a, c))
<1>1. /\ a.core \in Cores /\ b.core \in Cores /\ c.core \in Cores
      /\ a.created \in Nat /\ b.created \in Nat /\ c.created \in Nat
  BY DEF Artifact
<1>2. ~SemverGT(a.core, a.core) /\ (SemverGT(a.core, b.core) /\ SemverGT(b.core, c.core) => SemverGT(a.core, c.core))
  BY <1>1, VersionOrder
<1> QED
  BY <1>1, <1>2 DEF Newer, SameVersion

(* Two artifacts of which neither is newer are the same or tie.            *)
LEMMA NewestAlone ==
  ASSUME NEW a \in Artifact, NEW b \in Artifact, ~Newer(a, b), ~Newer(b, a),
         a # b => a.core # b.core \/ (SameVersion(a, b) /\ a.created # b.created)
  PROVE  a = b
<1>1. a.core \in Cores /\ b.core \in Cores /\ a.created \in Nat /\ b.created \in Nat
  BY DEF Artifact
<1>2. a.core = b.core \/ SemverGT(a.core, b.core) \/ SemverGT(b.core, a.core)
  BY <1>1, VersionOrder
<1> QED
  BY <1>1, <1>2 DEF Newer, SameVersion

(* The invariant: what is known of the answer while its query stands.      *)
AnswerInv ==
    /\ answer = None => (query # None => Offered = {})
    /\ answer # None => /\ query # None /\ answer \in Offered
                        /\ OfOnePack => \A a \in Offered : ~Newer(a, answer)

SelectInv ==
    /\ TypeOK /\ IsFiniteSet(arts) /\ \A a \in arts : a.id <= Cardinality(arts)
    /\ AnswerInv /\ (reply # NoReply => answer # None) /\ DownloadMatchesLatest

LEMMA SelectInvSound == SelectInv => SelectionSound
<1> SUFFICES ASSUME SelectInv PROVE SelectionSound
  OBVIOUS
<1> USE DEF SelectInv
<1>1. LatestIsEligible
  BY DEF LatestIsEligible, AnswerInv, Offered, Eligible, Compatible
<1>2. AnswerIsNewest
  <2> SUFFICES ASSUME query # None, OfOnePack, answer # None, NEW a \in Offered
               PROVE  /\ ~SemverGT(a.core, answer.core)
                      /\ a.core = answer.core /\ a.tag = answer.tag => a.created <= answer.created
    BY DEF AnswerIsNewest
  <2>1. ~Newer(a, answer) /\ a \in Artifact /\ answer \in Artifact
    BY DEF AnswerInv, TypeOK, Offered
  <2>2. a.created \in Nat /\ answer.created \in Nat
    BY <2>1 DEF Artifact
  <2> QED
    BY <2>1, <2>2 DEF Newer, SameVersion
<1> QED
  BY <1>1, <1>2 DEF SelectionSound

(* What a listing of the map holds.                                        *)
LEMMA OrderLists ==
  ASSUME IsFiniteSet(arts), NEW order \in Orders
  PROVE  order \in Seq(arts) /\ \A a \in arts : \E i \in 1..Len(order) : order[i] = a
<1>1. PICK n : n = Cardinality(arts)
  OBVIOUS
<1>2. n \in Nat
  BY <1>1, FS_CardinalityType
<1>3. order \in [1..n -> arts] /\ arts \subseteq {order[i] : i \in 1..n}
  BY <1>1 DEF Orders
<1>4. order \in Seq(arts) /\ Len(order) = n
  BY <1>2, <1>3
<1> QED
  BY <1>3, <1>4

LEMMA LatestChosen ==
  ASSUME SelectInv, NEW order \in Orders, NEW agent, NEW filter, NEW b,
         b = SelectLatestCompatible(order, agent, filter)
  PROVE  /\ b = None => EligibleFor(agent, filter) = {}
         /\ b # None => /\ b \in EligibleFor(agent, filter)
                        /\ (\A x, y \in EligibleFor(agent, filter) : x.pack = y.pack)
                              => \A a \in EligibleFor(agent, filter) : ~Newer(a, b)
<1>1. PICK E, R : E = EligibleFor(agent, filter) /\ R = {p \in arts \X arts : Better(p[1], p[2])}
  OBVIOUS
<1>2. b = BestOf(order, E, R) /\ E \subseteq arts
  BY <1>1 DEF SelectLatestCompatible, EligibleFor
<1>3. order \in Seq(arts) /\ \A a \in arts : \E i \in 1..Len(order) : order[i] = a
  BY OrderLists DEF SelectInv
<1>4. None \notin arts /\ arts \subseteq Artifact
  BY NoneAssumption DEF SelectInv, TypeOK
<1>5. b # None => b \in E
  BY <1>2, <1>3, <1>4, BestIsCandidate
<1>6. b = None => E = {}
  <2>1. b = None => \A i \in 1..Len(order) : order[i] \notin E
    BY <1>2, <1>3, <1>4, BestIsCandidate
  <2> QED
    BY <1>2, <1>3, <2>1
<1>7. ASSUME \A x, y \in E : x.pack = y.pack, b # None PROVE \A a \in E : ~Newer(a, b)
  <2>1. \A a \in E : a \in arts
    BY <1>2
  <2>2. \A x, y \in E : <<x, y>> \in R <=> Newer(x, y)
    BY <1>1, <1>7, <2>1 DEF Better
  <2>3. \A x, y, z \in E : ~Newer(x, x) /\ (Newer(x, y) /\ Newer(y, z) => Newer(x, z))
    BY <1>4, <2>1, NewerOrder
  <2>4. Strict(E, R)
    BY <2>2, <2>3 DEF Strict
  <2>5. \A i \in 1..Len(order) : order[i] \in E => <<order[i], b>> \notin R
    BY <1>2, <1>3, <1>4, <1>7, <2>4, BestIsUnbeaten
  <2>6. ASSUME NEW a \in E PROVE ~Newer(a, b)
    <3>1. PICK i \in 1..Len(order) : order[i] = a
      BY <1>2, <1>3
    <3>2. <<a, b>> \notin R
      BY <2>5, <3>1
    <3> QED
      BY <1>5, <1>7, <2>2, <3>2
  <2> QED
    BY <2>6
<1> QED
  BY <1>1, <1>5, <1>6, <1>7

LEMMA ArtifactChosen ==
  ASSUME SelectInv, NEW order \in Orders, NEW pack, NEW b, b = FindArtifactByPack(order, pack)
  PROVE  /\ b = None => OfPack(pack) = {}
         /\ b # None => b \in OfPack(pack) /\ \A a \in OfPack(pack) : ~Newer(a, b)
<1>1. PICK E, R : E = OfPack(pack) /\ R = {p \in arts \X arts : Newer(p[1], p[2])}
  OBVIOUS
<1>2. b = BestOf(order, E, R) /\ E \subseteq arts
  BY <1>1 DEF FindArtifactByPack, OfPack
<1>3. order \in Seq(arts) /\ \A a \in arts : \E i \in 1..Len(order) : order[i] = a
  BY OrderLists DEF SelectInv
<1>4. None \notin arts /\ arts \subseteq Artifact
  BY NoneAssumption DEF SelectInv, TypeOK
<1>5. b # None => b \in E
  BY <1>2, <1>3, <1>4, BestIsCandidate
<1>6. b = None => E = {}
  <2>1. b = None => \A i \in 1..Len(order) : order[i] \notin E
    BY <1>2, <1>3, <1>4, BestIsCandidate
  <2> QED
    BY <1>2, <1>3, <2>1
<1>7. ASSUME b # None PROVE \A a \in E : ~Newer(a, b)
  <2>1. \A x, y \in E : <<x, y>> \in R <=> Newer(x, y)
    BY <1>1, <1>2
  <2>2. \A x, y, z \in E : ~Newer(x, x) /\ (Newer(x, y) /\ Newer(y, z) => Newer(x, z))
    BY <1>2, <1>4, NewerOrder
  <2>3. Strict(E, R)
    BY <2>1, <2>2 DEF Strict
  <2>4. \A i \in 1..Len(order) : order[i] \in E => <<order[i], b>> \notin R
    BY <1>2, <1>3, <1>4, <1>7, <2>3, BestIsUnbeaten
  <2>5. ASSUME NEW a \in E PROVE ~Newer(a, b)
    <3>1. PICK i \in 1..Len(order) : order[i] = a
      BY <1>2, <1>3
    <3>2. <<a, b>> \notin R
      BY <2>4, <3>1
    <3> QED
      BY <1>5, <1>7, <2>1, <3>2
  <2> QED
    BY <2>5
<1> QED
  BY <1>1, <1>5, <1>6, <1>7

LEMMA SelectInitial == Init => SelectInv
<1> SUFFICES ASSUME Init PROVE SelectInv
  OBVIOUS
<1>1. NoReply \in Reply /\ NoReply.status # 200
  BY DEF NoReply, Reply
<1> QED
  BY <1>1, FS_EmptySet DEF Init, SelectInv, TypeOK, AnswerInv, DownloadMatchesLatest

LEMMA SignKeeps ==
  ASSUME SelectInv, NEW p \in PackIds, NEW core \in Cores, NEW tag \in Tags,
         NEW min \in MinVersions, NEW oses \in OSSets, Sign(p, core, tag, min, oses)
  PROVE  SelectInv'
<1>1. PICK n, t : n = Cardinality(arts) /\ t = now'
  OBVIOUS
<1>2. PICK e : e = [id |-> n + 1, pack |-> p, core |-> core, tag |-> tag, min |-> min,
                    oses |-> oses, created |-> t]
  OBVIOUS
<1>3. /\ n < MaxArts /\ t \in {now, now + 1} /\ arts' = arts \cup {e}
      /\ UNCHANGED <<query, listed, answer, reply>>
  BY <1>1, <1>2 DEF Sign
<1>4. /\ n \in Nat /\ MaxArts \in Nat /\ now \in Nat /\ IsFiniteSet(arts)
      /\ \A a \in arts : a \in Artifact /\ a.id <= n /\ a.created <= now
      /\ \A a, b \in arts : a.id = b.id => a = b
  BY <1>1, ControllerBounds, FS_CardinalityType DEF SelectInv, TypeOK
<1>5. t \in Nat /\ now <= t
  BY <1>3, <1>4
<1>6. e \in Artifact /\ e.id = n + 1 /\ e.created = t
  BY <1>2, <1>3, <1>4, <1>5 DEF Artifact
<1>7. \A a \in arts : a.id \in Nat /\ a.created \in Nat
  BY <1>4 DEF Artifact
<1>8. e \notin arts
  BY <1>4, <1>6, <1>7
<1>9. IsFiniteSet(arts') /\ Cardinality(arts') = n + 1
  BY <1>1, <1>3, <1>4, <1>8, FS_AddElement
<1>10. \A a \in arts' : a \in Artifact /\ a.id <= n + 1 /\ a.created <= t
  BY <1>3, <1>4, <1>5, <1>6, <1>7
<1>11. \A a, b \in arts' : a.id = b.id => a = b
  BY <1>3, <1>4, <1>6, <1>7
<1>12. TypeOK'
  BY <1>1, <1>3, <1>5, <1>10, <1>11 DEF SelectInv, TypeOK
<1>13. NoReply' = NoReply /\ Offered' = Offered /\ OfOnePack' = OfOnePack
  BY <1>3 DEF NoReply, Offered, OfOnePack, Eligible, AllowPack, Compatible
<1>14. AnswerInv'
  BY <1>3, <1>13 DEF SelectInv, AnswerInv, Newer, SameVersion, SemverGT
<1>15. DownloadMatchesLatest'
  <2> SUFFICES ASSUME reply # NoReply, OfOnePack, Distinct(answer.pack)',
                      \A a \in arts' : a.pack = answer.pack => Eligible(a, query.agent, query.filter)
               PROVE  /\ reply.status = 200
                      /\ reply.body = answer \/ (reply.body \notin listed /\ Newer(reply.body, answer))
    BY <1>3, <1>13 DEF DownloadMatchesLatest, Eligible, AllowPack, Compatible, Newer, SameVersion, SemverGT
  <2>1. Distinct(answer.pack)
    BY <1>3 DEF Distinct, SameVersion
  <2>2. \A a \in arts : a.pack = answer.pack => Eligible(a, query.agent, query.filter)
    BY <1>3
  <2> QED
    BY <2>1, <2>2 DEF SelectInv, DownloadMatchesLatest
<1> QED
  BY <1>3, <1>9, <1>10, <1>12, <1>14, <1>15 DEF SelectInv

LEMMA GetLatestKeeps ==
  ASSUME SelectInv, NEW agent \in Agents, NEW filter \in PackIds \cup {None}, NEW order \in Orders,
         GetLatest(agent, filter, order)
  PROVE  SelectInv'
<1>1. PICK q, b : q = [agent |-> agent, filter |-> filter]
               /\ b = SelectLatestCompatible(order, agent, filter)
  OBVIOUS
<1>2. query' = q /\ listed' = arts /\ answer' = b /\ reply' = NoReply /\ UNCHANGED <<arts, now>>
  BY <1>1 DEF GetLatest
<1>3. q \in Query /\ q # None /\ q.agent = agent /\ q.filter = filter
  BY <1>1, NoneAssumption DEF Query
<1>4. NoReply \in Reply /\ NoReply.status # 200
  BY DEF NoReply, Reply
<1>5. PICK E : E = EligibleFor(agent, filter)
  OBVIOUS
<1>6. /\ b = None => E = {}
      /\ b # None => b \in E /\ ((\A x, y \in E : x.pack = y.pack) => \A a \in E : ~Newer(a, b))
  BY <1>1, <1>5, LatestChosen
<1>7. Offered' = E /\ E \subseteq arts
  BY <1>2, <1>3, <1>5 DEF Offered, EligibleFor, Eligible, AllowPack, Compatible
<1>8. TypeOK'
  BY <1>2, <1>3, <1>4, <1>6, <1>7 DEF SelectInv, TypeOK
<1>9. AnswerInv'
  <2>1. filter # None => \A x \in E : x.pack = filter
    BY <1>5 DEF EligibleFor, Eligible
  <2>2. OfOnePack' => \A x, y \in E : x.pack = y.pack
    BY <1>2, <1>3, <1>7, <2>1 DEF OfOnePack
  <2> QED
    BY <1>2, <1>3, <1>6, <1>7, <2>2 DEF AnswerInv, Newer, SameVersion, SemverGT
<1>10. reply' = NoReply /\ NoReply' = NoReply
  BY <1>2 DEF NoReply
<1> QED
  BY <1>2, <1>8, <1>9, <1>10 DEF SelectInv, DownloadMatchesLatest

LEMMA GetArtifactKeeps ==
  ASSUME SelectInv, NEW order \in Orders, GetArtifact(order)
  PROVE  SelectInv'
<1>1. PICK b : b = FindArtifactByPack(order, answer.pack)
  OBVIOUS
<1>2. answer # None /\ reply = NoReply /\ UNCHANGED <<arts, now, query, listed, answer>>
  BY DEF GetArtifact
<1>3. /\ b = None => OfPack(answer.pack) = {}
      /\ b # None => b \in OfPack(answer.pack) /\ \A a \in OfPack(answer.pack) : ~Newer(a, b)
  BY <1>1, ArtifactChosen
<1>4. answer \in Offered /\ answer \in listed /\ answer \in arts
  BY <1>2 DEF SelectInv, TypeOK, AnswerInv, Offered
<1>5. answer \in OfPack(answer.pack)
  BY <1>4 DEF OfPack
<1>6. b # None /\ b \in arts /\ b.pack = answer.pack /\ ~Newer(answer, b)
  BY <1>3, <1>5 DEF OfPack
<1>7. \/ ~AllowPack(b.pack) /\ reply' = [status |-> 403, body |-> None]
      \/ AllowPack(b.pack) /\ ~Compatible(b, query.agent) /\ reply' = [status |-> 406, body |-> None]
      \/ /\ AllowPack(b.pack) /\ Compatible(b, query.agent)
         /\ reply' = [status |-> 200, body |-> b]
  BY <1>1, <1>6 DEF GetArtifact
<1>8. reply' \in Reply /\ (reply'.status = 200 => reply'.body \in arts)
  <2>1. b \in Artifact
    BY <1>6 DEF SelectInv, TypeOK
  <2> QED
    BY <1>6, <1>7, <2>1 DEF Reply
<1>9. TypeOK'
  BY <1>2, <1>8 DEF SelectInv, TypeOK
<1>10. Offered' = Offered /\ OfOnePack' = OfOnePack
  BY <1>2 DEF Offered, OfOnePack, Eligible, AllowPack, Compatible
<1>11. AnswerInv'
  BY <1>2, <1>10 DEF SelectInv, AnswerInv, Newer, SameVersion, SemverGT
<1>12. DownloadMatchesLatest'
  <2> SUFFICES ASSUME OfOnePack, Distinct(answer.pack),
                      \A a \in arts : a.pack = answer.pack => Eligible(a, query.agent, query.filter)
               PROVE  /\ reply'.status = 200
                      /\ \/ reply'.body = answer
                         \/ reply'.body \notin listed /\ Newer(reply'.body, answer)
    BY <1>2, <1>10 DEF DownloadMatchesLatest, Distinct, SameVersion, Eligible, AllowPack, Compatible,
                       Newer, SemverGT
  <2>1. Eligible(b, query.agent, query.filter)
    BY <1>6
  <2>2. b \in listed => ~Newer(b, answer)
    BY <1>2, <2>1 DEF SelectInv, AnswerInv, Offered
  <2>3. b \in Artifact /\ answer \in Artifact
    BY <1>4, <1>6 DEF SelectInv, TypeOK
  <2>4. b # answer => b.core # answer.core \/ (SameVersion(b, answer) /\ b.created # answer.created)
    BY <1>4, <1>6 DEF Distinct
  <2>5. b = answer \/ (b \notin listed /\ Newer(b, answer))
    BY <1>6, <2>2, <2>3, <2>4, NewestAlone
  <2>6. reply' = [status |-> 200, body |-> b]
    BY <1>7, <2>1 DEF Eligible
  <2> QED
    BY <2>5, <2>6
<1> QED
  BY <1>2, <1>9, <1>11, <1>12 DEF SelectInv

(* Whatever orders the map of artifacts comes in, for any artifacts and    *)
(* any agents: GET latest answers with an eligible artifact if there is    *)
(* one, the newest among those of one pack id, and the download that       *)
(* follows is that artifact or a newer one signed since.                   *)
THEOREM SelectionHolds == Spec => []SelectionSound
<1>1. Init => SelectInv
  BY SelectInitial
<1>2. SelectInv /\ [Next]_vars => SelectInv'
  <2> SUFFICES ASSUME SelectInv, [Next]_vars PROVE SelectInv'
    OBVIOUS
  <2>1. ASSUME UNCHANGED vars PROVE SelectInv'
    BY <2>1 DEF vars, SelectInv, TypeOK, AnswerInv, DownloadMatchesLatest, Offered, OfOnePack,
                Eligible, AllowPack, Compatible, Newer, SameVersion, SemverGT, Distinct, NoReply
  <2> QED
    BY <2>1, SignKeeps, GetLatestKeeps, GetArtifactKeeps DEF Next
<1>3. SelectInv => SelectionSound
  BY SelectInvSound
<1> QED
  BY <1>1, <1>2, <1>3, PTL DEF Spec

-----------------------------------------------------------------------------
(***************************************************************************)
(* The rules of the correlator.  First what a load computes: the recursion *)
(* of LoadedUpTo, and, file after file, the rules it has by then.          *)
(***************************************************************************)
OverridesUpTo(step, dir, n) ==
    /\ step[0] = << >>
    /\ \A f \in 1..n : step[f] = Overridden(step[f - 1], dir[f])

LEMMA LoadExists ==
  ASSUME NEW dir, NEW m \in Nat
  PROVE  \E step : OverridesUpTo(step, dir, m) /\ step = [f \in 0..m |-> step[f]]
<1> DEFINE T == {n \in Nat : \E step : OverridesUpTo(step, dir, n) /\ step = [f \in 0..n |-> step[f]]}
<1>1. 0 \in T
  <2>1. PICK step : step = [f \in 0..0 |-> << >>]
    OBVIOUS
  <2>2. OverridesUpTo(step, dir, 0) /\ step = [f \in 0..0 |-> step[f]]
    BY <2>1 DEF OverridesUpTo
  <2> QED
    BY <2>2
<1>2. ASSUME NEW n \in Nat, n \in T PROVE n + 1 \in T
  <2>1. PICK step : OverridesUpTo(step, dir, n) /\ step = [f \in 0..n |-> step[f]]
    BY <1>2
  <2>2. PICK v : v = Overridden(step[n], dir[n + 1])
    OBVIOUS
  <2>3. PICK g : g = [f \in 0..(n + 1) |-> IF f = n + 1 THEN v ELSE step[f]]
    OBVIOUS
  <2>4. g[n + 1] = v /\ \A f \in 0..n : g[f] = step[f]
    BY <2>3
  <2>5. OverridesUpTo(g, dir, n + 1)
    <3>1. g[0] = << >>
      BY <2>1, <2>4 DEF OverridesUpTo
    <3>2. ASSUME NEW f \in 1..(n + 1) PROVE g[f] = Overridden(g[f - 1], dir[f])
      <4>1. CASE f = n + 1
        <5>1. f - 1 = n /\ g[f - 1] = step[n]
          BY <4>1, <2>4
        <5> QED
          BY <4>1, <5>1, <2>2, <2>4
      <4>2. CASE f \in 1..n
        <5>1. f - 1 \in 0..n /\ g[f - 1] = step[f - 1] /\ g[f] = step[f]
          BY <4>2, <2>4
        <5> QED
          BY <4>2, <5>1, <2>1 DEF OverridesUpTo
      <4> QED
        BY <4>1, <4>2
    <3> QED
      BY <3>1, <3>2 DEF OverridesUpTo
  <2>6. g = [f \in 0..(n + 1) |-> g[f]]
    BY <2>3
  <2> QED
    BY <2>5, <2>6
<1>3. m \in T
  <2> HIDE DEF T
  <2> QED
    BY <1>1, <1>2, SetInduction
<1> QED
  BY <1>3

LEMMA LoadUnfolds ==
  ASSUME NEW dir
  PROVE  OverridesUpTo(LoadedUpTo(dir), dir, RuleFiles)
<1>1. PICK g : OverridesUpTo(g, dir, RuleFiles) /\ g = [f \in 0..RuleFiles |-> g[f]]
  BY LoadExists, RulesAssumption
<1>2. g = [f \in 0..RuleFiles |-> IF f = 0 THEN << >> ELSE Overridden(g[f - 1], dir[f])]
  <2>1. \A f \in 0..RuleFiles : f # 0 => f \in 1..RuleFiles
    BY RulesAssumption
  <2> QED
    BY <1>1, <2>1 DEF OverridesUpTo
<1>3. LoadedUpTo(dir) =
        [f \in 0..RuleFiles |-> IF f = 0 THEN << >>
                                ELSE Overridden(LoadedUpTo(dir)[f - 1], dir[f])]
  BY <1>2, Zenon DEF LoadedUpTo
<1>4. PICK step : step = LoadedUpTo(dir)
  OBVIOUS
<1>5. step = [f \in 0..RuleFiles |-> IF f = 0 THEN << >> ELSE Overridden(step[f - 1], dir[f])]
  BY <1>3, <1>4, Zenon
<1>6. OverridesUpTo(step, dir, RuleFiles)
  <2>1. 0 \in 0..RuleFiles /\ step[0] = << >>
    BY <1>5, RulesAssumption
  <2>2. ASSUME NEW f \in 1..RuleFiles PROVE step[f] = Overridden(step[f - 1], dir[f])
    <3>1. f \in 0..RuleFiles /\ f # 0
      BY RulesAssumption
    <3> QED
      BY <3>1, <1>5
  <2> QED
    BY <2>1, <2>2 DEF OverridesUpTo
<1> QED
  BY <1>4, <1>6

(* The rules that files 1..n give: of each ID in them, what the last file  *)
(* says.                                                                   *)
LastWins(rules, dir, n) ==
    /\ DOMAIN rules = {dir[f].id : f \in {g \in 1..n : Loadable(dir[g])}}
    /\ \A f \in 1..n :
          /\ Loadable(dir[f])
          /\ \A g \in 1..n : Loadable(dir[g]) /\ g > f => dir[g].id # dir[f].id
          => rules[dir[f].id] = dir[f].sev

LEMMA OneMoreFile ==
  ASSUME NEW rules, NEW dir, NEW n \in Nat, LastWins(rules, dir, n)
  PROVE  LastWins(Overridden(rules, dir[n + 1]), dir, n + 1)
<1>1. PICK d, after : d = dir[n + 1] /\ after = Overridden(rules, d)
  OBVIOUS
<1>2. 1..(n + 1) = 1..n \union {n + 1} /\ n + 1 \notin 1..n
  OBVIOUS
<1>3. CASE ~Loadable(d)
  <2>1. after = rules
    BY <1>1, <1>3 DEF Overridden
  <2>2. {g \in 1..(n + 1) : Loadable(dir[g])} = {g \in 1..n : Loadable(dir[g])}
    BY <1>1, <1>2, <1>3
  <2>3. DOMAIN after = {dir[f].id : f \in {g \in 1..(n + 1) : Loadable(dir[g])}}
    BY <2>1, <2>2 DEF LastWins
  <2>4. \A f \in 1..(n + 1) : Loadable(dir[f]) => f \in 1..n
    BY <1>1, <1>2, <1>3
  <2> QED
    BY <1>1, <1>2, <2>1, <2>3, <2>4 DEF LastWins
<1>4. CASE Loadable(d)
  <2>1. after = [id \in DOMAIN rules \union {d.id} |-> IF id = d.id THEN d.sev ELSE rules[id]]
    BY <1>1, <1>4 DEF Overridden
  <2>2. {g \in 1..(n + 1) : Loadable(dir[g])} = {g \in 1..n : Loadable(dir[g])} \union {n + 1}
    BY <1>1, <1>2, <1>4
  <2>3. DOMAIN after = {dir[f].id : f \in {g \in 1..(n + 1) : Loadable(dir[g])}}
    <3>1. DOMAIN after = DOMAIN rules \union {d.id}
      BY <2>1
    <3> QED
      BY <1>1, <2>2, <3>1 DEF LastWins
  <2>4. ASSUME NEW f \in 1..(n + 1), Loadable(dir[f]),
               \A g \in 1..(n + 1) : Loadable(dir[g]) /\ g > f => dir[g].id # dir[f].id
        PROVE  after[dir[f].id] = dir[f].sev
    <3>1. CASE f = n + 1
      BY <1>1, <2>1, <3>1
    <3>2. CASE f \in 1..n
      <4>1. dir[f].id # d.id
        <5>1. n + 1 > f /\ n + 1 \in 1..(n + 1)
          BY <3>2
        <5> QED
          BY <1>1, <1>4, <2>4, <5>1
      <4>2. rules[dir[f].id] = dir[f].sev /\ dir[f].id \in DOMAIN rules
        BY <1>2, <2>4, <3>2 DEF LastWins
      <4> QED
        BY <2>1, <4>1, <4>2
    <3> QED
      BY <1>2, <3>1, <3>2
  <2> QED
    BY <1>1, <2>3, <2>4 DEF LastWins
<1> QED
  BY <1>3, <1>4

LEMMA LoadedLastWins == ASSUME NEW dir PROVE LastWins(Loaded(dir), dir, RuleFiles)
<1>1. PICK step : step = LoadedUpTo(dir)
  OBVIOUS
<1>2. OverridesUpTo(step, dir, RuleFiles) /\ RuleFiles \in Nat
  BY <1>1, LoadUnfolds, RulesAssumption
<1> DEFINE T == {n \in Nat : n <= RuleFiles => LastWins(step[n], dir, n)}
<1>3. 0 \in T
  <2>1. step[0] = << >> /\ 1..0 = {}
    BY <1>2 DEF OverridesUpTo
  <2>2. DOMAIN << >> = {}
    OBVIOUS
  <2> QED
    BY <2>1, <2>2 DEF LastWins
<1>4. ASSUME NEW n \in Nat, n \in T PROVE n + 1 \in T
  <2> SUFFICES ASSUME n + 1 <= RuleFiles PROVE LastWins(step[n + 1], dir, n + 1)
    OBVIOUS
  <2>1. LastWins(step[n], dir, n) /\ n + 1 \in 1..RuleFiles /\ (n + 1) - 1 = n
    BY <1>2, <1>4
  <2>2. step[n + 1] = Overridden(step[n], dir[n + 1])
    BY <1>2, <2>1 DEF OverridesUpTo
  <2> QED
    BY <2>1, <2>2, OneMoreFile
<1>5. RuleFiles \in T
  <2> HIDE DEF T
  <2> QED
    BY <1>2, <1>3, <1>4, SetInduction
<1> QED
  BY <1>1, <1>2, <1>5 DEF Loaded

(* Among finitely many times there is a latest.                            *)
LEMMA LatestExists ==
  ASSUME NEW m \in Nat \ {0}, NEW time, \A f \in 1..m : time[f] \in Int
  PROVE  \E g \in 1..m : \A f \in 1..m : time[g] >= time[f]
<1> DEFINE T == {n \in Nat : n \in 1..m => \E g \in 1..n : \A f \in 1..n : time[g] >= time[f]}
<1>1. 0 \in T
  OBVIOUS
<1>2. ASSUME NEW n \in Nat, n \in T PROVE n + 1 \in T
  <2> SUFFICES ASSUME n + 1 \in 1..m
               PROVE  \E g \in 1..(n + 1) : \A f \in 1..(n + 1) : time[g] >= time[f]
    OBVIOUS
  <2>1. CASE n = 0
    BY <2>1
  <2>2. CASE n # 0
    <3>1. PICK g \in 1..n : \A f \in 1..n : time[g] >= time[f]
      BY <1>2, <2>2
    <3>2. \A f \in 1..(n + 1) : f \in 1..n \/ f = n + 1
      OBVIOUS
    <3>3. CASE time[g] >= time[n + 1]
      BY <3>1, <3>2, <3>3
    <3>4. CASE ~(time[g] >= time[n + 1])
      <4>1. \A f \in 1..(n + 1) : time[n + 1] >= time[f]
        BY <3>1, <3>2, <3>4
      <4> QED
        BY <4>1
    <3> QED
      BY <3>3, <3>4
  <2> QED
    BY <2>1, <2>2
<1>3. m \in T
  <2> HIDE DEF T
  <2> QED
    BY <1>1, <1>2, SetInduction
<1> QED
  BY <1>3

(***************************************************************************)
(* The invariant.  What was read at the time of the latest edit is what    *)
(* the files hold that it could read; and what the watcher has noticed and *)
(* the rules in force do not have yet is on its way, as a signal, as an    *)
(* armed timer or in a load that has read it, or was given up by a failing *)
(* poll or reload, as long as loads have not overlapped.                   *)
(***************************************************************************)
RulesTypeOK ==
    /\ ruleDir \in [Files -> RuleDef \union {NoRule}]
    /\ edits \in Nat
    /\ fileTime \in [Files -> 0..edits]
    /\ polled \in 0..edits
    /\ signal \in BOOLEAN /\ timer \in BOOLEAN /\ overlapped \in BOOLEAN

ReadOK(l) ==
    /\ l.at \in 0..edits
    /\ l.unread \subseteq Files
    /\ l.at = edits => l.rules = Loaded(Readable(l.unread))

OnItsWay ==
    ~overlapped =>
       /\ \A l \in loads : l.at >= snapshot.at
       /\ \A k, l \in loads : k = l
       /\ polled > snapshot.at =>
             signal \/ timer \/ givenUp = polled \/ \E l \in loads : l.at >= polled

RulesInv ==
    /\ RulesTypeOK
    /\ ReadOK(snapshot)
    /\ \A l \in loads : ReadOK(l)
    /\ OnItsWay

LEMMA ReadIsOK == ASSUME RulesTypeOK, NEW unread \in SUBSET Files PROVE ReadOK(Read(unread))
  BY DEF RulesTypeOK, ReadOK, Read

LEMMA InitRules == RulesInit => RulesInv
<1> SUFFICES ASSUME RulesInit PROVE RulesInv
  OBVIOUS
<1>1. RulesTypeOK
  <2>1. PICK sev : sev = CHOOSE s \in RuleSeverities : TRUE
    OBVIOUS
  <2>2. sev \in RuleSeverities
    BY <2>1, RulesAssumption, Zenon
  <2>3. [id : RuleIds, sev : {sev}, fit : {TRUE}] \subseteq RuleDef
    BY <2>2 DEF RuleDef
  <2>4. ruleDir \in [Files -> {NoRule} \union [id : RuleIds, sev : {sev}, fit : {TRUE}]]
    BY <2>1, Zenon DEF RulesInit
  <2>5. ruleDir \in [Files -> RuleDef \union {NoRule}]
    BY <2>3, <2>4
  <2>6. /\ fileTime = [f \in Files |-> 0] /\ edits = 0 /\ polled = 0
        /\ signal = FALSE /\ timer = FALSE /\ overlapped = FALSE
    BY DEF RulesInit
  <2>7. edits \in Nat /\ polled \in 0..edits /\ fileTime \in [Files -> 0..edits]
    BY <2>6
  <2>8. signal \in BOOLEAN /\ timer \in BOOLEAN /\ overlapped \in BOOLEAN
    BY <2>6, Zenon
  <2> QED
    BY <2>5, <2>7, <2>8, Zenon DEF RulesTypeOK
<1>2. ReadOK(snapshot) /\ snapshot.at = 0 /\ loads = {} /\ polled = 0
  <2>1. ReadOK(Read({}))
    BY <1>1, ReadIsOK
  <2> QED
    BY <2>1 DEF RulesInit, Read
<1> QED
  BY <1>1, <1>2 DEF RulesInv, OnItsWay

(* An edit of the directory makes every earlier reading an old one.        *)
Edited == /\ edits' = edits + 1
          /\ UNCHANGED <<polled, signal, timer, loads, snapshot, overlapped, givenUp>>

LEMMA EditRules == RulesInv /\ RulesTypeOK' /\ Edited => RulesInv'
<1> SUFFICES ASSUME RulesInv, RulesTypeOK', Edited PROVE RulesInv'
  OBVIOUS
<1>1. edits \in Nat
  BY DEF RulesInv, RulesTypeOK
<1>2. ASSUME NEW l, ReadOK(l) PROVE ReadOK(l)'
  <2>1. l.at \in 0..edits' /\ l.at # edits' /\ l.unread \subseteq Files
    BY <1>1, <1>2 DEF ReadOK, Edited
  <2> QED
    BY <2>1 DEF ReadOK
<1>3. ReadOK(snapshot)' /\ \A l \in loads' : ReadOK(l)'
  BY <1>2 DEF RulesInv, Edited
<1>4. OnItsWay'
  BY DEF RulesInv, OnItsWay, Edited
<1> QED
  BY <1>3, <1>4 DEF RulesInv

(* So does a load that starts: it reads what there is now.                 *)
LEMMA LoadRules ==
  ASSUME RulesInv, StartLoad, timer' \in BOOLEAN,
         UNCHANGED <<ruleDir, fileTime, edits, polled, signal, snapshot, givenUp>>
  PROVE  RulesInv'
<1>1. RulesTypeOK /\ RulesTypeOK'
  BY DEF RulesInv, RulesTypeOK, StartLoad
<1>2. PICK unread \in SUBSET Files :
        loads' = loads \union {Read(unread)} /\ overlapped' = (overlapped \/ loads # {})
  BY DEF StartLoad
<1>3. ReadOK(Read(unread)) /\ Read(unread).at = edits
  BY <1>1, ReadIsOK DEF Read
<1>4. ASSUME NEW l, ReadOK(l) PROVE ReadOK(l)'
  BY <1>4 DEF ReadOK, Readable
<1>5. ReadOK(snapshot)' /\ \A l \in loads' : ReadOK(l)'
  <2>1. snapshot' = snapshot /\ \A l \in loads \union {Read(unread)} : ReadOK(l)'
    BY <1>3, <1>4 DEF RulesInv
  <2> QED
    BY <1>2, <1>4, <2>1 DEF RulesInv
<1>6. OnItsWay'
  <2> SUFFICES ASSUME ~overlapped' PROVE OnItsWay'
    BY DEF OnItsWay
  <2>1. loads' = {Read(unread)}
    BY <1>2
  <2>2. Read(unread).at >= snapshot.at /\ Read(unread).at >= polled
    BY <1>1, <1>3 DEF RulesInv, RulesTypeOK, ReadOK
  <2> QED
    BY <2>1, <2>2 DEF OnItsWay
<1> QED
  BY <1>1, <1>5, <1>6 DEF RulesInv

(* A poll takes in the latest of the times it has seen.                    *)
LEMMA SeenIsLatest ==
  ASSUME RulesTypeOK, NEW n \in 1..RuleFiles
  PROVE  SeenAmong(1..n) \in 0..edits /\ SeenAmong(1..n) >= polled
<1> DEFINE times == {polled} \union {fileTime[f] : f \in 1..n}
<1>1. /\ edits \in Nat /\ polled \in 0..edits /\ n \in Nat \ {0}
      /\ \A f \in 1..n : fileTime[f] \in 0..edits
  BY RulesAssumption DEF RulesTypeOK, Files
<1>2. PICK g \in 1..n : \A f \in 1..n : fileTime[g] >= fileTime[f]
  <2>1. \A f \in 1..n : fileTime[f] \in Int
    BY <1>1
  <2> QED
    BY <1>1, <2>1, LatestExists
<1>3. \E t \in times : \A u \in times : t >= u
  <2>1. fileTime[g] \in 0..edits
    BY <1>1
  <2>2. CASE polled >= fileTime[g]
    BY <1>1, <1>2, <2>1, <2>2
  <2>3. CASE fileTime[g] >= polled
    BY <1>1, <1>2, <2>1, <2>3
  <2> QED
    BY <1>1, <2>1, <2>2, <2>3
<1>4. SeenAmong(1..n) \in times /\ \A u \in times : SeenAmong(1..n) >= u
  BY <1>3, Zenon DEF SeenAmong
<1> QED
  BY <1>1, <1>4

LEMMA NextRules == RulesInv /\ [RulesNext]_ruleVars => RulesInv'
<1> SUFFICES ASSUME RulesInv, [RulesNext]_ruleVars PROVE RulesInv'
  OBVIOUS
<1>1. /\ ruleDir \in [Files -> RuleDef \union {NoRule}]
      /\ edits \in Nat /\ fileTime \in [Files -> 0..edits] /\ polled \in 0..edits
      /\ signal \in BOOLEAN /\ timer \in BOOLEAN /\ overlapped \in BOOLEAN
  BY DEF RulesInv, RulesTypeOK
<1>2. ASSUME NEW f \in Files, NEW d \in RuleDef \union {NoRule},
             WriteFile(f, d) \/ DeleteFile(f)
      PROVE  RulesInv'
  <2>1. Edited
    BY <1>2 DEF WriteFile, DeleteFile, Edited
  <2>2. RulesTypeOK'
    <3>1. edits' = edits + 1 /\ fileTime \in [Files -> 0..edits'] /\ edits' \in 0..edits'
      BY <1>1, <2>1 DEF Edited
    <3>2. fileTime' \in [Files -> 0..edits']
      BY <1>2, <3>1 DEF WriteFile, DeleteFile
    <3>3. ruleDir' \in [Files -> RuleDef \union {NoRule}]
      BY <1>1, <1>2 DEF WriteFile, DeleteFile
    <3> QED
      BY <1>1, <2>1, <3>1, <3>2, <3>3 DEF Edited, RulesTypeOK
  <2> QED
    BY <2>1, <2>2, EditRules
<1>3. CASE WatchFiles
  <2>1. RuleFiles \in 1..RuleFiles
    BY RulesAssumption
  <2>2. SeenAmong(Files) \in 0..edits
    BY <2>1, SeenIsLatest DEF RulesInv, Files
  <2>3. polled' \in 0..edits /\ signal'
    BY <1>3, <2>2 DEF WatchFiles
  <2>4. RulesTypeOK'
    BY <1>1, <1>3, <2>3 DEF WatchFiles, RulesTypeOK
  <2> QED
    BY <1>3, <2>3, <2>4 DEF WatchFiles, RulesInv, ReadOK, Readable, OnItsWay
<1>4. CASE DebouncedReload
  <2>1. RulesTypeOK'
    BY <1>1, <1>4 DEF DebouncedReload, RulesTypeOK
  <2> QED
    BY <1>4, <2>1 DEF DebouncedReload, RulesInv, ReadOK, Readable, OnItsWay
<1>5. CASE TimerFires \/ HandleReloadRules
  BY <1>1, <1>5, LoadRules DEF TimerFires, HandleReloadRules
<1>6. ASSUME NEW l \in loads, PublishSnapshot(l) PROVE RulesInv'
  <2>1. RulesTypeOK'
    BY <1>1, <1>6 DEF PublishSnapshot, RulesTypeOK
  <2>2. ReadOK(snapshot)' /\ \A k \in loads' : ReadOK(k)'
    BY <1>6 DEF PublishSnapshot, RulesInv, ReadOK, Readable
  <2>3. OnItsWay'
    <3> SUFFICES ASSUME ~overlapped' PROVE OnItsWay'
      BY DEF OnItsWay
    <3>1. ~overlapped /\ OnItsWay /\ loads' = {} /\ snapshot' = l
      BY <1>6 DEF PublishSnapshot, RulesInv, OnItsWay
    <3>2. l.at >= snapshot.at /\ l.at \in Int /\ snapshot.at \in Int /\ polled \in Int
      BY <1>1, <3>1 DEF OnItsWay, RulesInv, ReadOK
    <3>3. polled > l.at => signal \/ timer \/ givenUp = polled
      BY <3>1, <3>2 DEF OnItsWay
    <3> QED
      BY <1>6, <3>1, <3>3 DEF PublishSnapshot, OnItsWay
  <2> QED
    BY <2>1, <2>2, <2>3 DEF RulesInv
<1>7. ASSUME NEW f \in Files, WatchFilesFails(f) PROVE RulesInv'
  <2>1. SeenAmong(1..f) \in 0..edits /\ SeenAmong(1..f) >= polled
    BY SeenIsLatest DEF RulesInv, Files
  <2>2. /\ polled' \in 0..edits
        /\ polled' = polled \/ givenUp' = polled'
        /\ polled' = polled => givenUp' = givenUp
    BY <1>1, <1>7, <2>1 DEF WatchFilesFails
  <2>3. UNCHANGED <<ruleDir, fileTime, edits, signal, timer, loads, snapshot, overlapped>>
    BY <1>7 DEF WatchFilesFails
  <2>4. RulesTypeOK'
    BY <2>2, <2>3 DEF RulesInv, RulesTypeOK
  <2> QED
    BY <2>2, <2>3, <2>4 DEF RulesInv, ReadOK, Readable, OnItsWay
<1>8. CASE TimerLoadFails
  <2>1. RulesTypeOK'
    BY <1>8 DEF TimerLoadFails, RulesInv, RulesTypeOK
  <2> QED
    BY <1>8, <2>1 DEF TimerLoadFails, RulesInv, ReadOK, Readable, OnItsWay
<1>9. CASE UNCHANGED ruleVars
  BY <1>9 DEF ruleVars, RulesInv, RulesTypeOK, ReadOK, Readable, OnItsWay
<1> QED
  BY <1>2, <1>3, <1>4, <1>5, <1>6, <1>7, <1>8, <1>9 DEF RulesNext

LEMMA RulesHold == RulesInv => LastFileWins /\ NoticedIsLoaded
<1> SUFFICES ASSUME RulesInv PROVE LastFileWins /\ NoticedIsLoaded
  OBVIOUS
<1>1. ASSUME NEW l \in loads \union {snapshot}, l.at = edits
      PROVE  LastWins(l.rules, Readable(l.unread), RuleFiles) /\ l.unread \subseteq Files
  <2>1. l.rules = Loaded(Readable(l.unread)) /\ l.unread \subseteq Files
    BY <1>1 DEF RulesInv, ReadOK
  <2> QED
    BY <2>1, LoadedLastWins
<1>2. LastFileWins
  <2> SUFFICES ASSUME NEW l \in loads \union {snapshot}, l.at = edits
               PROVE  LET good == {f \in Files \ l.unread : Loadable(ruleDir[f])}
                      IN  /\ DOMAIN l.rules = {ruleDir[f].id : f \in good}
                          /\ \A f \in good :
                                (\A g \in good : g > f => ruleDir[g].id # ruleDir[f].id)
                                   => l.rules[ruleDir[f].id] = ruleDir[f].sev
    BY DEF LastFileWins
  <2> DEFINE dir == Readable(l.unread)
             good == {f \in Files \ l.unread : Loadable(ruleDir[f])}
  <2>1. \A f \in Files : /\ Loadable(dir[f]) <=> f \in good
                         /\ f \in good => dir[f] = ruleDir[f]
    BY DEF Readable, Loadable
  <2>2. {f \in 1..RuleFiles : Loadable(dir[f])} = good
    BY <2>1 DEF Files
  <2>3. LastWins(l.rules, dir, RuleFiles)
    BY <1>1
  <2> HIDE DEF dir
  <2>4. DOMAIN l.rules = {ruleDir[f].id : f \in good}
    BY <2>1, <2>2, <2>3 DEF LastWins
  <2>5. ASSUME NEW f \in good, \A g \in good : g > f => ruleDir[g].id # ruleDir[f].id
        PROVE  l.rules[ruleDir[f].id] = ruleDir[f].sev
    BY <2>1, <2>2, <2>3, <2>5 DEF LastWins, Files
  <2> QED
    BY <2>4, <2>5
<1>3. NoticedIsLoaded
  <2>1. snapshot.at \in Int /\ polled \in Int
    BY DEF RulesInv, RulesTypeOK, ReadOK
  <2> QED
    BY <2>1 DEF RulesInv, OnItsWay, NoticedIsLoaded
<1> QED
  BY <1>2, <1>3

(***************************************************************************)
(* For any number of rule files, edits, loads and errors: a load has of    *)
(* every ID the rule of the last file that holds it and could be read      *)
(* (LoadSnapshot), and no change the watcher has noticed is lost in the    *)
(* poll, the one-slot channel or the debounce timer, unless the poll or    *)
(* the reload failed or two loads have overlapped (debouncedReload).       *)
(***************************************************************************)
THEOREM RulesAreRead == RulesSpec => [](LastFileWins /\ NoticedIsLoaded)
  BY InitRules, NextRules, RulesHold, PTL DEF RulesSpec
=============================================================================
