--------------------------- MODULE PackController ---------------------------
(***************************************************************************)
(* How the rollout controller chooses a signed pack for an agent           *)
(* (backend/detection-pipeline/internal/rollout/{select,packmeta,semver,   *)
(* policy}.go behind the handlers of internal/api/controller_rollout.go).  *)
(*                                                                         *)
(* Both handlers list the artifacts of a Go map, whose iteration order is  *)
(* random, and fold a "better than the best so far" test over the list.    *)
(* An agent asks for the latest pack first, and then for the artifact of   *)
(* the pack id it was told: two requests, each with its own order, and the *)
(* second without the version that the first one chose.  Packs may be      *)
(* signed between the two, and the agent asks again and again.             *)
(***************************************************************************)
EXTENDS Integers, Sequences, FiniteSets

CONSTANTS
    PackIds,        \* pack_id values
    Cores,          \* major.minor.patch triples of pack versions
    Tags,           \* pre-release suffixes of pack versions, "" for none
    Agents,         \* the agents: records of an os and a version triple
    MinVersions,    \* min_agent_version triples
    OSSets,         \* supported_os values
    Allowed,        \* DETECTION_ROLLOUT_ALLOWED_PACK_IDS; empty: all
    MaxArts,        \* bound on the number of signed artifacts
    None

ASSUME ControllerBounds == MaxArts \in Nat /\ Cores \subseteq Nat \X Nat \X Nat

VARIABLES
    arts,           \* Store.SignedPacks
    now,            \* the clock, in milliseconds
    query,          \* the last GET latest: its agent and pack_id filter
    listed,         \* history: the artifacts there were when it was served
    answer,         \* its answer
    reply           \* the answer to the GET artifact that followed

vars == <<arts, now, query, listed, answer, reply>>

Artifact == [id : 1 .. MaxArts, pack : PackIds, core : Cores, tag : Tags,
             min : MinVersions, oses : OSSets, created : Nat]
Query == [agent : Agents, filter : PackIds \union {None}]
Reply == [status : {200, 403, 404, 406}, body : Artifact \union {None}]

(***************************************************************************)
(* semver.go: parseSemver drops the suffix, so the comparisons see only    *)
(* the triple.                                                             *)
(***************************************************************************)
SemverGT(a, b) ==
    \/ a[1] > b[1]
    \/ a[1] = b[1] /\ a[2] > b[2]
    \/ a[1] = b[1] /\ a[2] = b[2] /\ a[3] > b[3]

SemverGE(a, b) == a = b \/ SemverGT(a, b)

(***************************************************************************)
(* packmeta.go and policy.go.  Every pack the pipeline assembles is        *)
(* observe-only and without expiry.                                        *)
(***************************************************************************)
Compatible(a, agent) == agent.os \in a.oses /\ SemverGE(agent.version, a.min)

AllowPack(p) == Allowed = {} \/ p \in Allowed

Eligible(a, agent, filter) ==
    AllowPack(a.pack) /\ filter \in {None, a.pack} /\ Compatible(a, agent)

(***************************************************************************)
(* select.go: the tests of the two loops, and the loops.                   *)
(***************************************************************************)
SameVersion(a, b) == a.core = b.core /\ a.tag = b.tag

Newer(a, b) ==
    SemverGT(a.core, b.core) \/ (SameVersion(a, b) /\ a.created > b.created)

Better(a, best) ==
    IF a.pack = best.pack THEN Newer(a, best) ELSE a.created > best.created

\* The best so far among the candidates, after each turn of either loop;
\* "beats" are the pairs of which the first replaces the second.
BestUpTo(order, candidates, beats) ==
    LET best[i \in 0..Len(order)] ==
            IF i = 0 THEN None
            ELSE IF /\ order[i] \in candidates
                    /\ best[i - 1] = None \/ <<order[i], best[i - 1]>> \in beats
                 THEN order[i] ELSE best[i - 1]
    IN  best

BestOf(order, candidates, beats) == BestUpTo(order, candidates, beats)[Len(order)]

EligibleFor(agent, filter) == {a \in arts : Eligible(a, agent, filter)}

OfPack(pack) == {a \in arts : a.pack = pack}

SelectLatestCompatible(order, agent, filter) ==
    BestOf(order, EligibleFor(agent, filter), {p \in arts \X arts : Better(p[1], p[2])})

\* Mutant: the first artifact of the pack id is taken.
FindArtifactByPack_First(order, pack) == BestOf(order, OfPack(pack), {})

FindArtifactByPack(order, pack) ==
    BestOf(order, OfPack(pack), {p \in arts \X arts : Newer(p[1], p[2])})

(***************************************************************************)
(* The store and the requests.                                             *)
(***************************************************************************)
\* ListSigned: every artifact once, in the order the map yields them.
Orders == {o \in [1..Cardinality(arts) -> arts] : arts \subseteq {o[i] : i \in DOMAIN o}}

NoReply == [status |-> 404, body |-> None]

ASSUME NoneAssumption == None \notin Artifact \union Query

TypeOK ==
    /\ arts \subseteq Artifact
    /\ now \in Nat
    /\ query \in Query \union {None}
    /\ listed \subseteq arts
    /\ answer \in listed \union {None}
    /\ reply \in Reply
    /\ reply.status = 200 => reply.body \in arts
    /\ \A a, b \in arts : a.id = b.id => a = b
    /\ \A a \in arts : a.created <= now

Init ==
    /\ arts = {}
    /\ now = 0
    /\ query = None
    /\ listed = {}
    /\ answer = None
    /\ reply = NoReply

\* handleSign stores one more artifact; two may carry the same millisecond.
Sign(p, core, tag, min, oses) ==
    /\ Cardinality(arts) < MaxArts
    /\ now' \in {now, now + 1}
    /\ arts' = arts \union
          {[id |-> Cardinality(arts) + 1, pack |-> p, core |-> core, tag |-> tag,
            min |-> min, oses |-> oses, created |-> now']}
    /\ UNCHANGED <<query, listed, answer, reply>>

GetLatest(agent, filter, order) ==
    /\ query' = [agent |-> agent, filter |-> filter]
    /\ listed' = arts
    /\ answer' = SelectLatestCompatible(order, agent, filter)
    /\ reply' = NoReply
    /\ UNCHANGED <<arts, now>>

(***************************************************************************)
(* GET artifact at the artifact_url of the answer: the pack id, the os and *)
(* the agent version, but not the version of the pack.                     *)
(***************************************************************************)
GetArtifact(order) ==
    /\ answer # None
    /\ reply = NoReply
    /\ reply' = LET a == FindArtifactByPack(order, answer.pack)
                IN  CASE a = None -> NoReply
                      [] a # None /\ ~AllowPack(a.pack) -> [status |-> 403, body |-> None]
                      [] a # None /\ AllowPack(a.pack) /\ ~Compatible(a, query.agent) ->
                            [status |-> 406, body |-> None]
                      [] OTHER -> [status |-> 200, body |-> a]
    /\ UNCHANGED <<arts, now, query, listed, answer>>

Next ==
    \/ \E p \in PackIds, core \in Cores, tag \in Tags, min \in MinVersions, oses \in OSSets :
          Sign(p, core, tag, min, oses)
    \/ \E agent \in Agents, filter \in PackIds \union {None}, order \in Orders :
          GetLatest(agent, filter, order)
    \/ \E order \in Orders : GetArtifact(order)

Spec == Init /\ [][Next]_vars
-----------------------------------------------------------------------------
\* What was eligible when GET latest was served.
Offered == {a \in listed : Eligible(a, query.agent, query.filter)}

\* The answer was chosen among artifacts of one pack id: it was asked for, or
\* there was no other; the agents themselves name none.
OfOnePack == query.filter # None \/ \A a, b \in Offered : a.pack = b.pack

(***************************************************************************)
(* GET latest answers with a pack exactly when there is one that runs on   *)
(* this os and agent version, is allowed, and has the pack id asked for.   *)
(***************************************************************************)
LatestIsEligible ==
    query # None =>
       IF answer = None
         THEN \A a \in listed : ~(/\ query.agent.os \in a.oses
                                /\ SemverGE(query.agent.version, a.min)
                                /\ AllowPack(a.pack)
                                /\ query.filter \in {None, a.pack})
         ELSE /\ query.agent.os \in answer.oses
              /\ SemverGE(query.agent.version, answer.min)
              /\ AllowPack(answer.pack)
              /\ query.filter \in {None, answer.pack}

(***************************************************************************)
(* Among artifacts of one pack id the answer does not depend on the        *)
(* iteration order: no eligible one has a higher version, nor the same one *)
(* and a later signing time.                                               *)
(***************************************************************************)
AnswerIsNewest ==
    query # None /\ OfOnePack /\ answer # None =>
       \A a \in Offered :
          ~SemverGT(a.core, answer.core)
          /\ (a.core = answer.core /\ a.tag = answer.tag => a.created <= answer.created)

(***************************************************************************)
(* "Prefer higher semver for same pack_id" (select.go:36), for a request   *)
(* that names no pack id.                                                  *)
(***************************************************************************)
HigherSemverPreferred ==
    query # None /\ answer # None =>
       \A a \in Offered : a.pack = answer.pack => ~SemverGT(a.core, answer.core)

(***************************************************************************)
(* The artifact an agent downloads is the one it was told of, as its       *)
(* digest check demands, or a newer one that was signed since, provided    *)
(* every artifact of that pack id is eligible for it, the answer was       *)
(* chosen among them, and no two tie.                                      *)
(***************************************************************************)
Distinct(p) ==
    \A a, b \in arts : a.pack = p /\ b.pack = p /\ a # b =>
       a.core # b.core \/ (SameVersion(a, b) /\ a.created # b.created)

DownloadMatchesLatest ==
    ( /\ reply # NoReply
      /\ OfOnePack
      /\ Distinct(answer.pack)
      /\ \A a \in arts : a.pack = answer.pack => Eligible(a, query.agent, query.filter) )
    => /\ reply.status = 200
       /\ reply.body = answer \/ (reply.body \notin listed /\ Newer(reply.body, answer))

(* Whatever orders the map of artifacts comes in for the two requests, an  *)
(* agent is offered an eligible artifact, the newest of its pack id, and   *)
(* downloads what it was offered, or what was signed since.                *)
SelectionSound ==
    /\ TypeOK
    /\ LatestIsEligible
    /\ AnswerIsNewest
    /\ DownloadMatchesLatest
=============================================================================
