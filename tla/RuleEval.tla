------------------------------- MODULE RuleEval -------------------------------
(***************************************************************************)
(* The rule evaluator of the detection pipeline's lab validation: events   *)
(* fetched from ingest are indexed into a batch, and a rule's match clause *)
(* is evaluated against it.  Names, queries and command lines are the sets *)
(* of words they contain; case folding is left out.                        *)
(***************************************************************************)
EXTENDS Integers, Sequences, FiniteSets

CONSTANTS EvidencePool,  \* events ingest may return
          RuleClauses,   \* match clauses of the candidate's rules, those nested in them too
          MaxNesting,    \* bound: groups nested in groups
          MaxEvidence,   \* bound: events of one batch
          NoGuid         \* an event without a process guid or parent

VARIABLE evidence        \* events fetched so far, in order

Groups == {c \in RuleClauses : c.leaf = "group"}

(* Clauses are parsed JSON: what a group lists are clauses, and nesting    *)
(* comes to an end.                                                        *)
ASSUME RuleEvalAssumption ==
    /\ MaxEvidence \in Nat /\ MaxNesting \in Nat
    /\ \A c \in Groups : c.of \in Seq(RuleClauses) /\ c.min \in Int
    /\ \E depth \in [Groups -> 0..MaxNesting] :
          \A c \in Groups : \A i \in DOMAIN c.of :
             c.of[i] \in Groups => depth[c.of[i]] < depth[c]

(* The clauses that the schema of detection packs accepts, which is asked  *)
(* before a candidate is stored: known operators and leaves all the way    *)
(* down.                                                                   *)
Leaves == {"process", "dns", "flow", "sase", "ext"}
SchemaLeaves == {c \in RuleClauses : c.leaf \in Leaves}
SchemaClauses ==
    SchemaLeaves \cup
    UNION {S \in SUBSET Groups :
              \A c \in S : /\ c.op \in {"all_of", "any_of"}
                           /\ \A i \in DOMAIN c.of : c.of[i] \in S \cup SchemaLeaves}

OfKind(kind, es) == {es[i] : i \in {j \in DOMAIN es : es[j].kind = kind}}

(* ProcessesByGUID: an event without a guid is skipped, and of two with    *)
(* one guid the later stays.                                               *)
Started(es) == {i \in DOMAIN es : es[i].kind = "process" /\ es[i].guid # NoGuid}
LatestOf(es, g) == {i \in Started(es) : /\ es[i].guid = g
                                        /\ \A j \in Started(es) : es[j].guid = g => j <= i}

ProcessesLinkedEarly(es) ==
    [g \in {es[i].guid : i \in Started(es)} |->
        LET i == CHOOSE k \in LatestOf(es, g) : TRUE
        IN  IF \E j \in Started(es) : j < i /\ es[j].guid = es[i].parent THEN es[i]
            ELSE [es[i] EXCEPT !.parent = NoGuid]]
Processes(es) ==
    [g \in {es[i].guid : i \in Started(es)} |-> es[CHOOSE i \in LatestOf(es, g) : TRUE]]

BuildBatch(es) ==
    [procs |-> Processes(es), dns |-> OfKind("dns", es), flow |-> OfKind("flow", es),
     sase |-> OfKind("sase", es), ext |-> OfKind("ext", es)]

SubstringAny(words, needles) == words \cap needles # {}

(* The parent is looked up when the leaf is evaluated, in the whole index. *)
ParentWords(b, proc) ==
    IF proc.parent \in DOMAIN b.procs THEN b.procs[proc.parent].words ELSE {}

(* Every list the leaf gives has to match.                                 *)
MatchProcess(b, leaf, proc) ==
    /\ "names" \in DOMAIN leaf => SubstringAny(proc.words, leaf.names)
    /\ "parents" \in DOMAIN leaf => SubstringAny(ParentWords(b, proc), leaf.parents)

MatchFlow(leaf, flow) ==
    /\ ("ports" \in DOMAIN leaf /\ leaf.ports # {}) => flow.port \in leaf.ports
    /\ "hosts" \in DOMAIN leaf => SubstringAny(flow.words, leaf.hosts)

EvalProcessLeaf(leaf, b) == \E g \in DOMAIN b.procs : MatchProcess(b, leaf, b.procs[g])
EvalDNSLeaf(leaf, b) == \E d \in b.dns : SubstringAny(d.words, leaf.words)
EvalFlowLeaf(leaf, b) ==
    IF "has_any_flow" \in DOMAIN leaf /\ leaf.has_any_flow
    THEN b.flow # {} ELSE \E f \in b.flow : MatchFlow(leaf, f)
(* For SASE components and browser extensions any one list suffices.       *)
EvalSASELeaf(leaf, b) == \E s \in b.sase : SubstringAny(s.words, leaf.words)
EvalExtLeaf(leaf, b) == \E x \in b.ext : SubstringAny(x.words, leaf.words)

Verdict(bool) == IF bool THEN "yes" ELSE "no"

(* any_of counts the clauses that hold against min_match, at least 1.      *)
MinMet(n, min) == n >= (IF min < 1 THEN 1 ELSE min)

FirstNot(vs, good) ==
    LET bad == {i \in DOMAIN vs : vs[i] # good}
    IN  IF bad = {} THEN good ELSE vs[CHOOSE i \in bad : \A j \in bad : i <= j]

(* all_of stops at the first clause that is false or in error; any_of      *)
(* evaluates its clauses up to the first error.                            *)
EvalGroup(op, min, vs) ==
    IF op = "all_of" THEN FirstNot(vs, "yes")
    ELSE IF op # "any_of" \/ (\E i \in DOMAIN vs : vs[i] = "error") THEN "error"
    ELSE Verdict(MinMet(Cardinality({i \in DOMAIN vs : vs[i] = "yes"}), min))

EvalLeaf(c, b) ==
    IF c.leaf \notin Leaves THEN "error"
    ELSE Verdict(\/ c.leaf = "process" /\ EvalProcessLeaf(c, b)
                 \/ c.leaf = "dns" /\ EvalDNSLeaf(c, b)
                 \/ c.leaf = "flow" /\ EvalFlowLeaf(c, b)
                 \/ c.leaf = "sase" /\ EvalSASELeaf(c, b)
                 \/ c.leaf = "ext" /\ EvalExtLeaf(c, b))

(* evalClause of every clause, groups by way of the clauses they list.     *)
Evaluation(b) ==
    LET verdict[c \in RuleClauses] ==
            IF c.leaf = "group" THEN EvalGroup(c.op, c.min, [i \in DOMAIN c.of |-> verdict[c.of[i]]])
            ELSE EvalLeaf(c, b)
    IN  verdict

(* RuleMatches: the verdict on each clause that a rule may have.           *)
RuleMatches(es) == Evaluation(BuildBatch(es))
-----------------------------------------------------------------------------
EvidenceInit == evidence = << >>

(* ingest returns one more event (QueryEvents with a larger limit).        *)
FetchEvent(e) ==
    /\ Len(evidence) < MaxEvidence
    /\ evidence' = Append(evidence, e)

EvidenceNext == \E e \in EvidencePool : FetchEvent(e)
-----------------------------------------------------------------------------
Guids(es) == {es[i].guid : i \in {j \in DOMAIN es : es[j].kind = "process"}}

(* More evidence never hides a match: a rule that matches a batch matches  *)
(* every batch with one event more, unless that event reuses the guid of a *)
(* process it replaces in the index (BuildBatch, evalGroup).  Of rules the *)
(* schema accepts: an any_of would stop at a clause that is in error only  *)
(* now, because what kept it from being evaluated has matched.             *)
MatchesPersist ==
    [][ ( /\ evidence' # evidence
          /\ Guids(<<evidence'[Len(evidence')]>>) \cap Guids(evidence) = {} ) =>
            LET verdict == RuleMatches(evidence) later == RuleMatches(evidence')
            IN  \A c \in SchemaClauses : verdict[c] = "yes" => later[c] = "yes" ]_evidence

Swapped(es, i) == [es EXCEPT ![i] = es[i + 1], ![i + 1] = es[i]]

(* The verdict does not depend on the order in which ingest returned the   *)
(* events (a child before its parent, say), as long as no process guid     *)
(* occurs twice (BuildBatch, matchProcess).                                *)
OrderIrrelevant ==
    \A i \in 1..(Len(evidence) - 1) :
        Guids(<<evidence[i]>>) \cap Guids(<<evidence[i + 1]>>) = {} =>
            RuleMatches(Swapped(evidence, i)) = RuleMatches(evidence)

EvidenceSpec == EvidenceInit /\ [][EvidenceNext]_evidence

\* A batch is made of events ingest may return and keeps its bound.
EvidenceTypeOK == evidence \in Seq(EvidencePool) /\ Len(evidence) <= MaxEvidence

(* A verdict is a property of the evidence: more of it never takes a match *)
(* away, and its order does not matter.                                    *)
MatchesSound ==
    /\ MatchesPersist
    /\ [](EvidenceTypeOK /\ OrderIrrelevant)
=============================================================================
