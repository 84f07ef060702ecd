---------------------------- MODULE MCEventPath ----------------------------
(***************************************************************************)
(* The path of an event and of a pack, checked side by side: the           *)
(* pipeline's rollout controller, the websocket gateway on top of the      *)
(* agent registry, and the correlator's evaluator and forwarding chain. A  *)
(* behaviour runs one of them, the subject, and leaves the others in their *)
(* initial state.                                                          *)
(***************************************************************************)
EXTENDS MCPackController, WebsocketGateway, CorrelatorEval, CorrelatorForward

VARIABLE subject   \* the component that runs in this behaviour

CONSTANTS d1, d2, h1, h2

MCHostOf == (d1 :> h1) @@ (d2 :> h2)

MCUidRank == (d1 :> 1) @@ (d2 :> 2) @@ (h1 :> 3) @@ (h2 :> 4)

\* A rule that requires prior events in both lists, and one on the labels of
\* a host whose any_of list nothing enforces.
MCRuleList ==
    << [id |-> "r1", typed |-> TRUE, whenAny |-> {"exec"}, whenAll |-> {},
        priorAny |-> {"exec"}, priorAll |-> {"connect"},
        window |-> 1, labels |-> {}, excluded |-> {}, cooldown |-> 1, sev |-> "high"],
       [id |-> "r2", typed |-> TRUE, whenAny |-> {}, whenAll |-> {"connect"},
        priorAny |-> {"exec"}, priorAll |-> {},
        window |-> 1, labels |-> {"l1"}, excluded |-> {}, cooldown |-> 2, sev |-> "low"] >>

MCSnapshots == {{"r1", "r2"}, {"r2"}}

\* A connection to a public address and an enriched record with a CVE.
MCIncoming ==
    {[id |-> "m1", host |-> "h1", record |-> FALSE, enriched |-> FALSE, top |-> {"connect"},
      inner |-> {}, dst |-> "public", port |-> 443, src |-> "private"],
     [id |-> "m2", host |-> "h1", record |-> TRUE, enriched |-> TRUE, top |-> {"record_type"},
      inner |-> {"cve"}, dst |-> "none", port |-> 0, src |-> "none"]}

MCFwdRules ==
    << [id |-> "r1", hosts |-> {}, excluded |-> {}, conds |-> {"connect"}, sev |-> "critical",
        conf |-> 96, type |-> "data_exfiltration", tags |-> {}],
       [id |-> "r2", hosts |-> {"h1"}, excluded |-> {"h2"}, conds |-> {"cve"}, sev |-> "high",
        conf |-> 75, type |-> "privilege_escalation", tags |-> {}],
       [id |-> "r3", hosts |-> {}, excluded |-> {}, conds |-> {}, sev |-> "high",
        conf |-> 85, type |-> "reconnaissance", tags |-> {}] >>

-----------------------------------------------------------------------------
SuiteInit ==
    /\ subject \in {"controller", "gateway", "evaluation", "forwarding"}
    /\ Init
    /\ GatewayInit
    /\ EvalInit
    /\ FwdInit

SuiteNext ==
    \/ subject = "controller" /\ Next
       /\ UNCHANGED <<subject, gatewayVars, evalVars, fwdVars>>
    \/ subject = "gateway" /\ GatewayNext
       /\ UNCHANGED <<subject, vars, evalVars, fwdVars>>
    \/ subject = "evaluation" /\ EvalNext
       /\ UNCHANGED <<subject, vars, gatewayVars, fwdVars>>
    \/ subject = "forwarding" /\ FwdNext
       /\ UNCHANGED <<subject, vars, gatewayVars, evalVars>>

SuiteSpec == SuiteInit /\ [][SuiteNext]_<<subject, vars, gatewayVars, evalVars, fwdVars>>
=============================================================================
