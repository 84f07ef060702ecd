---------------------------- MODULE PlatformState ----------------------------
(***************************************************************************)
(* The part of the actions-api PlatformData that every platform workflow   *)
(* shares: bounded in-memory lists behind one mutex, and the operational   *)
(* event feed that each handler appends to in its critical section.  Every *)
(* handler locks platform.mu once around its reads and writes, so one      *)
(* handler is one action.                                                  *)
(***************************************************************************)
EXTENDS Naturals, Sequences

CONSTANTS EventCap      \* appendOp keeps this many events (1000 in the code)

VARIABLES opEvents      \* PlatformData.Events, oldest first

ASSUME EventCapAssumption == EventCap \in Nat \ {0}

(* appendOp, appendResearch, appendCandidate, appendAuditBundle, ...: the  *)
(* append that drops the oldest entries above the cap.                     *)
Capped(s, cap) == IF Len(s) > cap THEN SubSeq(s, Len(s) - cap + 1, Len(s)) ELSE s
Pushed(s, x, cap) == Capped(Append(s, x), cap)

AppendOp(type, status, about) ==
    opEvents' = Pushed(opEvents, [type |-> type, status |-> status, about |-> about], EventCap)

(* POST /platform/operational-events: a client's own event, any type the   *)
(* handlers do not use.                                                    *)
PostOperationalEvent == AppendOp("client", "ok", "client")

(* The last event of one type about one subject, as the console shows it.  *)
LastEvent(types, about) ==
    LET hits == {i \in DOMAIN opEvents : opEvents[i].type \in types /\ opEvents[i].about = about}
    IN  {opEvents[i].status : i \in {k \in hits : \A j \in hits : j <= k}}
=============================================================================
