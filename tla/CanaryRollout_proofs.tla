------------------------ MODULE CanaryRollout_proofs ------------------------
(***************************************************************************)
(* Proofs about CanaryRollout, for any number of requests, seconds and     *)
(* failures.                                                               *)
(*                                                                         *)
(* Row says what has been published at each step of a request's goroutine; *)
(* Book that the map and the ids agree, so that a goroutine which writes   *)
(* to the record of another shares its id; Recorded that a request with an *)
(* id of its own has the status its goroutine came to.                     *)
(***************************************************************************)
EXTENDS CanaryRollout, TLAPS

USE CanaryAssumption

AllApplied(r) == \A g \in GroupsOf(r) : told[r][g] = "apply"
NoneApplied(r) == \A g \in Groups : told[r][g] # "apply"

\* What the outcome s of request r says about the messages.
Says(r, s) ==
    /\ s = "success" => AllApplied(r)
    /\ s = "rollback" /\ r \notin lost => NoneApplied(r)
    /\ s = "failed" => r \in lost

Row(r) ==
    /\ pc[r] \in {"none", "applyCanary"} => NoneApplied(r) /\ told[r]["rest"] = "none"
    /\ pc[r] \in {"watchCanary", "undoCanary", "applyRest"} =>
          told[r]["canary"] = "apply" /\ told[r]["rest"] = "none"
    /\ pc[r] \in {"watchAll", "undoAll"} => AllApplied(r)
    /\ pc[r] = "applyRest" => r \in canaryGood /\ r \notin Single
    /\ r \in Single => told[r]["rest"] = "none"
    /\ Says(r, pc[r])

Rows == \A r \in Reqs : Row(r)

Book ==
    /\ \A i \in Ids : active[i] # None => id[active[i]] = i
    /\ \A r \in Reqs : id[r] # None => active[id[r]] # None

Recorded ==
    /\ \A r \in Reqs : id[r] = None => status[r] = "pending"
    /\ \A r \in Reqs : Alone(r) =>
          IF pc[r] \in {"complete", "end"} THEN Says(r, status[r]) ELSE status[r] = "pending"

IInv == TypeOK /\ Rows /\ Book /\ RestAfterCanary /\ Recorded

(***************************************************************************)
(* The invariant holds before the first request.                           *)
(***************************************************************************)
LEMMA InitIInv == Init => IInv
  BY DEF Init, IInv, TypeOK, Rows, Row, Book, RestAfterCanary, Recorded, Alone, Says,
         NoneApplied, Ids, Groups, Steps, Outcomes

(***************************************************************************)
(* A record found under the id of another request is not one of a request  *)
(* that is alone with its id.                                              *)
(***************************************************************************)
LEMMA OwnRecord ==
  ASSUME IInv, NEW r \in Reqs, id[r] # None
  PROVE  /\ id[r] \in Ids
         /\ active[id[r]] \in Reqs
         /\ id[active[id[r]]] = id[r]
         /\ Alone(active[id[r]]) => active[id[r]] = r
  BY DEF IInv, TypeOK, Book, Alone

(***************************************************************************)
(* Publishing changes what the groups it names were told and nothing else. *)
(***************************************************************************)
LEMMA Told ==
  ASSUME TypeOK, NEW r \in Reqs, NEW groups \in SUBSET Groups,
         NEW what \in {"apply", "rollback"}, Tell(r, groups, what)
  PROVE  /\ told' \in [Reqs -> [Groups -> {"none", "apply", "rollback"}]]
         /\ \A g \in groups : told'[r][g] = what
         /\ \A g \in Groups \ groups : told'[r][g] = told[r][g]
         /\ \A q \in Reqs \ {r} : told'[q] = told[q]
  BY DEF TypeOK, Tell

(***************************************************************************)
(* Publishing an apply command keeps the types.                            *)
(***************************************************************************)
LEMMA ApplyTypeOK ==
  ASSUME TypeOK, NEW r \in Reqs, NEW g \in Groups,
         NEW from \in {"applyCanary", "applyRest"}, NEW to \in {"watchCanary", "watchAll"},
         ApplyToTargets(r, from, g, to)
  PROVE  TypeOK'
<1> USE DEF TypeOK, Steps, Outcomes, book
<1>1. CASE PublishFails(r) /\ Goto(r, "failed")
  BY <1>1 DEF ApplyToTargets, PublishFails, Goto
<1>2. CASE Tell(r, {g}, "apply") /\ Goto(r, to)
  <2>1. told' \in [Reqs -> [Groups -> {"none", "apply", "rollback"}]]
    BY <1>2, Told
  <2> QED
    BY <1>2, <2>1 DEF ApplyToTargets, Tell, Goto
<1> QED
  BY <1>1, <1>2 DEF ApplyToTargets

(***************************************************************************)
(* Every step preserves the invariant.                                     *)
(***************************************************************************)
LEMMA NextIInv == IInv /\ [Next]_vars => IInv'
<1> SUFFICES ASSUME IInv, [Next]_vars PROVE IInv'
  OBVIOUS
<1> USE DEF IInv, TypeOK, Rows, Row, Book, RestAfterCanary, Recorded, Alone, Says,
            AllApplied, NoneApplied, GroupsOf, Groups, Outcomes, Steps, book, hist
<1>1. CASE Clock
  BY <1>1 DEF Clock, Ids
<1>2. ASSUME NEW r \in Reqs, ApplyCanary(r) PROVE IInv'
  <2>1. second \in Ids /\ second # None /\ id[r] = None
    BY <1>2 DEF ApplyCanary, Ids
  <2>2. TypeOK'
    BY <1>2, <2>1 DEF ApplyCanary
  <2>3. Rows' /\ RestAfterCanary'
    BY <1>2, <2>1 DEF ApplyCanary
  <2>4. Book'
    <3>1. id' = [id EXCEPT ![r] = second] /\ active' = [active EXCEPT ![second] = r]
      BY <1>2 DEF ApplyCanary
    <3>2. ASSUME NEW i \in Ids, active'[i] # None PROVE id'[active'[i]] = i
      <4>1. CASE i = second
        BY <2>1, <3>1, <4>1
      <4>2. CASE i # second
        <5>1. active'[i] = active[i] /\ active[i] # None /\ active[i] \in Reqs
          BY <3>1, <3>2, <4>2
        <5>2. id[active[i]] = i /\ i # None
          BY <5>1 DEF Ids
        <5> QED
          BY <2>1, <3>1, <5>1, <5>2
      <4> QED
        BY <4>1, <4>2
    <3>3. ASSUME NEW q \in Reqs, id'[q] # None PROVE active'[id'[q]] # None
      BY <2>1, <3>1, <3>3
    <3> QED
      BY <3>2, <3>3
  <2>5. Recorded'
    BY <1>2, <2>1 DEF ApplyCanary
  <2> QED
    BY <2>2, <2>3, <2>4, <2>5
<1>3. ASSUME NEW r \in Reqs, HandlerReturns(r) PROVE IInv'
  BY <1>3 DEF HandlerReturns
<1>4. ASSUME NEW r \in Reqs, NEW verdict \in {"good", "bad"}, Telemetry(r, verdict) PROVE IInv'
  BY <1>4 DEF Telemetry
<1>5. ASSUME NEW r \in Reqs, SubscribeFails(r) PROVE IInv'
  BY <1>5 DEF SubscribeFails, Watching, Goto
<1>6. ASSUME NEW r \in Reqs, ApplyToCanary(r) PROVE IInv'
  <2>1. CASE PublishFails(r) /\ Goto(r, "failed")
    <3>1. TypeOK'
      BY <1>6, ApplyTypeOK DEF ApplyToCanary
    <3>2. Rows' /\ RestAfterCanary'
      BY <1>6, <2>1 DEF ApplyToCanary, ApplyToTargets, PublishFails, Goto
    <3>3. Book' /\ Recorded'
      BY <1>6, <2>1 DEF ApplyToCanary, ApplyToTargets, PublishFails, Goto
    <3> QED
      BY <3>1, <3>2, <3>3
  <2>2. CASE Tell(r, {"canary"}, "apply")
    <3>1. /\ told' \in [Reqs -> [Groups -> {"none", "apply", "rollback"}]]
          /\ \A g \in {"canary"} : told'[r][g] = "apply"
          /\ \A g \in Groups \ {"canary"} : told'[r][g] = told[r][g]
          /\ \A q \in Reqs \ {r} : told'[q] = told[q]
      BY <2>2, Told
    <3>2. TypeOK'
      BY <1>6, ApplyTypeOK DEF ApplyToCanary
    <3>3. Rows' /\ RestAfterCanary'
      BY <1>6, <2>2, <3>1 DEF ApplyToCanary, ApplyToTargets, Tell, PublishFails, Goto
    <3>4. Book' /\ Recorded'
      BY <1>6, <2>2, <3>1 DEF ApplyToCanary, ApplyToTargets, Tell, PublishFails, Goto
    <3> QED
      BY <3>2, <3>3, <3>4
  <2> QED
    BY <1>6, <2>1, <2>2 DEF ApplyToCanary, ApplyToTargets
<1>7. ASSUME NEW r \in Reqs, ApplyToRest(r) PROVE IInv'
  <2>1. CASE PublishFails(r) /\ Goto(r, "failed")
    <3>1. TypeOK'
      BY <1>7, ApplyTypeOK DEF ApplyToRest
    <3>2. Rows' /\ RestAfterCanary'
      BY <1>7, <2>1 DEF ApplyToRest, ApplyToTargets, PublishFails, Goto
    <3>3. Book' /\ Recorded'
      BY <1>7, <2>1 DEF ApplyToRest, ApplyToTargets, PublishFails, Goto
    <3> QED
      BY <3>1, <3>2, <3>3
  <2>2. CASE Tell(r, {"rest"}, "apply")
    <3>1. /\ told' \in [Reqs -> [Groups -> {"none", "apply", "rollback"}]]
          /\ \A g \in {"rest"} : told'[r][g] = "apply"
          /\ \A g \in Groups \ {"rest"} : told'[r][g] = told[r][g]
          /\ \A q \in Reqs \ {r} : told'[q] = told[q]
      BY <2>2, Told
    <3>2. TypeOK'
      BY <1>7, ApplyTypeOK DEF ApplyToRest
    <3>3. Rows' /\ RestAfterCanary'
      BY <1>7, <2>2, <3>1 DEF ApplyToRest, ApplyToTargets, Tell, PublishFails, Goto
    <3>4. Book' /\ Recorded'
      BY <1>7, <2>2, <3>1 DEF ApplyToRest, ApplyToTargets, Tell, PublishFails, Goto
    <3> QED
      BY <3>2, <3>3, <3>4
  <2> QED
    BY <1>7, <2>1, <2>2 DEF ApplyToRest, ApplyToTargets
<1>8. ASSUME NEW r \in Reqs, RollbackCanary(r) PROVE IInv'
  <2>1. CASE PublishFails(r)
    BY <1>8, <2>1 DEF RollbackCanary, RollbackTargets, PublishFails, Tell, Goto
  <2>2. CASE Tell(r, {"canary"}, "rollback")
    <3>1. /\ told' \in [Reqs -> [Groups -> {"none", "apply", "rollback"}]]
          /\ \A g \in {"canary"} : told'[r][g] = "rollback"
          /\ \A g \in Groups \ {"canary"} : told'[r][g] = told[r][g]
          /\ \A q \in Reqs \ {r} : told'[q] = told[q]
      BY <2>2, Told
    <3>2. TypeOK'
      BY <1>8, <2>2, <3>1 DEF RollbackCanary, RollbackTargets, Tell, PublishFails, Goto
    <3>3. Rows' /\ RestAfterCanary'
      BY <1>8, <2>2, <3>1 DEF RollbackCanary, RollbackTargets, Tell, PublishFails, Goto
    <3>4. Book' /\ Recorded'
      BY <1>8, <2>2, <3>1 DEF RollbackCanary, RollbackTargets, Tell, PublishFails, Goto
    <3> QED
      BY <3>2, <3>3, <3>4
  <2> QED
    BY <1>8, <2>1, <2>2 DEF RollbackCanary, RollbackTargets
<1>9. ASSUME NEW r \in Reqs, RollbackAll(r) PROVE IInv'
  <2>1. CASE PublishFails(r)
    BY <1>9, <2>1 DEF RollbackAll, RollbackTargets, PublishFails, Tell, Goto
  <2>2. CASE Tell(r, GroupsOf(r), "rollback")
    <3>1. /\ told' \in [Reqs -> [Groups -> {"none", "apply", "rollback"}]]
          /\ \A g \in GroupsOf(r) : told'[r][g] = "rollback"
          /\ \A g \in Groups \ GroupsOf(r) : told'[r][g] = told[r][g]
          /\ \A q \in Reqs \ {r} : told'[q] = told[q]
      BY <2>2, Told
    <3>2. TypeOK'
      BY <1>9, <2>2, <3>1 DEF RollbackAll, RollbackTargets, Tell, PublishFails, Goto
    <3>3. Rows' /\ RestAfterCanary'
      BY <1>9, <2>2, <3>1 DEF RollbackAll, RollbackTargets, Tell, PublishFails, Goto
    <3>4. Book' /\ Recorded'
      BY <1>9, <2>2, <3>1 DEF RollbackAll, RollbackTargets, Tell, PublishFails, Goto
    <3> QED
      BY <3>2, <3>3, <3>4
  <2> QED
    BY <1>9, <2>1, <2>2 DEF RollbackAll, RollbackTargets
<1>10. ASSUME NEW r \in Reqs, NEW early \in BOOLEAN, WindowEnds(r, early) PROVE IInv'
  BY <1>10 DEF WindowEnds, AfterWindow, Watching, Goto
<1>11. ASSUME NEW r \in Reqs, UpdateRolloutStatus(r) PROVE IInv'
  BY <1>11, OwnRecord DEF UpdateRolloutStatus, Goto
<1>12. ASSUME NEW r \in Reqs, Complete(r) PROVE IInv'
  BY <1>12, OwnRecord DEF Complete, Goto
<1>13. CASE UNCHANGED vars
  BY <1>13 DEF vars
<1> HIDE DEF IInv
<1> QED
  BY <1>1, <1>2, <1>3, <1>4, <1>5, <1>6, <1>7, <1>8, <1>9, <1>10, <1>11, <1>12, <1>13, Zenon
     DEF Next, Proceed

(***************************************************************************)
(* The rest of the targets come after a good canary window.                *)
(***************************************************************************)
THEOREM CanaryComesFirst == Spec => []RestAfterCanary
<1>1. IInv => RestAfterCanary
  BY DEF IInv
<1> QED
  BY InitIInv, NextIInv, <1>1, PTL DEF Spec

(***************************************************************************)
(* The outcome in the record of a request with an id of its own is what    *)
(* was published for it.                                                   *)
(***************************************************************************)
THEOREM RecordedOutcomeHolds == Spec => []OutcomeTruthful
<1>1. IInv => OutcomeTruthful
  BY DEF IInv, Recorded, Says, AllApplied, NoneApplied, OutcomeTruthful
<1> QED
  BY InitIInv, NextIInv, <1>1, PTL DEF Spec
(***************************************************************************)
(* A canary rollout is what it says (ebpf.go): the rest follows a good canary*)
(* window only, and the recorded outcome is what the targets were told.    *)
(***************************************************************************)
THEOREM CanaryTruthful == Spec => []CanarySound
<1>1. IInv => TypeOK
  BY DEF IInv
<1> QED
  BY InitIInv, NextIInv, <1>1, CanaryComesFirst, RecordedOutcomeHolds, PTL
     DEF Spec, CanarySound
=============================================================================
