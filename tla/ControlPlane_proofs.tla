------------------------- MODULE ControlPlane_proofs -------------------------
(***************************************************************************)
(* Proofs about components that keep their own state: the detection        *)
(* pipeline's snapshot file, the local agent's telemetry queue, the files  *)
(* of the bpf-registry, the draft controls, detection candidates and audit *)
(* bundles and the fleet readiness of actions-api, and ingest's tracker    *)
(* and stores, for any number of writers, events, requests, artifacts,     *)
(* hosts, drafts, candidates and bundles.                                  *)
(***************************************************************************)
EXTENDS SnapshotFile, TelemetrySender, BpfRegistry, PlatformDrafts, PlatformCandidates,
        PlatformBundles, FleetReadiness, Ingest, Filtering_proofs, FiniteSetTheorems,
        WellFoundedInduction, TLAPS

-----------------------------------------------------------------------------
(***************************************************************************)
(* The snapshot file.  Persists that do not overlap leave a state file that *)
(* is always whole and always the last acknowledged one.  Inv is inductive; *)
(* SerialExclusive carries what the two properties need to know about a    *)
(* persist in flight.                                                      *)
(***************************************************************************)
LEMMA SnapshotInit == Init => Inv
  BY NoneAssumption, DataAssumption
  DEF Init, Inv, TypeOK, SnapInPersist, SerialExclusive, SerialPersistIsAtomic, SerialPersistIsDurable,
      Loadable, Load, Busy, Data, Entry

LEMMA SnapshotStep == Inv /\ [Next]_vars => Inv'
<1> SUFFICES ASSUME Inv, [Next]_vars PROVE Inv'
  OBVIOUS
<1> USE NoneAssumption, DataAssumption
<1> USE DEF Inv, TypeOK, SnapInPersist, Data, Entry
<1>1. ASSUME NEW w \in Writers, NEW c \in Contents, Marshal(w, c)
      PROVE Inv'
  <2>1. TypeOK' /\ SnapInPersist'
    BY <1>1 DEF Marshal, Busy
  <2>2. SerialExclusive'
    <3> SUFFICES ASSUME ~overlap' PROVE SerialExclusive'
      BY DEF SerialExclusive
    <3>1. ~overlap /\ \A v \in Writers : Busy(v)' => v = w
      BY <1>1 DEF Marshal, Busy
    <3>2. pc'[w] = "open" /\ snap'[w] \in Contents /\ path' = path /\ tmp' = tmp
      BY <1>1 DEF Marshal
    <3>3. path # None => path # tmp
      BY <3>1 DEF SerialExclusive
    <3>4. \A v \in Writers : pc'[v] \in {"write", "rename"} => v = w
      BY <3>1 DEF Busy
    <3> QED
      BY <3>1, <3>2, <3>3, <3>4 DEF SerialExclusive
  <2>3. SerialPersistIsAtomic' /\ SerialPersistIsDurable'
    BY <1>1 DEF Marshal, SerialPersistIsAtomic, SerialPersistIsDurable, Loadable, Load
  <2>4. QED
    BY <2>1, <2>2, <2>3
<1>2. ASSUME NEW w \in Writers, OpenTmp(w)
      PROVE Inv'
  <2>1. PICK i \in (IF tmp = None THEN Free ELSE {tmp}) :
           /\ tmp' = i
           /\ data' = [data EXCEPT ![i] = Empty]
           /\ fd' = [fd EXCEPT ![w] = i]
    BY <1>2 DEF OpenTmp
  <2>2. i \in Inodes /\ i # None
    BY <2>1 DEF Free
  <2>3. ~overlap => path # i \/ path = None
    BY <2>1, <2>2 DEF Free, SerialExclusive
  <2>4. TypeOK' /\ SnapInPersist'
    BY <1>2, <2>1, <2>2 DEF OpenTmp, Busy
  <2>5. SerialExclusive'
    BY <1>2, <2>1, <2>2, <2>3 DEF OpenTmp, SerialExclusive, Busy
  <2>6. SerialPersistIsAtomic' /\ SerialPersistIsDurable'
    BY <1>2, <2>1, <2>2, <2>3
    DEF OpenTmp, SerialPersistIsAtomic, SerialPersistIsDurable, Loadable, Load
  <2>7. QED
    BY <2>4, <2>5, <2>6
<1>3. ASSUME NEW w \in Writers, WriteTmp(w)
      PROVE Inv'
  <2>1. PICK d \in WriteOutcomes(fd[w], snap[w]) : data' = [data EXCEPT ![fd[w]] = d]
    BY <1>3 DEF WriteTmp
  <2>2. d \in Data
    BY <2>1 DEF WriteOutcomes
  <2>3. ~overlap => fd[w] = tmp /\ tmp # None /\ tmp \in Inodes /\ d = snap[w]
    BY <1>3, <2>1 DEF WriteTmp, WriteOutcomes, SerialExclusive
  <2>4. TypeOK' /\ SnapInPersist'
    BY <1>3, <2>1, <2>2 DEF WriteTmp, Busy
  <2>5. SerialExclusive'
    BY <1>3, <2>1, <2>3 DEF WriteTmp, SerialExclusive, Busy
  <2>6. SerialPersistIsAtomic' /\ SerialPersistIsDurable'
    BY <1>3, <2>1, <2>3
    DEF WriteTmp, SerialExclusive, SerialPersistIsAtomic, SerialPersistIsDurable, Loadable, Load
  <2>7. QED
    BY <2>4, <2>5, <2>6
<1>4. ASSUME NEW w \in Writers, WriteFails(w)
      PROVE Inv'
  <2>1. ~overlap => fd[w] = tmp /\ tmp # None /\ tmp \in Inodes
    BY <1>4 DEF WriteFails, SerialExclusive
  <2>2. TypeOK' /\ SnapInPersist'
    BY <1>4 DEF WriteFails, Busy
  <2>3. SerialExclusive'
    BY <1>4, <2>1 DEF WriteFails, SerialExclusive, Busy
  <2>4. SerialPersistIsAtomic' /\ SerialPersistIsDurable'
    BY <1>4, <2>1
    DEF WriteFails, SerialExclusive, SerialPersistIsAtomic, SerialPersistIsDurable, Loadable, Load
  <2>5. QED
    BY <2>2, <2>3, <2>4
<1>5. ASSUME NEW w \in Writers, Rename(w)
      PROVE Inv'
  <2>1. TypeOK' /\ SnapInPersist'
    BY <1>5 DEF Rename, Busy
  <2>2. ~overlap => tmp # None /\ data[tmp] = snap[w] /\ snap[w] \in Contents
    BY <1>5 DEF Rename, SerialExclusive, Busy
  <2>3. SerialExclusive'
    BY <1>5, <2>2 DEF Rename, SerialExclusive, Busy
  <2>4. SerialPersistIsAtomic' /\ SerialPersistIsDurable'
    BY <1>5, <2>2
    DEF Rename, SerialPersistIsAtomic, SerialPersistIsDurable, Loadable, Load
  <2>5. QED
    BY <2>1, <2>3, <2>4
<1>6. CASE Crash
  <2>1. TypeOK' /\ SnapInPersist'
    BY <1>6 DEF Crash, Busy
  <2>2. SerialExclusive'
    BY <1>6 DEF Crash, SerialExclusive, Busy
  <2>3. SerialPersistIsAtomic' /\ SerialPersistIsDurable'
    BY <1>6 DEF Crash, SerialPersistIsAtomic, SerialPersistIsDurable, Loadable, Load
  <2>4. QED
    BY <2>1, <2>2, <2>3
<1>7. CASE UNCHANGED vars
  BY <1>7
  DEF vars, SerialExclusive, SerialPersistIsAtomic, SerialPersistIsDurable, Loadable, Load, Busy
<1>8. QED
  BY <1>1, <1>2, <1>3, <1>4, <1>5, <1>6, <1>7 DEF Next

(***************************************************************************)
(* Every reachable state of the persist protocol satisfies Inv.            *)
(***************************************************************************)
THEOREM SnapshotInvariance == Spec => []Inv
  BY SnapshotInit, SnapshotStep, PTL DEF Spec

(***************************************************************************)
(* Non-overlapping persists keep the state file whole at every instant,    *)
(* for any number of writers and any crash or write failure.               *)
(***************************************************************************)
THEOREM PersistAtomicity == Spec => []SerialPersistIsAtomic
<1>1. Inv => SerialPersistIsAtomic
  BY DEF Inv
<1>2. QED
  BY <1>1, SnapshotInvariance, PTL

(***************************************************************************)
(* Non-overlapping persists are durable: a restart loads the snapshot of   *)
(* the last persist that returned nil.                                     *)
(***************************************************************************)
THEOREM PersistDurability == Spec => []SerialPersistIsDurable
<1>1. Inv => SerialPersistIsDurable
  BY DEF Inv
<1>2. QED
  BY <1>1, SnapshotInvariance, PTL

(***************************************************************************)
(* The abstract store: it starts empty, and a step of the file protocol is *)
(* a step of it or changes nothing it shows.                               *)
(***************************************************************************)
LEMMA StoreStarts == Init => Abstract!StoreInit
  BY NoneAssumption DEF Init, Load, Abstract!StoreInit

LEMMA StoreStep ==
  Inv /\ [Next]_vars /\ ~overlap' => Abstract!StoreNext \/ UNCHANGED <<Load, acked, snap>>
<1> SUFFICES ASSUME Inv, [Next]_vars, ~overlap'
             PROVE  Abstract!StoreNext \/ UNCHANGED <<Load, acked, snap>>
  OBVIOUS
<1> USE NoneAssumption, DataAssumption DEF Inv, TypeOK, SnapInPersist, Data, Entry
<1>1. ~overlap
  BY DEF Next, Marshal, OpenTmp, WriteTmp, WriteFails, Rename, Crash, vars
<1>2. ASSUME NEW w \in Writers, NEW c \in Contents, Marshal(w, c)
      PROVE  Abstract!HandIn(w, c)
  BY <1>2 DEF Marshal, Load, Busy, Abstract!HandIn
<1>3. ASSUME NEW w \in Writers, OpenTmp(w) \/ WriteTmp(w) PROVE UNCHANGED <<Load, acked, snap>>
  BY <1>1, <1>3 DEF OpenTmp, WriteTmp, Free, Load, SerialExclusive
<1>4. ASSUME NEW w \in Writers, WriteFails(w) PROVE Abstract!GiveUp(w)
  BY <1>1, <1>4 DEF WriteFails, Load, SerialExclusive, Busy, Abstract!GiveUp
<1>5. ASSUME NEW w \in Writers, Rename(w) PROVE Abstract!Commit(w)
  BY <1>1, <1>5 DEF Rename, Load, SerialExclusive, Busy, Abstract!Commit
<1>6. ASSUME Crash PROVE Abstract!Restart
  BY <1>6 DEF Crash, Load, Abstract!Restart
<1>7. ASSUME UNCHANGED vars PROVE UNCHANGED <<Load, acked, snap>>
  BY <1>7 DEF vars, Load
<1> QED
  BY <1>2, <1>3, <1>4, <1>5, <1>6, <1>7 DEF Next, Abstract!StoreNext

(***************************************************************************)
(* Refinement: a behaviour of the file protocol in which no two persists   *)
(* overlap is one of a store without files, for any number of writers and  *)
(* contents (store.go:85-110).                                             *)
(***************************************************************************)
THEOREM PersistRefinesStore == Spec /\ []~overlap => Abstract!StoreSpec
<1>1. Inv /\ [Next]_vars /\ ~overlap' => [Abstract!StoreNext]_Abstract!storeVars
  BY StoreStep DEF Abstract!storeVars
<1> QED
  BY <1>1, StoreStarts, SnapshotInvariance, PTL DEF Spec, Abstract!StoreSpec

(***************************************************************************)
(* What persist promises to the pipeline: for any number of handlers and   *)
(* any crash or failed write, a restart loads a whole snapshot and the     *)
(* last one acknowledged, which changes as in a store without files,       *)
(* unless two persists have overlapped (store.go:85-110).                  *)
(***************************************************************************)
THEOREM PersistSafety == Spec => SerialPersistIsSafe
<1>1. Inv => TypeOK /\ SerialPersistIsAtomic /\ SerialPersistIsDurable
  BY DEF Inv
<1>2. Inv /\ [Next]_vars =>
         [~overlap' => Abstract!StoreNext \/ UNCHANGED <<Load, acked, snap>>]_vars
  BY StoreStep
<1> QED
  BY <1>1, <1>2, SnapshotInvariance, PTL DEF Spec, SerialPersistIsSafe, SerialPersistIsAStore

-----------------------------------------------------------------------------
(***************************************************************************)
(* The telemetry queue.  What is published is in the order in which it was *)
(* offered, and while the loop runs no event is lost without a word.  Neither *)
(* is inductive: the order needs to know that the channel is in order too and *)
(* ahead of what was delivered, the losses where each number can still be. *)
(***************************************************************************)
LEMMA SenderInit == TelemetryInit => SenderInv
  BY DEF TelemetryInit, SenderInv, SenderTypeOK, InStep, DeliveredInOrder, LossesAreTold, Numbers

(* What Numbers has after the three ways a sequence changes.               *)
LEMMA NumbersAppend ==
    ASSUME NEW s \in Seq(Nat), NEW n \in Nat
    PROVE  Numbers(Append(s, n)) = Numbers(s) \cup {n}
<1>1. /\ DOMAIN s = 1..Len(s) /\ Len(s) \in Nat
      /\ DOMAIN Append(s, n) = 1..(Len(s) + 1)
      /\ \A i \in 1..Len(s) : Append(s, n)[i] = s[i]
      /\ Append(s, n)[Len(s) + 1] = n
  OBVIOUS
<1>2. Numbers(s) \cup {n} \subseteq Numbers(Append(s, n))
  BY <1>1 DEF Numbers
<1>3. ASSUME NEW x \in Numbers(Append(s, n)) PROVE x \in Numbers(s) \cup {n}
  <2>1. PICK i \in 1..(Len(s) + 1) : x = Append(s, n)[i]
    BY <1>1 DEF Numbers
  <2>2. CASE i = Len(s) + 1
    BY <1>1, <2>1, <2>2
  <2>3. CASE i \in 1..Len(s)
    BY <1>1, <2>1, <2>3 DEF Numbers
  <2>4. QED
    BY <1>1, <2>1, <2>2, <2>3
<1>4. QED
  BY <1>2, <1>3

LEMMA NumbersTail ==
    ASSUME NEW s \in Seq(Nat), s # << >>
    PROVE  Numbers(s) = Numbers(Tail(s)) \cup {Head(s)}
<1>1. /\ DOMAIN s = 1..Len(s) /\ Len(s) \in Nat \ {0}
      /\ DOMAIN Tail(s) = 1..(Len(s) - 1)
      /\ \A i \in 1..(Len(s) - 1) : Tail(s)[i] = s[i + 1]
      /\ Head(s) = s[1]
  OBVIOUS
<1>2. Numbers(Tail(s)) \cup {Head(s)} \subseteq Numbers(s)
  BY <1>1 DEF Numbers
<1>3. ASSUME NEW x \in Numbers(s) PROVE x \in Numbers(Tail(s)) \cup {Head(s)}
  <2>1. PICK i \in 1..Len(s) : x = s[i]
    BY <1>1 DEF Numbers
  <2>2. CASE i = 1
    BY <1>1, <2>1, <2>2
  <2>3. CASE i # 1
    <3>1. i - 1 \in 1..(Len(s) - 1) /\ Tail(s)[i - 1] = x
      BY <1>1, <2>1, <2>3
    <3>2. QED
      BY <1>1, <3>1 DEF Numbers
  <2>4. QED
    BY <2>2, <2>3
<1>4. QED
  BY <1>2, <1>3

LEMMA SenderSends == SenderInv /\ SendEvent => SenderInv'
<1> SUFFICES ASSUME SenderInv, SendEvent PROVE SenderInv'
  OBVIOUS
<1> USE DEF SenderInv, SenderTypeOK
<1> DEFINE n == offered + 1
<1>1. /\ n \in Nat /\ offered' = n
      /\ UNCHANGED <<sendLoop, linkUp, delivered, abandoned>>
  BY DEF SendEvent
<1>2. 1..n = (1..offered) \cup {n} /\ n \notin 1..offered
  BY <1>1
<1>3. CASE Len(telemetryQueue) < TelemetryCap
  <2>1. telemetryQueue' = Append(telemetryQueue, n) /\ reported' = reported
    BY <1>3 DEF SendEvent, Offer
  <2>2. SenderTypeOK'
    BY <1>1, <2>1
  <2>3. InStep'
    <3>1. /\ DOMAIN telemetryQueue = 1..Len(telemetryQueue) /\ Len(telemetryQueue) \in Nat
          /\ DOMAIN telemetryQueue' = 1..(Len(telemetryQueue) + 1)
          /\ \A i \in 1..Len(telemetryQueue) : telemetryQueue'[i] = telemetryQueue[i]
          /\ telemetryQueue'[Len(telemetryQueue) + 1] = n
      BY <1>1, <2>1
    <3>2. n \notin reported /\ \A j \in DOMAIN telemetryQueue : telemetryQueue[j] < n
      BY <1>1, <3>1 DEF InStep
    <3>3. \A i \in DOMAIN delivered : delivered[i] < n /\ delivered[i] \in Nat
      BY <1>1 DEF InStep
    <3>4. \A k \in reported : k <= n
      BY <1>1 DEF InStep
    <3>5. QED
      BY <1>1, <2>1, <3>1, <3>2, <3>3, <3>4 DEF InStep
  <2>4. LossesAreTold'
    <3>4. Numbers(telemetryQueue)' = Numbers(telemetryQueue')
      BY DEF Numbers
    <3>1. Numbers(telemetryQueue)' = Numbers(telemetryQueue) \cup {n}
      BY <1>1, <2>1, <3>4, NumbersAppend
    <3>2. Numbers(delivered)' = Numbers(delivered)
      BY <1>1 DEF Numbers
    <3>3. QED
      BY <1>1, <1>2, <2>1, <3>1, <3>2 DEF LossesAreTold
  <2>5. QED
    BY <1>1, <2>2, <2>3, <2>4 DEF DeliveredInOrder
<1>4. CASE ~(Len(telemetryQueue) < TelemetryCap)
  <2>1. telemetryQueue' = telemetryQueue /\ reported' = reported \cup {n}
    BY <1>4 DEF SendEvent, Offer
  <2>2. SenderTypeOK'
    BY <1>1, <2>1
  <2>3. InStep'
    <3>1. \A j \in DOMAIN telemetryQueue : telemetryQueue[j] \in Nat /\ telemetryQueue[j] <= offered
      BY DEF InStep
    <3>2. \A i \in DOMAIN delivered : delivered[i] \in Nat /\ delivered[i] <= offered
      BY DEF InStep
    <3>3. QED
      BY <1>1, <2>1, <3>1, <3>2 DEF InStep
  <2>4. LossesAreTold'
    <3>1. Numbers(telemetryQueue)' = Numbers(telemetryQueue) /\ Numbers(delivered)' = Numbers(delivered)
      BY <1>1, <2>1 DEF Numbers
    <3>2. n \notin Numbers(delivered)
      BY <1>1 DEF InStep, Numbers
    <3>3. QED
      BY <1>1, <1>2, <2>1, <3>1, <3>2 DEF LossesAreTold
  <2>5. QED
    BY <1>1, <2>2, <2>3, <2>4 DEF DeliveredInOrder
<1>5. QED
  BY <1>3, <1>4

LEMMA SenderPublishes == SenderInv /\ PublishEvent => SenderInv'
<1> SUFFICES ASSUME SenderInv, PublishEvent PROVE SenderInv'
  OBVIOUS
<1> USE DEF SenderInv, SenderTypeOK
<1> DEFINE n == Head(telemetryQueue)
<1>1. /\ telemetryQueue # << >> /\ telemetryQueue' = Tail(telemetryQueue)
      /\ UNCHANGED <<sendLoop, linkUp, offered, abandoned>> /\ sendLoop # "stopped"
  BY DEF PublishEvent, FailedPublish
<1>2. /\ Len(telemetryQueue) \in Nat \ {0} /\ DOMAIN telemetryQueue = 1..Len(telemetryQueue)
      /\ n = telemetryQueue[1] /\ n \in Nat
      /\ DOMAIN telemetryQueue' = 1..(Len(telemetryQueue) - 1) /\ telemetryQueue' \in Seq(Nat)
      /\ \A j \in 1..(Len(telemetryQueue) - 1) :
            telemetryQueue'[j] = telemetryQueue[j + 1] /\ j + 1 \in DOMAIN telemetryQueue
  BY <1>1
<1> DEFINE q == telemetryQueue
           d == delivered
<1>3. /\ 1 \in DOMAIN q /\ n = q[1]
      /\ \A j \in DOMAIN q' : j \in Nat /\ j + 1 \in DOMAIN q /\ 1 < j + 1 /\ q'[j] = q[j + 1]
      /\ \A j \in DOMAIN q : q[j] \in Nat
      /\ \A i \in DOMAIN d : d[i] \in Nat
  BY <1>2, SMTT(20)
<1>4. /\ \A i, j \in DOMAIN q : i < j => q[i] < q[j]
      /\ \A i \in DOMAIN d, j \in DOMAIN q : d[i] < q[j]
      /\ \A j \in DOMAIN q : q[j] <= offered /\ q[j] \notin reported
      /\ \A i \in DOMAIN d : d[i] <= offered
  BY DEF InStep
<1> HIDE DEF n, q, d, SenderInv, SenderTypeOK
<1>5. n <= offered /\ n \notin reported /\ \A i \in DOMAIN d : d[i] < n
  BY <1>3, <1>4
<1>6. \A j \in DOMAIN q' : q'[j] \in Nat /\ n < q'[j]
  BY <1>3, <1>4
<1>7. /\ \A i, j \in DOMAIN q' : i < j => q'[i] < q'[j]
      /\ \A i \in DOMAIN d, j \in DOMAIN q' : d[i] < q'[j]
      /\ \A j \in DOMAIN q' : q'[j] <= offered /\ q'[j] \notin reported
  BY <1>3, <1>4
<1> USE DEF n, q, d, SenderInv, SenderTypeOK
<1>8. Numbers(telemetryQueue) = Numbers(telemetryQueue') \cup {n}
  BY <1>1, NumbersTail
<1>9. abandoned = {}
  BY <1>1 DEF InStep
<1>10. CASE linkUp
  <2>1. delivered' = Append(delivered, n) /\ reported' = reported
    BY <1>10 DEF PublishEvent
  <2>2. /\ DOMAIN delivered = 1..Len(delivered) /\ Len(delivered) \in Nat
        /\ DOMAIN delivered' = 1..(Len(delivered) + 1)
        /\ \A i \in 1..Len(delivered) : delivered'[i] = delivered[i]
        /\ delivered'[Len(delivered) + 1] = n
    BY <1>2, <2>1
  <2>3. SenderTypeOK'
    BY <1>1, <1>2, <2>1
  <2>4. InStep'
    <3>1. \A i, j \in DOMAIN telemetryQueue' : i < j => telemetryQueue'[i] < telemetryQueue'[j]
      BY <1>7
    <3>2. \A i \in DOMAIN delivered', j \in DOMAIN telemetryQueue' : delivered'[i] < telemetryQueue'[j]
      BY <1>6, <1>7, <2>2, SMTT(20)
    <3>3. \A j \in DOMAIN telemetryQueue' : telemetryQueue'[j] <= offered /\ telemetryQueue'[j] \notin reported
      BY <1>7
    <3>4. \A i \in DOMAIN delivered' : delivered'[i] <= offered
      BY <1>5, <1>4, <2>2, SMTT(20)
    <3>5. QED
      BY <1>1, <1>9, <2>1, <3>1, <3>2, <3>3, <3>4 DEF InStep
  <2>5. DeliveredInOrder'
    <3>1. \A i, j \in 1..Len(delivered) : i < j => delivered[i] < delivered[j]
      BY <2>2 DEF DeliveredInOrder
    <3>2. \A i, j \in DOMAIN delivered' : i < j => delivered'[i] < delivered'[j]
      <4> HIDE DEF n, SenderInv, SenderTypeOK
      <4> QED
        BY <1>5, <2>2, <3>1
    <3>3. QED
      BY <3>2 DEF DeliveredInOrder
  <2>6. LossesAreTold'
    <3>4. Numbers(delivered)' = Numbers(delivered')
      BY DEF Numbers
    <3>1. Numbers(delivered)' = Numbers(delivered) \cup {n}
      BY <1>2, <2>1, <3>4, NumbersAppend
    <3>2. Numbers(telemetryQueue)' = Numbers(telemetryQueue')
      BY DEF Numbers
    <3>3. QED
      BY <1>1, <1>5, <1>8, <1>9, <2>1, <3>1, <3>2 DEF LossesAreTold
  <2>7. QED
    BY <2>3, <2>4, <2>5, <2>6
<1>11. CASE ~linkUp
  <2>1. delivered' = delivered /\ reported' = reported \cup {n}
    BY <1>11 DEF PublishEvent, FailedPublish
  <2>2. SenderTypeOK'
    BY <1>1, <1>2, <2>1
  <2>3. InStep'
    <3>1. \A i, j \in DOMAIN telemetryQueue' : i < j => telemetryQueue'[i] < telemetryQueue'[j]
      BY <1>7
    <3>2. \A i \in DOMAIN delivered, j \in DOMAIN telemetryQueue' : delivered[i] < telemetryQueue'[j]
      BY <1>7
    <3>3. \A j \in DOMAIN telemetryQueue' : telemetryQueue'[j] <= offered /\ telemetryQueue'[j] \notin reported'
      BY <1>6, <1>7, <2>1
    <3>4. QED
      BY <1>1, <1>5, <1>9, <2>1, <3>1, <3>2, <3>3 DEF InStep
  <2>4. LossesAreTold'
    <3>1. Numbers(delivered)' = Numbers(delivered) /\ Numbers(telemetryQueue)' = Numbers(telemetryQueue')
      BY <2>1 DEF Numbers
    <3>2. n \notin Numbers(delivered)
      BY <1>5, <1>2 DEF Numbers
    <3>3. QED
      BY <1>1, <1>8, <1>9, <2>1, <3>1, <3>2 DEF LossesAreTold
  <2>5. QED
    BY <2>1, <2>2, <2>3, <2>4 DEF DeliveredInOrder
<1>12. QED
  BY <1>10, <1>11

(* The inductive step, one case per action. *)
LEMMA SenderStep == SenderInv /\ [TelemetryNext]_telemetryVars => SenderInv'
<1> SUFFICES ASSUME SenderInv, [TelemetryNext]_telemetryVars PROVE SenderInv'
  OBVIOUS
<1> USE DEF SenderInv, SenderTypeOK, InStep, DeliveredInOrder, LossesAreTold, Numbers
<1>1. CASE SendEvent \/ SendAgentHeartbeat
  BY <1>1, SenderSends DEF SendAgentHeartbeat
<1>2. CASE PublishEvent
  BY <1>2, SenderPublishes
<1>3. CASE StopSender
  BY <1>3 DEF StopSender
<1>4. CASE LoopEnds
  BY <1>4 DEF LoopEnds
<1>5. CASE LinkChanges
  BY <1>5 DEF LinkChanges
<1>6. CASE UNCHANGED telemetryVars
  BY <1>6 DEF telemetryVars
<1>7. QED
  BY <1>1, <1>2, <1>3, <1>4, <1>5, <1>6 DEF TelemetryNext

(* Whatever the capacity of the channel, subscribers get the events of an  *)
(* agent in the order in which they were offered, each once (sendLoop).    *)
THEOREM TelemetryInOrder == TelemetrySpec => []DeliveredInOrder
<1>1. SenderInv => DeliveredInOrder
  BY DEF SenderInv
<1>2. QED
  BY SenderInit, SenderStep, <1>1, PTL DEF TelemetrySpec

(* Whatever the capacity of the channel and however often publishing       *)
(* fails, an event is delivered, in the channel, or its loss was reported. *)
THEOREM TelemetryLossesTold == TelemetrySpec => []LossesAreTold
<1>1. SenderInv => LossesAreTold
  BY DEF SenderInv
<1>2. QED
  BY SenderInit, SenderStep, <1>1, PTL DEF TelemetrySpec

(* The sender's queue as its callers rely on it, for every capacity and    *)
(* every number of events: in order, each once, no loss without a word     *)
(* while the loop runs (sender.go).                                        *)
THEOREM TelemetryKept == TelemetrySpec => []TelemetrySound
<1>1. SenderInv => TelemetrySound
  BY DEF SenderInv, TelemetrySound
<1>2. QED
  BY SenderInit, SenderStep, <1>1, PTL DEF TelemetrySpec
-----------------------------------------------------------------------------
(***************************************************************************)
(* The files of the bpf-registry.                                          *)
(***************************************************************************)
LEMMA MembersAssigned ==
  ASSUME NEW s \in Seq(RegHosts), NEW h \in RegHosts
  PROVE  Assigned(s, h) \in Seq(RegHosts) /\ Members(Assigned(s, h)) = Members(s) \cup {h}
<1>1. CASE h \in Members(s)
  BY <1>1 DEF Assigned, Members
<1>2. CASE h \notin Members(s)
  <2>1. PICK t : t = Append(s, h)
    OBVIOUS
  <2>2. /\ DOMAIN s = 1..Len(s) /\ Len(s) \in Nat /\ DOMAIN t = 1..(Len(s) + 1)
        /\ t[Len(s) + 1] = h /\ \A i \in 1..Len(s) : t[i] = s[i]
    BY <2>1
  <2>3. {t[i] : i \in 1..(Len(s) + 1)} = {s[i] : i \in 1..Len(s)} \cup {h}
    BY <2>2
  <2>4. t \in Seq(RegHosts) /\ t = Assigned(s, h)
    BY <1>2, <2>1 DEF Assigned
  <2> QED
    BY <2>2, <2>3, <2>4 DEF Members
<1> QED
  BY <1>1, <1>2

LEMMA MembersUnassigned ==
  ASSUME NEW s \in Seq(RegHosts), NEW h \in RegHosts
  PROVE  Unassigned(s, h) \in Seq(RegHosts) /\ Members(Unassigned(s, h)) = Members(s) \ {h}
<1>1. PICK t : t = Unassigned(s, h) /\ t = Kept(s, {h})
  BY DEF Unassigned
<1>2. t \in Seq(RegHosts) /\ \A x : Contains(t, x) <=> (x \notin {h} /\ Contains(s, x))
  BY <1>1, KeptElements
<1>3. DOMAIN t = 1..Len(t) /\ DOMAIN s = 1..Len(s)
  BY <1>2
<1>4. {t[i] : i \in 1..Len(t)} = {s[i] : i \in 1..Len(s)} \ {h}
  BY <1>2 DEF Contains
<1> QED
  BY <1>1, <1>2, <1>3, <1>4 DEF Members

(***************************************************************************)
(* What is left of a request, and what it must find on disk: while it      *)
(* writes the binary it is alone with an artifact that has no metadata,    *)
(* and metadata are only ever written beside a whole binary.               *)
(***************************************************************************)
ToStart == PutOrder
ToFill == Tail(ToStart)
ToEmpty == Tail(ToFill)
ToWrite == Tail(ToEmpty)
ToAnswer == Tail(ToWrite)

MetaRec == [hosts : Seq(RegHosts), whole : BOOLEAN, size : Nat]
OpRec == [art : ArtIds, steps : {ToStart, ToFill, ToEmpty, ToWrite, ToAnswer},
          hosts : Seq(RegHosts), wish : SUBSET RegHosts]

RegType ==
    /\ bin \in [ArtIds -> {NoFile, "cut", "whole"}]
    /\ meta \in [ArtIds -> MetaRec \cup {NoFile}]
    /\ op \in [RegWorkers -> OpRec \cup {NoOp}]
    /\ expected \in [ArtIds -> SUBSET RegHosts]
    /\ created \subseteq ArtIds /\ disturbed \subseteq ArtIds

On(w, a) == op[w] # NoOp /\ op[w].art = a
Alone(w, a) == On(w, a) /\ \A x \in RegWorkers : On(x, a) => x = w

FilesOK(a) ==
    /\ meta[a] # NoFile => bin[a] = "whole"
    /\ a \in created => meta[a] # NoFile
    /\ \A w \in RegWorkers : On(w, a) =>
          \/ op[w].steps \in {ToStart, ToFill} /\ meta[a] = NoFile /\ Alone(w, a)
          \/ op[w].steps = ToEmpty /\ bin[a] = "whole"
          \/ op[w].steps \in {ToWrite, ToAnswer} /\ meta[a] # NoFile

(***************************************************************************)
(* For an artifact that was not disturbed: at most one request works on    *)
(* it, and its metadata are those of the acknowledged requests before, and *)
(* those of this one after its write; after a failed write they cannot be  *)
(* read, and no request gets as far as working on it.                      *)
(***************************************************************************)
Holds(a, hosts) == meta[a] # NoFile /\ meta[a].whole /\ Members(meta[a].hosts) = hosts
Unread(a) == meta[a] # NoFile /\ ~meta[a].whole

ListsOK(a) ==
    /\ (\A w \in RegWorkers : ~On(w, a)) /\ meta[a] # NoFile /\ a \notin failed => Holds(a, expected[a])
    /\ a \in failed => Unread(a)
    /\ \A w \in RegWorkers : On(w, a) =>
          /\ Alone(w, a) /\ a \notin failed /\ Members(op[w].hosts) = op[w].wish
          /\ op[w].steps = ToEmpty /\ meta[a] # NoFile => Holds(a, expected[a])
          /\ op[w].steps = ToWrite => meta[a].size = 0 /\ Unread(a)
          /\ op[w].steps = ToAnswer => Holds(a, op[w].wish)

RegInv ==
    /\ RegType
    /\ \A a \in ArtIds : FilesOK(a) /\ (a \notin disturbed => ListsOK(a))

LEMMA PlanSteps ==
  /\ ToStart = <<"bin0", "bin1", "meta0", "meta1", "ack">> /\ ToFill = <<"bin1", "meta0", "meta1", "ack">>
  /\ ToEmpty = <<"meta0", "meta1", "ack">> /\ ToWrite = <<"meta1", "ack">> /\ ToAnswer = <<"ack">>
  /\ Head(ToStart) = "bin0" /\ Head(ToFill) = "bin1" /\ Head(ToEmpty) = "meta0"
  /\ Head(ToWrite) = "meta1" /\ Head(ToAnswer) = "ack" /\ Tail(ToAnswer) = << >>
  /\ ToFill # << >> /\ ToEmpty # << >> /\ ToWrite # << >> /\ ToAnswer # << >>
  /\ Len(ToStart) = 5 /\ Len(ToFill) = 4 /\ Len(ToEmpty) = 3 /\ Len(ToWrite) = 2 /\ Len(ToAnswer) = 1
  /\ {ToStart, ToFill, ToEmpty, ToWrite, ToAnswer} \subseteq Seq(FileSteps)
<1>1. ToStart = <<"bin0", "bin1", "meta0", "meta1", "ack">>
  BY DEF ToStart, PutOrder
<1>2. ToFill = <<"bin1", "meta0", "meta1", "ack">>
  BY <1>1 DEF ToFill
<1>3. ToEmpty = <<"meta0", "meta1", "ack">>
  BY <1>2 DEF ToEmpty
<1>4. ToWrite = <<"meta1", "ack">>
  BY <1>3 DEF ToWrite
<1>5. ToAnswer = <<"ack">>
  BY <1>4 DEF ToAnswer
<1>6. /\ Head(ToStart) = "bin0" /\ Head(ToFill) = "bin1" /\ Head(ToEmpty) = "meta0"
      /\ Head(ToWrite) = "meta1" /\ Head(ToAnswer) = "ack" /\ Tail(ToAnswer) = << >>
  BY <1>1, <1>2, <1>3, <1>4, <1>5
<1>7. /\ Len(ToStart) = 5 /\ Len(ToFill) = 4 /\ Len(ToEmpty) = 3 /\ Len(ToWrite) = 2 /\ Len(ToAnswer) = 1
  BY <1>1, <1>2, <1>3, <1>4, <1>5
<1>8. ToFill # << >> /\ ToEmpty # << >> /\ ToWrite # << >> /\ ToAnswer # << >>
  <2>1. Len(<< >>) = 0
    OBVIOUS
  <2> QED
    BY <1>7, <2>1
<1>9. {ToStart, ToFill, ToEmpty, ToWrite, ToAnswer} \subseteq Seq(FileSteps)
  <2>1. ToStart \in Seq(FileSteps) /\ ToFill \in Seq(FileSteps)
    BY <1>1, <1>2 DEF FileSteps
  <2>2. ToEmpty \in Seq(FileSteps) /\ ToWrite \in Seq(FileSteps) /\ ToAnswer \in Seq(FileSteps)
    BY <1>3, <1>4, <1>5 DEF FileSteps
  <2> QED
    BY <2>1, <2>2
<1> QED
  BY <1>1, <1>2, <1>3, <1>4, <1>5, <1>6, <1>7, <1>8, <1>9

LEMMA RegInvSound == RegInv => ArtifactsSound
<1> SUFFICES ASSUME RegInv PROVE ArtifactsSound
  OBVIOUS
<1>1. ServedIsWhole
  BY DEF RegInv, FilesOK, ServedIsWhole, Gettable, Readable
<1>2. ForHostExact
  <2> SUFFICES ASSUME NEW a \in created \ disturbed, Inflight(a) = {}, NEW h \in RegHosts
               PROVE  a \in ForHost(h) <=> a \notin failed /\ h \in expected[a]
    BY DEF ForHostExact
  <2>1. a \in ArtIds /\ meta[a] # NoFile /\ bin[a] = "whole" /\ bin[a] # NoFile
    BY BpfRegistryAssumption DEF RegInv, RegType, FilesOK
  <2>2. \A w \in RegWorkers : ~On(w, a)
    BY DEF Inflight, On
  <2>3. IF a \in failed THEN Unread(a) ELSE Holds(a, expected[a])
    BY <2>1, <2>2 DEF RegInv, ListsOK
  <2> QED
    BY <2>1, <2>3 DEF Holds, Unread, ForHost, Gettable, Readable
<1> QED
  BY <1>1, <1>2 DEF ArtifactsSound

LEMMA InitReg == RegInit => RegInv
<1> SUFFICES ASSUME RegInit PROVE RegInv
  OBVIOUS
<1>1. RegType
  BY DEF RegInit, RegType
<1>2. \A a \in ArtIds : FilesOK(a)
  BY DEF RegInit, FilesOK, On
<1>3. \A a \in ArtIds : ListsOK(a)
  BY DEF RegInit, ListsOK, On
<1> QED
  BY <1>1, <1>2, <1>3 DEF RegInv

(***************************************************************************)
(* A step of a worker leaves the artifacts it does not work on alone.      *)
(***************************************************************************)
LEMMA OtherArtifacts ==
  ASSUME RegInv, NEW w \in RegWorkers, NEW a \in ArtIds, NEW q, op' = [op EXCEPT ![w] = q],
         op[w] # NoOp => op[w].art = a, q # NoOp => q.art = a,
         disturbed \subseteq disturbed', NEW b \in ArtIds \ {a},
         bin'[b] = bin[b], meta'[b] = meta[b], expected'[b] = expected[b],
         b \in created' => b \in created, b \in failed' <=> b \in failed
  PROVE  FilesOK(b)' /\ (b \notin disturbed' => ListsOK(b)')
<1>1. op'[w] = q /\ \A x \in RegWorkers \ {w} : op'[x] = op[x]
  BY DEF RegInv, RegType
<1>2. \A x \in RegWorkers : (On(x, b)' <=> On(x, b)) /\ (On(x, b) => op'[x] = op[x])
  BY <1>1 DEF On
<1>3. \A x \in RegWorkers : Alone(x, b)' <=> Alone(x, b)
  BY <1>2 DEF Alone
<1>4. FilesOK(b) /\ (b \notin disturbed => ListsOK(b))
  BY DEF RegInv
<1>5. FilesOK(b)'
  BY <1>2, <1>3, <1>4 DEF FilesOK
<1>6. ASSUME b \notin disturbed' PROVE ListsOK(b)'
  <2>1. ListsOK(b)
    BY <1>4, <1>6
  <2>2. (\A hosts : Holds(b, hosts)' <=> Holds(b, hosts)) /\ (Unread(b)' <=> Unread(b))
    BY DEF Holds, Unread
  <2>3. /\ (\A x \in RegWorkers : ~On(x, b)') /\ meta'[b] # NoFile /\ b \notin failed' => Holds(b, expected[b])'
        /\ b \in failed' => Unread(b)'
    BY <1>2, <2>1 DEF ListsOK, Holds, Unread
  <2>4. ASSUME NEW x \in RegWorkers, On(x, b)'
        PROVE  /\ Alone(x, b)' /\ b \notin failed' /\ Members(op'[x].hosts) = op'[x].wish
               /\ op'[x].steps = ToEmpty /\ meta'[b] # NoFile => Holds(b, expected[b])'
               /\ op'[x].steps = ToWrite => meta'[b].size = 0 /\ Unread(b)'
               /\ op'[x].steps = ToAnswer => Holds(b, op[x].wish)'
    <3>1. op'[x] = op[x] /\ On(x, b)
      BY <1>2, <2>4
    <3> QED
      BY <3>1, <1>3, <2>1 DEF ListsOK, Holds, Unread
  <2> QED
    BY <2>3, <2>4 DEF ListsOK
<1> QED
  BY <1>5, <1>6

LEMMA StoreArtifactStep ==
  ASSUME RegInv, NEW w \in RegWorkers, NEW a \in ArtIds, StoreArtifact(w, a)
  PROVE  RegInv'
<1>1. PICK q : q = [art |-> a, steps |-> ToStart, hosts |-> << >>, wish |-> {}]
  OBVIOUS
<1>2. /\ op[w] = NoOp /\ meta[a] = NoFile /\ Inflight(a) = {} /\ op' = [op EXCEPT ![w] = q]
      /\ UNCHANGED <<bin, meta, expected, created, disturbed, failed>>
  BY <1>1 DEF StoreArtifact, ToStart
<1>3. /\ q \in OpRec /\ q.art = a /\ q.steps = ToStart /\ q.hosts = << >> /\ q.wish = {}
  BY <1>1 DEF OpRec
<1>4. q # NoOp
  <2>1. ToStart \in Seq(FileSteps)
    BY PlanSteps
  <2>2. PICK none : none = << >>
    OBVIOUS
  <2>3. q = [art |-> a, steps |-> ToStart, hosts |-> none, wish |-> {}] /\ none \in Seq(RegHosts)
    BY <2>2, <1>1
  <2>4. q \in [art : ArtIds, steps : Seq(FileSteps), hosts : Seq(RegHosts), wish : SUBSET RegHosts]
    BY <2>1, <2>3
  <2> QED
    BY <2>4, BpfRegistryAssumption
<1>5. RegType'
  BY <1>2, <1>3 DEF RegInv, RegType
<1>6. op'[w] = q /\ \A x \in RegWorkers \ {w} : op'[x] = op[x]
  BY <1>2 DEF RegInv, RegType
<1>7. Alone(w, a)' /\ \A x \in RegWorkers : On(x, a)' <=> x = w
  BY <1>2, <1>3, <1>4, <1>6 DEF Alone, On, Inflight
<1>8. FilesOK(a)'
  <2>1. FilesOK(a)
    BY DEF RegInv
  <2> QED
    BY <2>1, <1>2, <1>3, <1>6, <1>7 DEF FilesOK
<1>9. ASSUME a \notin disturbed' PROVE ListsOK(a)'
  <2>1. Members(q.hosts) = {}
    BY <1>3 DEF Members
  <2>2. ToStart # ToWrite /\ ToStart # ToAnswer
    BY PlanSteps
  <2>3. a \notin failed
    <3>1. ~Unread(a) /\ ListsOK(a)
      BY <1>2, <1>9 DEF RegInv, Unread
    <3> QED
      BY <3>1 DEF ListsOK
  <2> QED
    BY <2>1, <2>2, <2>3, <1>2, <1>3, <1>6, <1>7 DEF ListsOK, Unread
<1>10. ASSUME NEW b \in ArtIds \ {a} PROVE FilesOK(b)' /\ (b \notin disturbed' => ListsOK(b)')
  BY <1>2, <1>3, OtherArtifacts
<1> QED
  BY <1>5, <1>8, <1>9, <1>10 DEF RegInv

LEMMA BeginUpdateStep ==
  ASSUME RegInv, NEW w \in RegWorkers, NEW a \in ArtIds, NEW hosts \in Seq(RegHosts),
         NEW wish \in SUBSET RegHosts, NEW always \in BOOLEAN,
         Holds(a, expected[a]) => Members(hosts) = wish,
         BeginUpdate(w, a, hosts, wish, always)
  PROVE  RegInv'
<1>1. PICK t : t = IF always \/ hosts # meta[a].hosts THEN <<"meta0", "meta1", "ack">> ELSE <<"ack">>
  OBVIOUS
<1>2. PICK q : q = [art |-> a, hosts |-> hosts, wish |-> wish, steps |-> t]
  OBVIOUS
<1>3. /\ op[w] = NoOp /\ Gettable(a) /\ op' = [op EXCEPT ![w] = q]
      /\ disturbed' = (IF Inflight(a) # {} THEN disturbed \cup {a} ELSE disturbed)
      /\ UNCHANGED <<bin, meta, expected, created, failed>>
  BY <1>1, <1>2 DEF BeginUpdate
<1>4. t \in {ToEmpty, ToAnswer} /\ (t = ToAnswer => hosts = meta[a].hosts)
  <2>1. ToEmpty # ToAnswer
    BY PlanSteps
  <2> QED
    BY <2>1, <1>1, PlanSteps
<1>5. q \in OpRec /\ q.art = a /\ q.steps = t /\ q.hosts = hosts /\ q.wish = wish
  BY <1>2, <1>4 DEF OpRec
<1>6. q # NoOp
  <2>1. t \in Seq(FileSteps)
    BY <1>4, PlanSteps
  <2> QED
    BY <1>2, <2>1, BpfRegistryAssumption
<1>7. RegType'
  BY <1>3, <1>5 DEF RegInv, RegType
<1>8. op'[w] = q /\ \A x \in RegWorkers \ {w} : op'[x] = op[x]
  BY <1>3 DEF RegInv, RegType
<1>9. FilesOK(a)'
  <2>1. FilesOK(a) /\ meta[a] # NoFile /\ bin[a] = "whole"
    BY <1>3 DEF RegInv, FilesOK, Gettable, Readable
  <2>2. ASSUME NEW x \in RegWorkers, On(x, a)'
        PROVE  \/ op'[x].steps = ToEmpty /\ bin'[a] = "whole"
               \/ op'[x].steps \in {ToWrite, ToAnswer} /\ meta'[a] # NoFile
    <3>1. CASE x = w
      BY <3>1, <2>1, <1>3, <1>4, <1>5, <1>8
    <3>2. CASE x # w
      BY <3>2, <2>1, <2>2, <1>3, <1>8 DEF FilesOK, On
    <3> QED
      BY <3>1, <3>2
  <2> QED
    BY <2>1, <2>2, <1>3 DEF FilesOK
<1>10. ASSUME a \notin disturbed' PROVE ListsOK(a)'
  <2>1. Inflight(a) = {} /\ a \notin disturbed
    BY <1>3, <1>10
  <2>2. Alone(w, a)' /\ \A x \in RegWorkers : On(x, a)' <=> x = w
    BY <2>1, <1>5, <1>6, <1>8 DEF Alone, On, Inflight
  <2>3. a \notin failed /\ Holds(a, expected[a])
    <3>1. ListsOK(a) /\ meta[a] # NoFile /\ ~Unread(a) /\ \A x \in RegWorkers : ~On(x, a)
      BY <2>1, <1>3 DEF RegInv, On, Inflight, Gettable, Readable, Unread
    <3> QED
      BY <3>1 DEF ListsOK
  <2>4. ToEmpty # ToWrite /\ ToAnswer # ToWrite /\ ToEmpty # ToAnswer
    BY PlanSteps
  <2>5. t = ToAnswer => Holds(a, wish)'
    BY <2>3, <1>3, <1>4 DEF Holds
  <2> QED
    BY <2>2, <2>3, <2>4, <2>5, <1>3, <1>4, <1>5, <1>8 DEF ListsOK, Holds
<1>11. ASSUME NEW b \in ArtIds \ {a} PROVE FilesOK(b)' /\ (b \notin disturbed' => ListsOK(b)')
  BY <1>3, <1>5, OtherArtifacts
<1> QED
  BY <1>7, <1>9, <1>10, <1>11 DEF RegInv

(***************************************************************************)
(* The file operations of a request, one after the other.                  *)
(***************************************************************************)
LEMMA FileStep ==
  ASSUME RegInv, NEW w \in RegWorkers, Step(w)
  PROVE  RegInv'
<1>1. PICK r \in OpRec : r = op[w] /\ r # NoOp
  BY DEF Step, RegInv, RegType
<1>2. PICK a \in ArtIds : a = r.art
  BY <1>1 DEF OpRec
<1>3. r.steps \in {ToStart, ToFill, ToEmpty, ToWrite, ToAnswer} /\ r.hosts \in Seq(RegHosts)
      /\ r.wish \subseteq RegHosts
  BY <1>1 DEF OpRec
<1>4. PICK s, t : s = Head(r.steps) /\ t = Tail(r.steps)
  OBVIOUS
<1>5. PICK q : q = IF t = << >> THEN NoOp ELSE [r EXCEPT !.steps = t]
  OBVIOUS
<1>6. /\ bin' = (CASE s = "bin0" -> [bin EXCEPT ![a] = "cut"]
                   [] s = "bin1" -> [bin EXCEPT ![a] = "whole"]
                   [] OTHER      -> bin)
      /\ meta' = (CASE s = "meta0" -> [meta EXCEPT ![a] = Truncated]
                    [] s = "meta1" -> [meta EXCEPT ![a] = Written(@, r.hosts)]
                    [] OTHER       -> meta)
      /\ created' = (IF s = "ack" THEN created \cup {a} ELSE created)
      /\ expected' = (IF s = "ack" THEN [expected EXCEPT ![a] = r.wish] ELSE expected)
      /\ op' = [op EXCEPT ![w] = q]
      /\ UNCHANGED <<disturbed, failed>>
  BY <1>1, <1>2, <1>4, <1>5 DEF Step
<1>7. op'[w] = q /\ \A x \in RegWorkers \ {w} : op'[x] = op[x]
  BY <1>6 DEF RegInv, RegType
<1>8. On(w, a) /\ FilesOK(a) /\ (a \notin disturbed => ListsOK(a) /\ Alone(w, a))
  <2>1. On(w, a) /\ FilesOK(a) /\ (a \notin disturbed => ListsOK(a))
    BY <1>1, <1>2 DEF On, RegInv
  <2> QED
    BY <2>1 DEF ListsOK
<1>9. ASSUME NEW u, u \in {ToFill, ToEmpty, ToWrite, ToAnswer}, t = u
      PROVE  /\ q \in OpRec /\ q # NoOp /\ q.art = a /\ q.steps = u /\ q.hosts = r.hosts /\ q.wish = r.wish
             /\ \A x \in RegWorkers : (On(x, a)' <=> On(x, a)) /\ (Alone(x, a)' <=> Alone(x, a))
  <2>1. t # << >> /\ t \in Seq(FileSteps)
    BY <1>9, PlanSteps
  <2>2. q = [r EXCEPT !.steps = u]
    BY <1>5, <1>9, <2>1
  <2>3. q \in OpRec /\ q.art = a /\ q.steps = u /\ q.hosts = r.hosts /\ q.wish = r.wish
    BY <2>2, <1>1, <1>2, <1>9 DEF OpRec
  <2>4. q # NoOp
    <3>1. q \in [art : ArtIds, steps : Seq(FileSteps), hosts : Seq(RegHosts), wish : SUBSET RegHosts]
      BY <2>1, <2>2, <1>1, <1>9 DEF OpRec
    <3> QED
      BY <3>1, BpfRegistryAssumption
  <2>5. \A x \in RegWorkers : On(x, a)' <=> On(x, a)
    BY <2>3, <2>4, <1>1, <1>2, <1>7 DEF On
  <2> QED
    BY <2>3, <2>4, <2>5 DEF Alone
<1>10. ASSUME RegType', q # NoOp => q.art = a, FilesOK(a)', a \notin disturbed => ListsOK(a)'
       PROVE  RegInv'
  <2>1. ASSUME NEW b \in ArtIds \ {a} PROVE FilesOK(b)' /\ (b \notin disturbed' => ListsOK(b)')
    <3>1. bin'[b] = bin[b] /\ meta'[b] = meta[b]
      BY <1>6 DEF RegInv, RegType
    <3>2. expected'[b] = expected[b] /\ (b \in created' => b \in created)
      BY <1>6 DEF RegInv, RegType
    <3> QED
      BY <3>1, <3>2, <1>1, <1>2, <1>6, <1>10, OtherArtifacts
  <2> QED
    BY <2>1, <1>6, <1>10 DEF RegInv
<1>11. CASE r.steps = ToStart
  <2>1. s = "bin0" /\ t = ToFill
    BY <1>4, <1>11, PlanSteps DEF ToFill
  <2>2. /\ q \in OpRec /\ q # NoOp /\ q.art = a /\ q.steps = ToFill /\ q.hosts = r.hosts /\ q.wish = r.wish
        /\ \A x \in RegWorkers : (On(x, a)' <=> On(x, a)) /\ (Alone(x, a)' <=> Alone(x, a))
    BY <2>1, <1>9
  <2>3. bin' = [bin EXCEPT ![a] = "cut"] /\ UNCHANGED <<meta, created, expected>>
    BY <2>1, <1>6
  <2>4. RegType'
    BY <2>2, <2>3, <1>6 DEF RegInv, RegType
  <2>5. meta[a] = NoFile /\ Alone(w, a)
    BY <1>1, <1>8, <1>11, PlanSteps DEF FilesOK
  <2>6. \A x \in RegWorkers : On(x, a)' => x = w
    BY <2>2, <2>5 DEF Alone
  <2>7. FilesOK(a)'
    BY <2>2, <2>3, <2>5, <2>6, <1>7, <1>8 DEF FilesOK
  <2>8. ASSUME a \notin disturbed PROVE ListsOK(a)'
    <3>1. Members(r.hosts) = r.wish /\ ToFill # ToWrite /\ ToFill # ToAnswer /\ a \notin failed
      BY <2>8, <1>1, <1>8, PlanSteps DEF ListsOK
    <3> QED
      BY <3>1, <2>2, <2>3, <2>5, <2>6, <1>6, <1>7 DEF ListsOK
  <2> QED
    BY <2>2, <2>4, <2>7, <2>8, <1>10
<1>12. CASE r.steps = ToFill
  <2>1. s = "bin1" /\ t = ToEmpty
    BY <1>4, <1>12, PlanSteps DEF ToEmpty
  <2>2. /\ q \in OpRec /\ q # NoOp /\ q.art = a /\ q.steps = ToEmpty /\ q.hosts = r.hosts /\ q.wish = r.wish
        /\ \A x \in RegWorkers : (On(x, a)' <=> On(x, a)) /\ (Alone(x, a)' <=> Alone(x, a))
    BY <2>1, <1>9
  <2>3. bin' = [bin EXCEPT ![a] = "whole"] /\ UNCHANGED <<meta, created, expected>>
    BY <2>1, <1>6
  <2>4. RegType'
    BY <2>2, <2>3, <1>6 DEF RegInv, RegType
  <2>5. meta[a] = NoFile /\ Alone(w, a) /\ bin'[a] = "whole"
    BY <2>3, <1>1, <1>8, <1>12, PlanSteps DEF FilesOK, RegInv, RegType
  <2>6. \A x \in RegWorkers : On(x, a)' => x = w
    BY <2>2, <2>5 DEF Alone
  <2>7. FilesOK(a)'
    BY <2>2, <2>3, <2>5, <2>6, <1>7, <1>8 DEF FilesOK
  <2>8. ASSUME a \notin disturbed PROVE ListsOK(a)'
    <3>1. Members(r.hosts) = r.wish /\ ToEmpty # ToWrite /\ ToEmpty # ToAnswer /\ a \notin failed
      BY <2>8, <1>1, <1>8, PlanSteps DEF ListsOK
    <3> QED
      BY <3>1, <2>2, <2>3, <2>5, <2>6, <1>6, <1>7 DEF ListsOK
  <2> QED
    BY <2>2, <2>4, <2>7, <2>8, <1>10
<1>13. CASE r.steps = ToEmpty
  <2>1. s = "meta0" /\ t = ToWrite
    BY <1>4, <1>13, PlanSteps DEF ToWrite
  <2>2. /\ q \in OpRec /\ q # NoOp /\ q.art = a /\ q.steps = ToWrite /\ q.hosts = r.hosts /\ q.wish = r.wish
        /\ \A x \in RegWorkers : (On(x, a)' <=> On(x, a)) /\ (Alone(x, a)' <=> Alone(x, a))
    BY <2>1, <1>9
  <2>3. meta' = [meta EXCEPT ![a] = Truncated] /\ UNCHANGED <<bin, created, expected>>
    BY <2>1, <1>6
  <2>4. Truncated \in MetaRec /\ Truncated # NoFile /\ Truncated.size = 0 /\ ~Truncated.whole
    <3>1. PICK none : none = << >>
      OBVIOUS
    <3>2. Truncated = [hosts |-> none, whole |-> FALSE, size |-> 0] /\ none \in Seq(RegHosts)
      BY <3>1 DEF Truncated
    <3>3. Truncated \in MetaRec /\ Truncated.size = 0 /\ ~Truncated.whole
      BY <3>2 DEF MetaRec
    <3> QED
      BY <3>3, BpfRegistryAssumption DEF MetaRec
  <2>5. RegType'
    BY <2>2, <2>3, <2>4, <1>6 DEF RegInv, RegType
  <2>6. bin[a] = "whole" /\ meta'[a] = Truncated
    BY <2>3, <1>1, <1>8, <1>13, PlanSteps DEF FilesOK, RegInv, RegType
  <2>7. FilesOK(a)'
    <3>1. ASSUME NEW x \in RegWorkers, On(x, a)'
          PROVE  \/ op'[x].steps = ToEmpty /\ bin'[a] = "whole"
                 \/ op'[x].steps \in {ToWrite, ToAnswer} /\ meta'[a] # NoFile
      <4>1. CASE x = w
        BY <4>1, <2>2, <2>4, <2>6, <1>7
      <4>2. CASE x # w
        <5>1. On(x, a) /\ op'[x] = op[x] /\ ~Alone(x, a)
          BY <4>2, <3>1, <2>2, <1>7, <1>8 DEF Alone
        <5> QED
          BY <5>1, <2>3, <2>4, <2>6, <1>8 DEF FilesOK
      <4> QED
        BY <4>1, <4>2
    <3> QED
      BY <3>1, <2>3, <2>4, <2>6 DEF FilesOK
  <2>8. ASSUME a \notin disturbed PROVE ListsOK(a)'
    <3>1. Members(r.hosts) = r.wish /\ ToWrite # ToAnswer /\ ToWrite # ToEmpty /\ a \notin failed
      BY <2>8, <1>1, <1>8, PlanSteps DEF ListsOK
    <3>2. \A x \in RegWorkers : On(x, a)' => x = w
      BY <2>2, <2>8, <1>8 DEF Alone
    <3>3. Unread(a)' /\ meta'[a].size = 0
      BY <2>4, <2>6 DEF Unread
    <3> QED
      BY <3>1, <3>2, <3>3, <2>2, <2>8, <1>6, <1>7, <1>8 DEF ListsOK
  <2> QED
    BY <2>2, <2>5, <2>7, <2>8, <1>10
<1>14. CASE r.steps = ToWrite
  <2>1. s = "meta1" /\ t = ToAnswer
    BY <1>4, <1>14, PlanSteps DEF ToAnswer
  <2>2. /\ q \in OpRec /\ q # NoOp /\ q.art = a /\ q.steps = ToAnswer /\ q.hosts = r.hosts /\ q.wish = r.wish
        /\ \A x \in RegWorkers : (On(x, a)' <=> On(x, a)) /\ (Alone(x, a)' <=> Alone(x, a))
    BY <2>1, <1>9
  <2>3. PICK m : m = Written(meta[a], r.hosts)
    OBVIOUS
  <2>4. meta' = [meta EXCEPT ![a] = m] /\ UNCHANGED <<bin, created, expected>>
    BY <2>1, <2>3, <1>6
  <2>5. meta[a] # NoFile /\ meta[a] \in MetaRec /\ bin[a] = "whole"
    BY <1>1, <1>8, <1>14, PlanSteps DEF FilesOK, RegInv, RegType
  <2>6. m \in MetaRec /\ m.hosts = r.hosts /\ (meta[a].size = 0 => m.whole)
    <3>1. PICK n \in Nat, z \in Nat : n = Len(r.hosts) + 1 /\ z = meta[a].size
      BY <2>5, <1>3 DEF MetaRec
    <3>2. m = [hosts |-> r.hosts, size |-> n, whole |-> z <= n]
      BY <3>1, <2>3 DEF Written
    <3>3. (z <= n) \in BOOLEAN /\ (z = 0 => z <= n)
      BY <3>1
    <3> QED
      BY <3>1, <3>2, <3>3, <1>3 DEF MetaRec
  <2>7. m # NoFile /\ meta'[a] = m
    BY <2>4, <2>6, BpfRegistryAssumption DEF MetaRec, RegInv, RegType
  <2>8. RegType'
    BY <2>2, <2>4, <2>6, <1>6 DEF RegInv, RegType
  <2>9. FilesOK(a)'
    <3>1. ASSUME NEW x \in RegWorkers, On(x, a)'
          PROVE  \/ op'[x].steps = ToEmpty /\ bin'[a] = "whole"
                 \/ op'[x].steps \in {ToWrite, ToAnswer} /\ meta'[a] # NoFile
      <4>1. CASE x = w
        BY <4>1, <2>2, <2>7, <1>7
      <4>2. CASE x # w
        <5>1. On(x, a) /\ op'[x] = op[x] /\ ~Alone(x, a)
          BY <4>2, <3>1, <2>2, <1>7, <1>8 DEF Alone
        <5> QED
          BY <5>1, <2>4, <2>5, <2>7, <1>8 DEF FilesOK
      <4> QED
        BY <4>1, <4>2
    <3> QED
      BY <3>1, <2>4, <2>5, <2>7 DEF FilesOK
  <2>10. ASSUME a \notin disturbed PROVE ListsOK(a)'
    <3>1. /\ Members(r.hosts) = r.wish /\ meta[a].size = 0 /\ a \notin failed
          /\ ToWrite # ToAnswer /\ ToEmpty # ToAnswer
      BY <2>10, <1>1, <1>8, <1>14, PlanSteps DEF ListsOK
    <3>2. \A x \in RegWorkers : On(x, a)' => x = w
      BY <2>2, <2>10, <1>8 DEF Alone
    <3>3. Holds(a, r.wish)'
      BY <3>1, <2>6, <2>7 DEF Holds
    <3>4. On(w, a)' /\ Alone(w, a)'
      BY <2>2, <2>10, <1>8
    <3>5. op'[w].wish = r.wish
      BY <2>2, <1>7
    <3>6. Holds(a, op[w].wish)'
      BY <3>3, <3>5 DEF Holds
    <3> QED
      BY <3>1, <3>2, <3>4, <3>6, <2>2, <1>6, <1>7 DEF ListsOK
  <2> QED
    BY <2>2, <2>8, <2>9, <2>10, <1>10
<1>15. CASE r.steps = ToAnswer
  <2>1. s = "ack" /\ t = << >> /\ q = NoOp
    BY <1>4, <1>5, <1>15, PlanSteps
  <2>2. /\ created' = created \cup {a} /\ expected' = [expected EXCEPT ![a] = r.wish]
        /\ UNCHANGED <<bin, meta>>
    BY <2>1, <1>6
  <2>3. RegType'
    BY <2>1, <2>2, <1>3, <1>6 DEF RegInv, RegType
  <2>4. meta[a] # NoFile /\ bin[a] = "whole"
    BY <1>1, <1>8, <1>15, PlanSteps DEF FilesOK
  <2>5. \A x \in RegWorkers : On(x, a)' => x # w /\ On(x, a) /\ op'[x] = op[x] /\ ~Alone(x, a)
    BY <2>1, <1>7, <1>8 DEF On, Alone
  <2>6. FilesOK(a)'
    BY <2>2, <2>4, <2>5, <1>8 DEF FilesOK
  <2>7. ASSUME a \notin disturbed PROVE ListsOK(a)'
    <3>1. \A x \in RegWorkers : ~On(x, a)'
      BY <2>5, <2>7, <1>8 DEF Alone
    <3>2. Holds(a, r.wish) /\ expected'[a] = r.wish
      BY <2>2, <2>7, <1>1, <1>8, <1>15 DEF ListsOK, RegInv, RegType
    <3>3. Holds(a, expected[a])'
      BY <3>2, <2>2 DEF Holds
    <3>4. a \notin failed'
      BY <2>7, <1>6, <1>8 DEF ListsOK
    <3> QED
      BY <3>1, <3>3, <3>4 DEF ListsOK
  <2> QED
    BY <2>1, <2>3, <2>6, <2>7, <1>10
<1> QED
  BY <1>3, <1>11, <1>12, <1>13, <1>14, <1>15

(***************************************************************************)
(* A failing write finds the metadata of an artifact that was not          *)
(* disturbed empty, and leaves them unreadable; any other failing          *)
(* operation leaves them as they were.                                     *)
(***************************************************************************)
LEMMA StepFailsStep ==
  ASSUME RegInv, NEW w \in RegWorkers, StepFails(w)
  PROVE  RegInv'
<1>1. PICK r \in OpRec : r = op[w] /\ r # NoOp
  BY DEF StepFails, RegInv, RegType
<1>2. PICK a \in ArtIds : a = r.art
  BY <1>1 DEF OpRec
<1>3. PICK n : /\ IF Head(r.steps) = "meta1"
                  THEN /\ n \in 0..Len(r.hosts) /\ meta' = [meta EXCEPT ![a] = CutShort(@, n)]
                       /\ failed' = failed \cup {a}
                  ELSE UNCHANGED <<meta, failed>>
               /\ Head(r.steps) # "ack"
  BY <1>1, <1>2 DEF StepFails
<1>4. op' = [op EXCEPT ![w] = NoOp] /\ UNCHANGED <<bin, expected, created, disturbed>>
  BY DEF StepFails
<1>5. op'[w] = NoOp /\ \A x \in RegWorkers \ {w} : op'[x] = op[x]
  BY <1>4 DEF RegInv, RegType
<1>6. On(w, a) /\ FilesOK(a) /\ (a \notin disturbed => ListsOK(a) /\ Alone(w, a))
  <2>1. On(w, a) /\ FilesOK(a) /\ (a \notin disturbed => ListsOK(a))
    BY <1>1, <1>2 DEF On, RegInv
  <2> QED
    BY <2>1 DEF ListsOK
<1>7. \A x \in RegWorkers : On(x, a)' => x # w /\ On(x, a) /\ op'[x] = op[x] /\ ~Alone(x, a)
  BY <1>5, <1>6 DEF On, Alone
<1>8. /\ r.steps \in {ToStart, ToFill, ToEmpty, ToWrite, ToAnswer}
      /\ (Head(r.steps) = "meta1" <=> r.steps = ToWrite) /\ r.steps # ToAnswer
  BY <1>1, <1>3, PlanSteps DEF OpRec
<1>9. ASSUME RegType', FilesOK(a)', a \notin disturbed => ListsOK(a)'
      PROVE  RegInv'
  <2>1. ASSUME NEW b \in ArtIds \ {a} PROVE FilesOK(b)' /\ (b \notin disturbed' => ListsOK(b)')
    <3>1. meta'[b] = meta[b] /\ (b \in failed' <=> b \in failed)
      BY <1>3 DEF RegInv, RegType
    <3> QED
      BY <3>1, <1>1, <1>2, <1>4, OtherArtifacts
  <2> QED
    BY <2>1, <1>4, <1>9 DEF RegInv
<1>10. CASE r.steps = ToWrite
  <2>1. /\ n \in 0..Len(r.hosts) /\ meta' = [meta EXCEPT ![a] = CutShort(@, n)]
        /\ failed' = failed \cup {a}
    BY <1>3, <1>8, <1>10
  <2>2. meta[a] # NoFile /\ meta[a] \in MetaRec /\ bin[a] = "whole"
    BY <1>1, <1>6, <1>10, PlanSteps DEF FilesOK, RegInv, RegType
  <2>3. PICK m : m = CutShort(meta[a], n)
    OBVIOUS
  <2>4. m \in MetaRec /\ (~meta[a].whole => ~m.whole)
    <3>1. n \in Nat /\ meta[a].size \in Nat /\ meta[a].whole \in BOOLEAN
      BY <2>1, <2>2, <1>1 DEF MetaRec, OpRec
    <3>2. PICK z \in Nat, c \in BOOLEAN : /\ z = (IF meta[a].size < n THEN n ELSE meta[a].size)
                                         /\ c = (meta[a].whole /\ n = 0)
      BY <3>1
    <3>3. m = [meta[a] EXCEPT !.whole = c, !.size = z]
      BY <3>2, <2>3 DEF CutShort
    <3> QED
      BY <3>2, <3>3, <2>2 DEF MetaRec
  <2>5. m # NoFile /\ meta'[a] = m
    BY <2>1, <2>3, <2>4, BpfRegistryAssumption DEF MetaRec, RegInv, RegType
  <2>6. RegType'
    BY <2>1, <2>3, <2>4, <1>4 DEF RegInv, RegType
  <2>7. FilesOK(a)'
    <3>1. ASSUME NEW x \in RegWorkers, On(x, a)'
          PROVE  \/ op'[x].steps = ToEmpty /\ bin'[a] = "whole"
                 \/ op'[x].steps \in {ToWrite, ToAnswer} /\ meta'[a] # NoFile
      BY <3>1, <2>2, <2>5, <1>4, <1>6, <1>7 DEF FilesOK
    <3> QED
      BY <3>1, <2>2, <2>5, <1>4 DEF FilesOK
  <2>8. ASSUME a \notin disturbed PROVE ListsOK(a)'
    <3>1. \A x \in RegWorkers : ~On(x, a)'
      BY <2>8, <1>6, <1>7 DEF Alone
    <3>2. Unread(a)
      BY <2>8, <1>1, <1>6, <1>10 DEF ListsOK
    <3>3. Unread(a)' /\ a \in failed'
      BY <3>2, <2>1, <2>4, <2>5 DEF Unread
    <3> QED
      BY <3>1, <3>3 DEF ListsOK
  <2> QED
    BY <2>6, <2>7, <2>8, <1>9
<1>11. CASE r.steps \in {ToStart, ToFill, ToEmpty}
  <2>1. UNCHANGED <<meta, failed>>
    BY <1>3, <1>8, <1>11, PlanSteps
  <2>2. RegType'
    BY <2>1, <1>4 DEF RegInv, RegType
  <2>3. FilesOK(a)'
    BY <2>1, <1>4, <1>6, <1>7 DEF FilesOK
  <2>4. ASSUME a \notin disturbed PROVE ListsOK(a)'
    <3>1. \A x \in RegWorkers : ~On(x, a)'
      BY <2>4, <1>6, <1>7 DEF Alone
    <3>2. a \notin failed
      BY <2>4, <1>6 DEF ListsOK
    <3>3. meta[a] # NoFile => Holds(a, expected[a])
      BY <2>4, <1>1, <1>6, <1>11, PlanSteps DEF ListsOK, FilesOK
    <3> QED
      BY <3>1, <3>2, <3>3, <2>1, <1>4 DEF ListsOK, Holds
  <2> QED
    BY <2>2, <2>3, <2>4, <1>9
<1> QED
  BY <1>8, <1>10, <1>11

LEMMA KillRegistryStep ==
  ASSUME RegInv, KillRegistry
  PROVE  RegInv'
<1>1. /\ disturbed' = disturbed \cup {op[w].art : w \in {x \in RegWorkers : op[x] # NoOp}}
      /\ op' = [w \in RegWorkers |-> NoOp] /\ UNCHANGED <<bin, meta, expected, created, failed>>
  BY DEF KillRegistry
<1>2. \A w \in RegWorkers : op[w] # NoOp => op[w].art \in ArtIds
  BY DEF RegInv, RegType, OpRec
<1>3. RegType'
  BY <1>1, <1>2 DEF RegInv, RegType
<1>4. \A w \in RegWorkers, a \in ArtIds : ~On(w, a)'
  BY <1>1 DEF On
<1>5. ASSUME NEW a \in ArtIds PROVE FilesOK(a)' /\ (a \notin disturbed' => ListsOK(a)')
  <2>1. FilesOK(a)'
    BY <1>1, <1>4 DEF RegInv, FilesOK
  <2>2. ASSUME a \notin disturbed' PROVE ListsOK(a)'
    <3>1. a \notin disturbed /\ \A w \in RegWorkers : ~On(w, a)
      BY <1>1, <2>2 DEF On
    <3>2. (meta[a] # NoFile /\ a \notin failed => Holds(a, expected[a])) /\ (a \in failed => Unread(a))
      BY <3>1 DEF RegInv, ListsOK
    <3>3. /\ meta'[a] # NoFile /\ a \notin failed' => Holds(a, expected[a])'
          /\ a \in failed' => Unread(a)'
      BY <3>2, <1>1 DEF Holds, Unread
    <3> QED
      BY <3>3, <1>4 DEF ListsOK
  <2> QED
    BY <2>1, <2>2
<1> QED
  BY <1>3, <1>5 DEF RegInv

(***************************************************************************)
(* For any number of concurrent requests, artifacts, kills and failing     *)
(* file operations: what the bpf-registry serves has its whole binary, and *)
(* an artifact whose updates neither overlapped nor were killed is served  *)
(* to exactly the hosts it was assigned to, or to none once a write of its *)
(* metadata failed (FSStore.Put, AssignArtifactToHost,                     *)
(* UnassignArtifactFromHost, UpdateArtifactHosts, GetArtifactsForHost).    *)
(***************************************************************************)
THEOREM ArtifactsHold == RegSpec => []ArtifactsSound
<1>1. RegInv /\ [RegNext]_regVars => RegInv'
  <2> SUFFICES ASSUME RegInv, [RegNext]_regVars PROVE RegInv'
    OBVIOUS
  <2>1. ASSUME NEW w \in RegWorkers, NEW a \in ArtIds, StoreArtifact(w, a) PROVE RegInv'
    BY <2>1, StoreArtifactStep
  <2>2. \A a \in ArtIds : meta[a] # NoFile => meta[a].hosts \in Seq(RegHosts)
    BY DEF RegInv, RegType, MetaRec
  <2>3. ASSUME NEW w \in RegWorkers, NEW a \in ArtIds, meta[a] # NoFile, NEW h \in RegHosts,
               AssignArtifact(w, a, h)
        PROVE  RegInv'
    <3>1. PICK s \in Seq(RegHosts) : s = meta[a].hosts
      BY <2>2, <2>3
    <3>2. PICK hosts, wish : hosts = Assigned(s, h) /\ wish = expected[a] \cup {h}
      OBVIOUS
    <3>3. hosts \in Seq(RegHosts) /\ Members(hosts) = Members(s) \cup {h} /\ wish \subseteq RegHosts
      BY <3>2, MembersAssigned DEF RegInv, RegType
    <3>4. BeginUpdate(w, a, hosts, wish, FALSE)
      BY <2>3, <3>1, <3>2 DEF AssignArtifact
    <3>5. Holds(a, expected[a]) => Members(hosts) = wish
      BY <3>1, <3>2, <3>3 DEF Holds
    <3> QED
      BY <3>3, <3>4, <3>5, BeginUpdateStep
  <2>4. ASSUME NEW w \in RegWorkers, NEW a \in ArtIds, meta[a] # NoFile, NEW h \in RegHosts,
               UnassignArtifact(w, a, h)
        PROVE  RegInv'
    <3>1. PICK s \in Seq(RegHosts) : s = meta[a].hosts
      BY <2>2, <2>4
    <3>2. PICK hosts, wish : hosts = Unassigned(s, h) /\ wish = expected[a] \ {h}
      OBVIOUS
    <3>3. hosts \in Seq(RegHosts) /\ Members(hosts) = Members(s) \ {h} /\ wish \subseteq RegHosts
      BY <3>2, MembersUnassigned DEF RegInv, RegType
    <3>4. BeginUpdate(w, a, hosts, wish, FALSE)
      BY <2>4, <3>1, <3>2 DEF UnassignArtifact
    <3>5. Holds(a, expected[a]) => Members(hosts) = wish
      BY <3>1, <3>2, <3>3 DEF Holds
    <3> QED
      BY <3>3, <3>4, <3>5, BeginUpdateStep
  <2>5. ASSUME NEW w \in RegWorkers, NEW a \in ArtIds, NEW hosts \in HostLists, UpdateHosts(w, a, hosts)
        PROVE  RegInv'
    <3>1. hosts \in Seq(RegHosts) /\ DOMAIN hosts = 1..Len(hosts)
      BY BpfRegistryAssumption
    <3>2. PICK wish : wish = Members(hosts)
      OBVIOUS
    <3>3. wish \subseteq RegHosts
      <4>1. \A i \in 1..Len(hosts) : hosts[i] \in RegHosts
        BY <3>1
      <4> QED
        BY <3>1, <3>2, <4>1 DEF Members
    <3>4. BeginUpdate(w, a, hosts, wish, TRUE)
      BY <2>5, <3>2 DEF UpdateHosts
    <3> QED
      BY <3>1, <3>2, <3>3, <3>4, BeginUpdateStep
  <2>6. ASSUME NEW w \in RegWorkers, Step(w) PROVE RegInv'
    BY <2>6, FileStep
  <2>9. ASSUME NEW w \in RegWorkers, StepFails(w) PROVE RegInv'
    BY <2>9, StepFailsStep
  <2>7. CASE KillRegistry
    BY <2>7, KillRegistryStep
  <2>8. CASE UNCHANGED regVars
    BY <2>8 DEF regVars, RegInv, RegType, FilesOK, ListsOK, Holds, Unread, On, Alone
  <2> QED
    BY <2>1, <2>3, <2>4, <2>5, <2>6, <2>7, <2>8, <2>9 DEF RegNext
<1> QED
  BY InitReg, RegInvSound, <1>1, PTL DEF RegSpec
-----------------------------------------------------------------------------
(***************************************************************************)
(* The platform's lists: after an append that drops the oldest entries a   *)
(* list is the end of what it would be without the limit.                  *)
(***************************************************************************)
EndOf(p, a) ==
    /\ Len(p) \in 1..Len(a)
    /\ \A i \in 1..Len(p) : p[i] = a[Len(a) - Len(p) + i]

LEMMA PushedEnd ==
  ASSUME NEW S, NEW s \in Seq(S), NEW x \in S, NEW cap \in Nat \ {0}
  PROVE  Pushed(s, x, cap) \in Seq(S) /\ EndOf(Pushed(s, x, cap), Append(s, x))
<1>1. PICK a, n : a = Append(s, x) /\ n = Len(s) + 1
  OBVIOUS
<1>2. a \in Seq(S) /\ Len(a) = n /\ n \in Nat \ {0}
  BY <1>1
<1>3. Pushed(s, x, cap) = IF n > cap THEN SubSeq(a, n - cap + 1, n) ELSE a
  BY <1>1, <1>2 DEF Pushed, Capped
<1>4. CASE n > cap
  <2>1. PICK m : m = n - cap + 1
    OBVIOUS
  <2>2. m \in Nat /\ m >= 1 /\ m <= n /\ n - m + 1 = cap
    BY <1>2, <1>4, <2>1
  <2>3. PICK p : p = SubSeq(a, m, n)
    OBVIOUS
  <2>4. p \in Seq(S) /\ Len(p) = cap /\ \A i \in 1..cap : p[i] = a[m + i - 1]
    BY <1>2, <2>2, <2>3
  <2>5. \A i \in 1..cap : m + i - 1 = n - cap + i
    BY <1>2, <2>1
  <2>6. EndOf(p, a)
    BY <1>2, <1>4, <2>4, <2>5 DEF EndOf
  <2> QED
    BY <1>1, <1>3, <1>4, <2>1, <2>3, <2>4, <2>6
<1>5. CASE ~(n > cap)
  <2>1. EndOf(a, a)
    BY <1>2 DEF EndOf
  <2> QED
    BY <1>1, <1>2, <1>3, <1>5, <2>1
<1> QED
  BY <1>4, <1>5

-----------------------------------------------------------------------------
(***************************************************************************)
(* The draft controls.  A history that ends with a snapshot, each entry    *)
(* after one of the server's own starting from that one and naming what it *)
(* changed.                                                                *)
(***************************************************************************)
Draft ==
    [id : DraftIds, status : Statuses, scope : Scopes \cup {Unsent, DefaultScope},
     notes : {Unsent, "note"}, matches : SimDevices \cup {NoMatches, "client"},
     sims : Seq(SimDevices), history : Seq(HistoryEntry), simulated : BOOLEAN]

Chains(h) == \A k \in 2..Len(h) : h[k - 1].own => h[k].before = h[k - 1].after
Named(h) ==
    \A k, l \in 1..Len(h) : h[k].own /\ k <= l =>
        \A y \in ChangedKeys(h[k].after, h[l].after) : \E n \in (k + 1)..l : y \in h[n].keys
HistoryOK(h, now) == Len(h) > 0 /\ h[Len(h)].after = now /\ Chains(h) /\ Named(h)

DraftOK(d) ==
    /\ d \in Draft
    /\ HistoryOK(d.history, Snapshot(d))
    /\ d.simulated => d.sims # << >> /\ d.matches = d.sims[Len(d.sims)]

DraftInv == drafts \in Seq(Draft) /\ \A i \in 1..Len(drafts) : DraftOK(drafts[i])

LEMMA DraftInvSound == DraftInv => DraftsSound
<1> SUFFICES ASSUME DraftInv PROVE DraftsSound
  OBVIOUS
<1>1. DOMAIN drafts = 1..Len(drafts)
  BY DEF DraftInv
<1>2. HistoryChains
  BY <1>1 DEF DraftInv, DraftOK, HistoryOK, Chains, HistoryChains
<1>3. MatchesAreNewest
  BY <1>1 DEF DraftInv, DraftOK, MatchesAreNewest
<1>4. ChangesAreNamed
  <2> SUFFICES ASSUME NEW i \in DOMAIN drafts, NEW h, h = drafts[i].history,
                      NEW k \in 1..Len(h), h[k].own, NEW l \in k..Len(h)
               PROVE  {x \in SnapshotKeys : h[k].after[x] # h[l].after[x]}
                         \subseteq UNION {h[n].keys : n \in (k + 1)..l}
    BY DEF ChangesAreNamed
  <2>1. Named(h) /\ h \in Seq(HistoryEntry)
    BY <1>1 DEF DraftInv, DraftOK, HistoryOK, Draft
  <2>2. l \in 1..Len(h) /\ k <= l
    BY <2>1
  <2>3. \A y \in ChangedKeys(h[k].after, h[l].after) : \E n \in (k + 1)..l : y \in h[n].keys
    BY <2>1, <2>2 DEF Named
  <2> QED
    BY <2>3 DEF ChangedKeys
<1> QED
  BY <1>2, <1>3, <1>4 DEF DraftsSound

LEMMA HistoryPushed ==
  ASSUME NEW h \in Seq(HistoryEntry), NEW x \in HistoryEntry, NEW now, HistoryOK(h, now),
         x.before = now, x.keys = ChangedKeys(now, x.after)
  PROVE  /\ Pushed(h, x, HistoryCap) \in Seq(HistoryEntry)
         /\ HistoryOK(Pushed(h, x, HistoryCap), x.after)
<1>1. PICK a, len : a = Append(h, x) /\ len = Len(h)
  OBVIOUS
<1>2. /\ len \in Nat \ {0} /\ Len(a) = len + 1 /\ a[len + 1] = x
      /\ \A i \in 1..len : a[i] = h[i]
  BY <1>1 DEF HistoryOK
<1>3. h[len].after = now /\ Chains(h) /\ Named(h)
  BY <1>1 DEF HistoryOK
<1>4. \A k \in 2..(len + 1) : a[k - 1].own => a[k].before = a[k - 1].after
  <2> SUFFICES ASSUME NEW k \in 2..(len + 1), a[k - 1].own PROVE a[k].before = a[k - 1].after
    OBVIOUS
  <2>1. CASE k = len + 1
    BY <2>1, <1>2, <1>3
  <2>2. CASE k \in 2..len
    BY <2>2, <1>1, <1>2, <1>3 DEF Chains
  <2> QED
    BY <2>1, <2>2, <1>2
<1>5. ASSUME NEW k \in 1..(len + 1), NEW l \in 1..(len + 1), a[k].own, k <= l,
             NEW y \in ChangedKeys(a[k].after, a[l].after)
      PROVE  \E n \in (k + 1)..l : y \in a[n].keys
  <2>1. CASE l \in 1..len
    <3>1. k \in 1..len /\ h[k].own /\ y \in ChangedKeys(h[k].after, h[l].after)
      BY <2>1, <1>2, <1>5
    <3>2. PICK n \in (k + 1)..l : y \in h[n].keys
      BY <2>1, <3>1, <1>1, <1>3, <1>5 DEF Named
    <3> QED
      BY <2>1, <3>2, <1>2
  <2>2. CASE l = len + 1
    <3>1. k # l
      BY <1>5 DEF ChangedKeys
    <3>2. k \in 1..len /\ h[k].own /\ y \in ChangedKeys(h[k].after, x.after)
      BY <2>2, <3>1, <1>2, <1>5
    <3>3. CASE y \in ChangedKeys(h[k].after, h[len].after)
      <4>1. len \in 1..Len(h) /\ k \in 1..Len(h) /\ k <= len
        BY <3>2, <1>1, <1>2
      <4>2. PICK n \in (k + 1)..len : y \in h[n].keys
        BY <3>2, <3>3, <4>1, <1>3 DEF Named
      <4> QED
        BY <4>2, <2>2, <1>2
    <3>4. CASE y \notin ChangedKeys(h[k].after, h[len].after)
      <4>1. y \in x.keys
        BY <3>2, <3>4, <1>3 DEF ChangedKeys
      <4> QED
        BY <4>1, <2>2, <3>2, <1>2
    <3> QED
      BY <3>3, <3>4
  <2> QED
    BY <2>1, <2>2, <1>2
<1>6. PICK p : p = Pushed(h, x, HistoryCap)
  OBVIOUS
<1>7. p \in Seq(HistoryEntry) /\ EndOf(p, a)
  BY <1>1, <1>6, PushedEnd, PlatformDraftsAssumption
<1>8. PICK off, n : n = Len(p) /\ off = len + 1 - n
  OBVIOUS
<1>9. /\ n \in Nat \ {0} /\ off \in Nat /\ n + off = len + 1
      /\ \A i \in 1..n : i + off \in 1..(len + 1) /\ p[i] = a[i + off]
  BY <1>2, <1>7, <1>8 DEF EndOf
<1>10. p[n].after = x.after
  BY <1>2, <1>9
<1>11. Chains(p)
  <2> SUFFICES ASSUME NEW k \in 2..n, p[k - 1].own PROVE p[k].before = p[k - 1].after
    BY <1>8 DEF Chains
  <2>1. PICK m : m = k + off
    OBVIOUS
  <2>2. m \in 2..(len + 1) /\ p[k] = a[m] /\ p[k - 1] = a[m - 1]
    BY <2>1, <1>9
  <2> QED
    BY <2>2, <1>4
<1>12. Named(p)
  <2> SUFFICES ASSUME NEW k \in 1..n, NEW l \in 1..n, p[k].own, k <= l,
                      NEW y \in ChangedKeys(p[k].after, p[l].after)
               PROVE  \E i \in (k + 1)..l : y \in p[i].keys
    BY <1>8 DEF Named
  <2>1. PICK kk, ll : kk = k + off /\ ll = l + off
    OBVIOUS
  <2>2. /\ kk \in 1..(len + 1) /\ ll \in 1..(len + 1) /\ kk <= ll
        /\ p[k] = a[kk] /\ p[l] = a[ll]
    BY <2>1, <1>9
  <2>3. PICK j \in (kk + 1)..ll : y \in a[j].keys
    BY <2>2, <1>5
  <2>4. PICK i \in (k + 1)..l : i + off = j
    BY <2>1, <2>3, <1>9
  <2>5. p[i] = a[j]
    BY <2>4, <1>9
  <2> QED
    BY <2>3, <2>5
<1> QED
  BY <1>6, <1>7, <1>8, <1>9, <1>10, <1>11, <1>12 DEF HistoryOK

LEMMA RecordedOK ==
  ASSUME NEW d, DraftOK(d), NEW e \in Draft, e.history = d.history,
         e.simulated => e.sims # << >> /\ e.matches = e.sims[Len(e.sims)],
         NEW action \in HistoryActions
  PROVE  DraftOK(Recorded(e, action, Snapshot(d)))
<1>1. PICK now, old, x, h : /\ now = Snapshot(e) /\ old = Snapshot(d)
                            /\ x = [action |-> action, keys |-> ChangedKeys(old, now),
                                    before |-> old, after |-> now, own |-> TRUE]
                            /\ h = Pushed(d.history, x, HistoryCap)
  OBVIOUS
<1>2. d \in Draft /\ HistoryOK(d.history, old) /\ d.history \in Seq(HistoryEntry)
  BY <1>1 DEF DraftOK, Draft
<1>3. now \in Snap /\ old \in Snap
  BY <1>1, <1>2 DEF Draft, Snap, Snapshot
<1>4. x \in HistoryEntry /\ x.before = old /\ x.after = now /\ x.keys = ChangedKeys(old, now)
  <2>1. ChangedKeys(old, now) \in SUBSET SnapshotKeys
    BY DEF ChangedKeys
  <2> QED
    BY <1>1, <1>3, <2>1 DEF HistoryEntry, HistoryActions
<1>5. h \in Seq(HistoryEntry) /\ HistoryOK(h, now)
  BY <1>1, <1>2, <1>4, HistoryPushed
<1>6. PICK r : r = Recorded(e, action, old)
  OBVIOUS
<1>7. r = [e EXCEPT !.history = h]
  BY <1>1, <1>6 DEF Recorded
<1>8. /\ r \in Draft /\ r.history = h /\ Snapshot(r) = now
      /\ r.sims = e.sims /\ r.matches = e.matches /\ r.simulated = e.simulated
  BY <1>1, <1>5, <1>7 DEF Draft, Snapshot
<1> QED
  BY <1>1, <1>5, <1>6, <1>8 DEF DraftOK

LEMMA SimulatedOK ==
  ASSUME NEW d, DraftOK(d), NEW device \in SimDevices
  PROVE  DraftOK(SimulatedDraft(d, device))
<1>1. PICK sims : sims = Pushed(d.sims, device, SimulationCap)
  OBVIOUS
<1>2. d \in Draft /\ d.sims \in Seq(SimDevices)
  BY DEF DraftOK, Draft
<1>3. sims \in Seq(SimDevices) /\ EndOf(sims, Append(d.sims, device))
  BY <1>1, <1>2, PushedEnd, PlatformDraftsAssumption
<1>4. sims[Len(sims)] = device /\ sims # << >>
  <2>1. PICK a : a = Append(d.sims, device)
    OBVIOUS
  <2>2. Len(a) = Len(d.sims) + 1 /\ Len(d.sims) \in Nat /\ a[Len(d.sims) + 1] = device
    BY <1>2, <2>1
  <2>3. Len(sims) \in 1..Len(a) /\ \A i \in 1..Len(sims) : sims[i] = a[Len(a) - Len(sims) + i]
    BY <1>3, <2>1 DEF EndOf
  <2>4. Len(sims) \in 1..Len(sims) /\ Len(a) - Len(sims) + Len(sims) = Len(a)
    BY <2>2, <2>3
  <2>5. sims[Len(sims)] = a[Len(a) - Len(sims) + Len(sims)]
    BY <2>3, <2>4
  <2> QED
    BY <2>2, <2>4, <2>5
<1>5. PICK e : e = [d EXCEPT !.matches = device, !.simulated = TRUE, !.sims = sims]
  OBVIOUS
<1>6. e \in Draft /\ e.history = d.history /\ e.matches = device /\ e.sims = sims
  BY <1>2, <1>3, <1>5 DEF Draft
<1>7. SimulatedDraft(d, device) = Recorded(e, "simulated", Snapshot(d))
  BY <1>1, <1>5 DEF SimulatedDraft, WithSimulation, MatchCount
<1>8. "simulated" \in HistoryActions
  BY DEF HistoryActions
<1> QED
  BY <1>4, <1>6, <1>7, <1>8, RecordedOK

LEMMA PatchedOK ==
  ASSUME NEW d, DraftOK(d), NEW status \in DraftStatuses \cup {Unsent},
         NEW scope \in Scopes \cup {Unsent}, NEW notes \in {Unsent, "note"}
  PROVE  DraftOK(PatchedDraft(d, status, scope, notes))
<1>1. PICK st, sc : /\ st = (IF status = Unsent THEN d.status ELSE status)
                    /\ sc = (IF scope = Unsent THEN d.scope ELSE scope)
  OBVIOUS
<1>2. d \in Draft /\ (d.simulated => d.sims # << >> /\ d.matches = d.sims[Len(d.sims)])
  BY DEF DraftOK
<1>3. st \in Statuses /\ sc \in Scopes \cup {Unsent, DefaultScope}
  BY <1>1, <1>2 DEF Draft, Statuses
<1>4. PICK e : e = [d EXCEPT !.status = st, !.scope = sc, !.notes = notes]
  OBVIOUS
<1>5. /\ e \in Draft /\ e.history = d.history /\ e.matches = d.matches /\ e.sims = d.sims
      /\ e.simulated = d.simulated
  BY <1>2, <1>3, <1>4 DEF Draft
<1>6. PICK keys, action : keys = ChangedKeys(Snapshot(d), Snapshot(e)) /\ action = HistoryAction(keys)
  OBVIOUS
<1>7. action \in HistoryActions
  BY <1>6 DEF HistoryAction, HistoryActions
<1>8. PatchedDraft(d, status, scope, notes) = Recorded(e, action, Snapshot(d))
  BY <1>1, <1>4, <1>6 DEF PatchedDraft
<1> QED
  BY <1>2, <1>5, <1>7, <1>8, RecordedOK

LEMMA DraftReplaced ==
  ASSUME DraftInv, NEW i \in DOMAIN drafts, NEW d, DraftOK(d), drafts' = [drafts EXCEPT ![i] = d]
  PROVE  DraftInv'
<1>1. d \in Draft /\ i \in 1..Len(drafts)
  BY DEF DraftOK, DraftInv
<1>2. drafts' \in Seq(Draft) /\ Len(drafts') = Len(drafts)
  BY <1>1 DEF DraftInv
<1>3. \A j \in 1..Len(drafts) : DraftOK(drafts'[j])
  BY <1>1 DEF DraftInv
<1> QED
  BY <1>2, <1>3 DEF DraftInv

(* The created entry after whatever history the client sent.               *)
LEMMA CreatedOK ==
  ASSUME NEW d \in Draft, ~d.simulated, \A k \in 1..Len(d.history) : ~d.history[k].own,
         NEW x, x = [action |-> "created", keys |-> {"status", "scope"}, before |-> Unsent,
                     after |-> Snapshot(d), own |-> TRUE]
  PROVE  DraftOK([d EXCEPT !.history = Pushed(d.history, x, HistoryCap)])
<1>1. PICK now, h, p, a : /\ now = Snapshot(d) /\ h = d.history
                          /\ p = Pushed(h, x, HistoryCap) /\ a = Append(h, x)
  OBVIOUS
<1>2. now \in Snap /\ h \in Seq(HistoryEntry)
  BY <1>1 DEF Draft, Snap, Snapshot
<1>3. x \in HistoryEntry /\ x.after = now
  BY <1>1, <1>2 DEF HistoryEntry, HistoryActions, SnapshotKeys
<1>4. p \in Seq(HistoryEntry) /\ EndOf(p, a)
  BY <1>1, <1>2, <1>3, PushedEnd, PlatformDraftsAssumption
<1>5. PICK len, n : len = Len(h) /\ n = Len(p)
  OBVIOUS
<1>6. /\ len \in Nat /\ Len(a) = len + 1 /\ a[len + 1] = x /\ n \in 1..(len + 1)
      /\ \A i \in 1..len : a[i] = h[i] /\ ~a[i].own
  BY <1>1, <1>2, <1>3, <1>4, <1>5 DEF EndOf
<1>7. p[n] = x /\ \A i \in 1..n : p[i].own => i = n
  <2>1. \A i \in 1..n : p[i] = a[(len + 1) - n + i]
    BY <1>4, <1>5, <1>6 DEF EndOf
  <2>2. \A i \in 1..n : i # n => (len + 1) - n + i \in 1..len
    BY <1>6
  <2>3. n \in 1..n /\ (len + 1) - n + n = len + 1
    BY <1>6
  <2> QED
    BY <2>1, <2>2, <2>3, <1>6
<1>8. Chains(p)
  BY <1>5, <1>6, <1>7 DEF Chains
<1>9. Named(p)
  BY <1>5, <1>6, <1>7 DEF Named, ChangedKeys
<1>10. HistoryOK(p, now)
  BY <1>3, <1>5, <1>6, <1>7, <1>8, <1>9 DEF HistoryOK
<1>11. PICK r : r = [d EXCEPT !.history = p]
  OBVIOUS
<1>12. r \in Draft /\ r.history = p /\ Snapshot(r) = now /\ ~r.simulated
  BY <1>1, <1>4, <1>11 DEF Draft, Snapshot
<1> QED
  BY <1>1, <1>10, <1>11, <1>12 DEF DraftOK

LEMMA CreateDraftStep ==
  ASSUME DraftInv, NEW id \in DraftIds, NEW status \in DraftStatuses \cup {Unsent},
         NEW scope \in Scopes \cup {Unsent}, NEW sent \in SentParts,
         CreateDraft(id, status, scope, sent)
  PROVE  DraftInv'
<1>1. PICK st, sc : /\ st = (IF status = Unsent THEN "draft_observe_only" ELSE status)
                    /\ sc = (IF scope = Unsent THEN DefaultScope ELSE scope)
  OBVIOUS
<1>2. st \in Statuses /\ sc \in Scopes \cup {Unsent, DefaultScope}
  BY <1>1 DEF Statuses
<1>3. /\ sent.notes \in {Unsent, "note"} /\ sent.matches \in {NoMatches, "client"}
      /\ sent.sims \in Seq(SimDevices) /\ sent.history \in Seq(HistoryEntry)
      /\ \A k \in 1..Len(sent.history) : ~sent.history[k].own
  BY PlatformDraftsAssumption
<1>4. PICK d : d = [id |-> id, notes |-> sent.notes, matches |-> sent.matches, sims |-> sent.sims,
                    history |-> sent.history, simulated |-> FALSE, status |-> st, scope |-> sc]
  OBVIOUS
<1>5. /\ d \in Draft /\ ~d.simulated /\ d.history = sent.history
      /\ \A k \in 1..Len(d.history) : ~d.history[k].own
  BY <1>2, <1>3, <1>4 DEF Draft
<1>6. PICK x : x = [action |-> "created", keys |-> {"status", "scope"}, before |-> Unsent,
                    after |-> Snapshot(d), own |-> TRUE]
  OBVIOUS
<1>7. PICK r : r = [d EXCEPT !.history = Pushed(d.history, x, HistoryCap)]
  OBVIOUS
<1>8. DraftOK(r) /\ r \in Draft
  BY <1>5, <1>6, <1>7, CreatedOK DEF DraftOK
<1>9. drafts' = Append(drafts, r)
  BY <1>1, <1>4, <1>5, <1>6, <1>7 DEF CreateDraft
<1>10. drafts \in Seq(Draft) /\ \A i \in 1..Len(drafts) : DraftOK(drafts[i])
  BY DEF DraftInv
<1>11. drafts' \in Seq(Draft) /\ Len(drafts') = Len(drafts) + 1
  BY <1>8, <1>9, <1>10
<1>12. \A i \in 1..Len(drafts') : DraftOK(drafts'[i])
  BY <1>8, <1>9, <1>10, <1>11
<1> QED
  BY <1>11, <1>12 DEF DraftInv

(* What TLC checks of the draft controls on a few short histories holds of *)
(* every sequence of creations, simulations and edits, whatever history    *)
(* and simulations a new draft comes with: from its creation on a draft's  *)
(* decision history, cut to its newest entries by appendDraftHistory,      *)
(* accounts for every change between its entries and ends with the draft   *)
(* as it is, and the matches shown are those of the newest simulation.     *)
THEOREM DraftsHold == DraftSpec => []DraftsSound
<1>1. DraftInit => DraftInv
  BY DEF DraftInit, DraftInv
<1>2. DraftInv /\ [DraftNext]_draftVars => DraftInv'
  <2> SUFFICES ASSUME DraftInv, [DraftNext]_draftVars PROVE DraftInv'
    OBVIOUS
  <2>1. ASSUME NEW id \in DraftIds, NEW status \in DraftStatuses \cup {Unsent},
               NEW scope \in Scopes \cup {Unsent}, NEW sent \in SentParts,
               CreateDraft(id, status, scope, sent)
        PROVE  DraftInv'
    BY <2>1, CreateDraftStep
  <2>2. \A id, i : i \in FirstDraft(id) => i \in DOMAIN drafts /\ DraftOK(drafts[i])
    BY DEF FirstDraft, DraftInv
  <2>3. ASSUME NEW id \in DraftIds, NEW device \in SimDevices, SimulateDraft(id, device)
        PROVE  DraftInv'
    <3>1. PICK i \in FirstDraft(id) : drafts' = [drafts EXCEPT ![i] = SimulatedDraft(@, device)]
      BY <2>3 DEF SimulateDraft
    <3>2. PICK d : d = SimulatedDraft(drafts[i], device)
      OBVIOUS
    <3>3. DraftOK(d) /\ drafts' = [drafts EXCEPT ![i] = d]
      BY <2>2, <3>1, <3>2, SimulatedOK
    <3> QED
      BY <2>2, <3>3, DraftReplaced
  <2>4. ASSUME NEW id \in DraftIds, NEW status \in DraftStatuses \cup {Unsent},
               NEW scope \in Scopes \cup {Unsent}, NEW notes \in {Unsent, "note"},
               PatchDraft(id, status, scope, notes)
        PROVE  DraftInv'
    <3>1. PICK i \in FirstDraft(id) :
              drafts' = [drafts EXCEPT ![i] = PatchedDraft(@, status, scope, notes)]
      BY <2>4 DEF PatchDraft
    <3>2. PICK d : d = PatchedDraft(drafts[i], status, scope, notes)
      OBVIOUS
    <3>3. DraftOK(d) /\ drafts' = [drafts EXCEPT ![i] = d]
      BY <2>2, <3>1, <3>2, PatchedOK
    <3> QED
      BY <2>2, <3>3, DraftReplaced
  <2>5. CASE UNCHANGED draftVars
    BY <2>5 DEF draftVars, DraftInv
  <2> QED
    BY <2>1, <2>3, <2>4, <2>5 DEF DraftNext
<1> QED
  BY <1>1, <1>2, DraftInvSound, PTL DEF DraftSpec
-----------------------------------------------------------------------------
(***************************************************************************)
(* The detection candidates.  What keeps the feed and the links right is   *)
(* that ids grow: no earlier event or link can name a new candidate, and   *)
(* the first candidate with an id is the only one.                         *)
(***************************************************************************)
OpEvent ==
    [type : CandidateEventTypes \cup {"research.ingested", "research.updated", "research.promoted", "client"},
     status : ResearchStatuses \cup CandidateStatuses \cup {"ok"},
     about : ResearchIds \cup Nat \cup {"client"}]
Item == [id : ResearchIds, status : ResearchStatuses, linked : Nat \cup {NoCandidate},
         given : Nat \cup {NoCandidate}]
Candidate ==
    [id : Nat, source : ResearchIds \cup {NoCandidate}, status : CandidateStatuses, packed : BOOLEAN,
     rollout : {NoRollout, "observe_only_active", "retired"}, sims : Nat,
     filled : SUBSET GateFields, missing : SUBSET (GateFields \cup {"simulation_run"})]

About(e, id) == e.type \in CandidateEventTypes /\ e.about = id
LastTells(ev, id, status) ==
    \A k \in 1..Len(ev) :
        About(ev[k], id) /\ (\A l \in (k + 1)..Len(ev) : ~About(ev[l], id)) => ev[k].status = status
AboutKnown(ev, n) == \A k \in 1..Len(ev) : ev[k].type \in CandidateEventTypes => ev[k].about \in 1..n

CandidateOK(c) ==
    /\ c \in Candidate
    /\ c.missing = MissingFields(c.filled, c.sims)
    /\ c.packed => c.sims > 0
    /\ c.status \in {"signed", "deployed"} => c.packed
Increasing(cs) == \A i, j \in 1..Len(cs) : i < j => cs[i].id < cs[j].id
Links(rs, cs) ==
    \A i \in 1..Len(rs), j \in 1..Len(cs) :
        rs[i].linked = cs[j].id => cs[j].source = rs[i].id \/ rs[i].linked = rs[i].given

CandidateTypes ==
    /\ opEvents \in Seq(OpEvent) /\ research \in Seq(Item) /\ candidates \in Seq(Candidate)
    /\ candidateCount \in Nat
IdsKnown ==
    /\ \A i \in 1..Len(candidates) : candidates[i].id \in 1..candidateCount
    /\ \A i \in 1..Len(research) : research[i].linked \in 1..candidateCount \cup {NoCandidate}
    /\ AboutKnown(opEvents, candidateCount)
CandidateInv ==
    /\ CandidateTypes /\ IdsKnown
    /\ Increasing(candidates) /\ Links(research, candidates)
    /\ \A i \in 1..Len(candidates) :
          CandidateOK(candidates[i]) /\ LastTells(opEvents, candidates[i].id, candidates[i].status)

LEMMA CandidateInvSound == CandidateInv => CandidatesSound
<1> SUFFICES ASSUME CandidateInv PROVE CandidatesSound
  OBVIOUS
<1>1. /\ DOMAIN candidates = 1..Len(candidates) /\ DOMAIN research = 1..Len(research)
      /\ DOMAIN opEvents = 1..Len(opEvents)
  BY DEF CandidateInv, CandidateTypes
<1>2. GateCurrent
  BY <1>1 DEF CandidateInv, CandidateOK, GateCurrent
<1>3. SignedWasSimulated
  BY <1>1 DEF CandidateInv, CandidateOK, SignedWasSimulated
<1>4. LinkSound
  BY <1>1 DEF CandidateInv, Links, LinkSound
<1>5. FeedTellsStatus
  <2> SUFFICES ASSUME NEW i \in 1..Len(candidates), NEW k \in 1..Len(opEvents),
                      About(opEvents[k], candidates[i].id),
                      \A j \in 1..Len(opEvents) : About(opEvents[j], candidates[i].id) => j <= k
               PROVE  opEvents[k].status = candidates[i].status
    BY <1>1 DEF FeedTellsStatus, LastEvent, About
  <2>1. Len(opEvents) \in Nat
    BY DEF CandidateInv, CandidateTypes
  <2>2. \A l \in (k + 1)..Len(opEvents) : ~About(opEvents[l], candidates[i].id)
    BY <2>1
  <2> QED
    BY <2>2 DEF CandidateInv, LastTells
<1> QED
  BY <1>2, <1>3, <1>4, <1>5 DEF CandidatesSound

(* One more event in the capped feed.                                      *)
LEMMA FeedPushed ==
  ASSUME NEW ev \in Seq(OpEvent), NEW e \in OpEvent, NEW p, p = Pushed(ev, e, EventCap)
  PROVE  /\ p \in Seq(OpEvent)
         /\ \A id, status : LastTells(ev, id, status) /\ ~About(e, id) => LastTells(p, id, status)
         /\ \A id : About(e, id) => LastTells(p, id, e.status)
         /\ \A n, m \in Nat : /\ AboutKnown(ev, n) /\ n <= m
                              /\ e.type \in CandidateEventTypes => e.about \in 1..m
                              => AboutKnown(p, m)
<1>1. PICK a, len : a = Append(ev, e) /\ len = Len(ev)
  OBVIOUS
<1>2. len \in Nat /\ Len(a) = len + 1 /\ a[len + 1] = e /\ \A i \in 1..len : a[i] = ev[i]
  BY <1>1
<1>3. p \in Seq(OpEvent) /\ EndOf(p, a)
  BY <1>1, PushedEnd, EventCapAssumption
<1>4. PICK off, n : n = Len(p) /\ off = len + 1 - n
  OBVIOUS
<1>5. /\ n \in Nat \ {0} /\ off \in Nat /\ n + off = len + 1 /\ p[n] = e
      /\ \A i \in 1..(n - 1) : i + off \in 1..len /\ p[i] = ev[i + off]
  BY <1>2, <1>3, <1>4 DEF EndOf
<1>6. ASSUME NEW id, NEW status, LastTells(ev, id, status), ~About(e, id)
      PROVE  LastTells(p, id, status)
  <2> SUFFICES ASSUME NEW k \in 1..n, About(p[k], id),
                      \A l \in (k + 1)..n : ~About(p[l], id)
               PROVE  p[k].status = status
    BY <1>4 DEF LastTells
  <2>1. k \in 1..(n - 1)
    BY <1>5, <1>6
  <2>2. k + off \in 1..len /\ p[k] = ev[k + off]
    BY <1>5, <2>1
  <2>3. ASSUME NEW l \in (k + off + 1)..len PROVE ~About(ev[l], id)
    <3>1. PICK i : i = l - off
      OBVIOUS
    <3>2. i \in (k + 1)..(n - 1) /\ i \in 1..(n - 1) /\ i \in (k + 1)..n /\ i + off = l
      BY <3>1, <1>2, <1>5, <2>1, <2>3
    <3> QED
      BY <3>2, <1>5
  <2> QED
    BY <2>2, <2>3, <1>1, <1>6 DEF LastTells
<1>7. ASSUME NEW id, About(e, id) PROVE LastTells(p, id, e.status)
  <2> SUFFICES ASSUME NEW k \in 1..n, About(p[k], id),
                      \A l \in (k + 1)..n : ~About(p[l], id)
               PROVE  p[k].status = e.status
    BY <1>4 DEF LastTells
  <2>1. k = n
    BY <1>5, <1>7
  <2> QED
    BY <2>1, <1>5
<1>8. ASSUME NEW n0 \in Nat, NEW m \in Nat, AboutKnown(ev, n0), n0 <= m,
             e.type \in CandidateEventTypes => e.about \in 1..m
      PROVE  AboutKnown(p, m)
  <2> SUFFICES ASSUME NEW k \in 1..n, p[k].type \in CandidateEventTypes
               PROVE  p[k].about \in 1..m
    BY <1>4 DEF AboutKnown
  <2>1. CASE k = n
    BY <2>1, <1>5, <1>8
  <2>2. CASE k \in 1..(n - 1)
    <3>1. PICK j : j = k + off
      OBVIOUS
    <3>2. j \in 1..len /\ p[k] = ev[j]
      BY <2>2, <3>1, <1>5
    <3>3. ev[j].about \in 1..n0
      BY <3>2, <1>1, <1>8 DEF AboutKnown
    <3> QED
      BY <3>2, <3>3, <1>8
  <2> QED
    BY <2>1, <2>2, <1>5
<1> QED
  BY <1>3, <1>6, <1>7, <1>8

(* A new candidate at the end of the capped list.                          *)
LEMMA CandidatePushed ==
  ASSUME CandidateInv, NEW c, CandidateOK(c), c.id = candidateCount + 1,
         NEW p, p = Pushed(candidates, c, CandidateCap)
  PROVE  /\ p \in Seq(Candidate) /\ Increasing(p)
         /\ \A i \in 1..Len(p) :
               \/ p[i] = c
               \/ \E j \in 1..Len(candidates) : p[i] = candidates[j]
<1>1. PICK a, len : a = Append(candidates, c) /\ len = Len(candidates)
  OBVIOUS
<1>2. /\ candidates \in Seq(Candidate) /\ c \in Candidate /\ candidateCount \in Nat
      /\ Increasing(candidates)
      /\ \A i \in 1..len : candidates[i].id \in 1..candidateCount
  BY <1>1 DEF CandidateInv, CandidateTypes, IdsKnown, CandidateOK
<1>3. len \in Nat /\ Len(a) = len + 1 /\ a[len + 1] = c /\ \A i \in 1..len : a[i] = candidates[i]
  BY <1>1, <1>2
<1>4. p \in Seq(Candidate) /\ EndOf(p, a)
  BY <1>1, <1>2, PushedEnd, PlatformCandidatesAssumption
<1>5. PICK off, n : n = Len(p) /\ off = len + 1 - n
  OBVIOUS
<1>6. /\ n \in Nat \ {0} /\ off \in Nat /\ n + off = len + 1 /\ p[n] = c
      /\ \A i \in 1..(n - 1) : i + off \in 1..len /\ p[i] = candidates[i + off]
  BY <1>3, <1>4, <1>5 DEF EndOf
<1>7. Increasing(p)
  <2> SUFFICES ASSUME NEW i \in 1..n, NEW j \in 1..n, i < j PROVE p[i].id < p[j].id
    BY <1>5 DEF Increasing
  <2>1. PICK ii : ii = i + off
    OBVIOUS
  <2>2. i \in 1..(n - 1) /\ ii \in 1..len /\ p[i] = candidates[ii]
    BY <1>6, <2>1
  <2>3. CASE j = n
    <3>1. candidates[ii].id \in 1..candidateCount
      BY <1>2, <2>2
    <3> QED
      BY <2>2, <2>3, <3>1, <1>2, <1>6
  <2>4. CASE j \in 1..(n - 1)
    <3>1. PICK jj : jj = j + off
      OBVIOUS
    <3>2. jj \in 1..len /\ p[j] = candidates[jj] /\ ii < jj
      BY <2>4, <3>1, <2>1, <1>6
    <3> QED
      BY <2>2, <3>2, <1>1, <1>2 DEF Increasing
  <2> QED
    BY <2>3, <2>4, <1>6
<1>8. ASSUME NEW i \in 1..n
      PROVE  p[i] = c \/ \E j \in 1..len : p[i] = candidates[j]
  <2>1. CASE i = n
    BY <2>1, <1>6
  <2>2. CASE i \in 1..(n - 1)
    BY <2>2, <1>6
  <2> QED
    BY <2>1, <2>2, <1>6
<1> QED
  BY <1>1, <1>4, <1>5, <1>7, <1>8

(* A step that adds a candidate, links research items with its source to it *)
(* and appends an event about it or about none.                            *)
LEMMA CandidateAdded ==
  ASSUME CandidateInv, NEW source \in ResearchIds \cup {NoCandidate}, NEW filled \in SUBSET GateFields,
         NEW e \in OpEvent, opEvents' = Pushed(opEvents, e, EventCap),
         \/ e.type \notin CandidateEventTypes
         \/ e.about = candidateCount + 1 /\ e.status = "candidate_new",
         candidateCount' = candidateCount + 1,
         candidates' = Pushed(candidates, NewCandidate(candidateCount', source, filled), CandidateCap),
         research' \in Seq(Item), Len(research') = Len(research),
         \A i \in 1..Len(research) :
            /\ research'[i].id = research[i].id /\ research'[i].given = research[i].given
            /\ \/ research'[i].linked = research[i].linked
               \/ research'[i].linked = candidateCount + 1 /\ research[i].id = source
  PROVE  CandidateInv'
<1>1. PICK n, c : n = candidateCount /\ c = NewCandidate(n + 1, source, filled)
  OBVIOUS
<1>2. n \in Nat /\ n + 1 \in Nat /\ NoCandidate \notin Nat
  BY <1>1, PlatformCandidatesAssumption DEF CandidateInv, CandidateTypes
<1>3. /\ CandidateOK(c) /\ c.id = n + 1 /\ c.status = "candidate_new" /\ c.source = source
  <2>1. PICK miss : miss = MissingFields(filled, 0)
    OBVIOUS
  <2>2. miss \in SUBSET (GateFields \cup {"simulation_run"})
    BY <2>1 DEF MissingFields
  <2>3. c = [id |-> n + 1, source |-> source, status |-> "candidate_new", packed |-> FALSE,
             rollout |-> NoRollout, sims |-> 0, filled |-> filled, missing |-> miss]
    BY <1>1, <2>1 DEF NewCandidate, WithGate
  <2>4. c \in Candidate
    BY <1>2, <2>2, <2>3 DEF Candidate, CandidateStatuses
  <2> QED
    BY <2>1, <2>3, <2>4 DEF CandidateOK
<1>4. PICK p : p = candidates'
  OBVIOUS
<1>5. /\ p \in Seq(Candidate) /\ Increasing(p)
      /\ \A i \in 1..Len(p) : p[i] = c \/ \E j \in 1..Len(candidates) : p[i] = candidates[j]
  BY <1>1, <1>3, <1>4, CandidatePushed
<1>6. PICK ev : ev = opEvents'
  OBVIOUS
<1>7. /\ opEvents \in Seq(OpEvent) /\ AboutKnown(opEvents, n) /\ research \in Seq(Item)
      /\ \A i \in 1..Len(candidates) :
            /\ candidates[i].id \in 1..n /\ CandidateOK(candidates[i])
            /\ LastTells(opEvents, candidates[i].id, candidates[i].status)
  BY <1>1 DEF CandidateInv, CandidateTypes, IdsKnown
<1>8. /\ ev \in Seq(OpEvent)
      /\ \A id, status : LastTells(opEvents, id, status) /\ ~About(e, id) => LastTells(ev, id, status)
      /\ \A id : About(e, id) => LastTells(ev, id, e.status)
      /\ AboutKnown(ev, n + 1)
  <2>1. e.type \in CandidateEventTypes => e.about \in 1..(n + 1)
    BY <1>1, <1>2
  <2>2. n <= n + 1 /\ ev = Pushed(opEvents, e, EventCap)
    BY <1>2, <1>6
  <2> QED
    BY <2>1, <2>2, <1>2, <1>7, FeedPushed
<1>9. LastTells(ev, n + 1, "candidate_new")
  <2>1. CASE About(e, n + 1)
    BY <2>1, <1>1, <1>8 DEF About
  <2>2. CASE ~About(e, n + 1)
    <3>1. \A k \in 1..Len(opEvents) : ~About(opEvents[k], n + 1)
      BY <1>2, <1>7 DEF AboutKnown, About
    <3>2. LastTells(opEvents, n + 1, "candidate_new")
      BY <3>1 DEF LastTells
    <3> QED
      BY <2>2, <3>2, <1>8
  <2> QED
    BY <2>1, <2>2
<1>10. ASSUME NEW i \in 1..Len(p)
       PROVE  p[i].id \in 1..(n + 1) /\ CandidateOK(p[i]) /\ LastTells(ev, p[i].id, p[i].status)
  <2>1. CASE p[i] = c
    BY <2>1, <1>2, <1>3, <1>9
  <2>2. ASSUME NEW j \in 1..Len(candidates), p[i] = candidates[j]
        PROVE  p[i].id \in 1..(n + 1) /\ CandidateOK(p[i]) /\ LastTells(ev, p[i].id, p[i].status)
    <3>1. /\ candidates[j].id \in 1..n /\ CandidateOK(candidates[j])
          /\ LastTells(opEvents, candidates[j].id, candidates[j].status)
      BY <1>7
    <3>2. ~About(e, candidates[j].id)
      BY <3>1, <1>1, <1>2 DEF About
    <3> QED
      BY <2>2, <3>1, <3>2, <1>2, <1>8
  <2> QED
    BY <2>1, <2>2, <1>5
<1>11. \A i \in 1..Len(research) : research[i].linked \in 1..n \cup {NoCandidate}
  BY <1>1 DEF CandidateInv, IdsKnown
<1>12. \A i \in 1..Len(research') : research'[i].linked \in 1..(n + 1) \cup {NoCandidate}
  BY <1>1, <1>2, <1>11
<1>13. ASSUME NEW i \in 1..Len(research), NEW j \in 1..Len(p), research'[i].linked = p[j].id
       PROVE  p[j].source = research'[i].id \/ research'[i].linked = research'[i].given
  <2>1. CASE p[j] = c
    <3>1. research[i].linked # n + 1
      BY <1>2, <1>11
    <3>2. research[i].id = source /\ research'[i].id = research[i].id
      BY <2>1, <3>1, <1>1, <1>3, <1>13
    <3> QED
      BY <2>1, <3>2, <1>3
  <2>2. ASSUME NEW k \in 1..Len(candidates), p[j] = candidates[k]
        PROVE  p[j].source = research'[i].id \/ research'[i].linked = research'[i].given
    <3>1. candidates[k].id \in 1..n
      BY <1>7
    <3>2. research[i].linked = candidates[k].id /\ research'[i].linked = research[i].linked
      BY <2>2, <3>1, <1>1, <1>2, <1>13, SMTT(20)
    <3> QED
      BY <2>2, <3>2 DEF CandidateInv, Links
  <2> QED
    BY <2>1, <2>2, <1>5
<1>14. Links(research', p)
  BY <1>13 DEF Links
<1> QED
  BY <1>1, <1>2, <1>4, <1>5, <1>6, <1>8, <1>10, <1>12, <1>14 DEF CandidateInv, CandidateTypes, IdsKnown

(* A step that changes the one candidate with an id and tells its status.  *)
LEMMA CandidateChanged ==
  ASSUME CandidateInv, NEW id, NEW i \in FirstWith(candidates, id),
         NEW c, CandidateOK(c), c.id = candidates[i].id, c.source = candidates[i].source,
         candidates' = [candidates EXCEPT ![i] = c],
         NEW e \in OpEvent, About(e, id), e.status = c.status,
         opEvents' = Pushed(opEvents, e, EventCap), UNCHANGED <<research, candidateCount>>
  PROVE  CandidateInv'
<1>1. PICK n, p, ev, len : n = candidateCount /\ p = candidates' /\ ev = opEvents' /\ len = Len(candidates)
  OBVIOUS
<1>2. /\ n \in Nat /\ opEvents \in Seq(OpEvent) /\ candidates \in Seq(Candidate)
      /\ AboutKnown(opEvents, n) /\ Increasing(candidates) /\ c \in Candidate
      /\ \A j \in 1..len : /\ candidates[j].id \in 1..n /\ CandidateOK(candidates[j])
                           /\ LastTells(opEvents, candidates[j].id, candidates[j].status)
  BY <1>1 DEF CandidateInv, CandidateTypes, IdsKnown, CandidateOK
<1>3. len \in Nat /\ i \in 1..len /\ candidates[i].id = id /\ c.id = id /\ id \in 1..n
  BY <1>1, <1>2 DEF FirstWith
<1>4. /\ p \in Seq(Candidate) /\ Len(p) = len /\ p[i] = c
      /\ \A j \in 1..len : j # i => p[j] = candidates[j]
  BY <1>1, <1>2, <1>3
<1>5. \A j \in 1..len : j # i => candidates[j].id # id
  <2> SUFFICES ASSUME NEW j \in 1..len, j # i PROVE candidates[j].id # id
    OBVIOUS
  <2>1. candidates[j].id \in Nat /\ candidates[i].id \in Nat
    BY <1>2, <1>3
  <2>2. CASE j < i
    <3>1. candidates[j].id < candidates[i].id
      BY <2>2, <1>1, <1>2, <1>3 DEF Increasing
    <3> QED
      BY <2>1, <3>1, <1>3
  <2>3. CASE i < j
    <3>1. candidates[i].id < candidates[j].id
      BY <2>3, <1>1, <1>2, <1>3 DEF Increasing
    <3> QED
      BY <2>1, <3>1, <1>3
  <2> QED
    BY <2>2, <2>3, <1>3
<1>6. /\ ev \in Seq(OpEvent)
      /\ \A x, status : LastTells(opEvents, x, status) /\ ~About(e, x) => LastTells(ev, x, status)
      /\ LastTells(ev, id, c.status)
      /\ AboutKnown(ev, n)
  <2>1. e.type \in CandidateEventTypes => e.about \in 1..n
    BY <1>3 DEF About
  <2>2. n <= n /\ ev = Pushed(opEvents, e, EventCap)
    BY <1>1, <1>2
  <2> QED
    BY <2>1, <2>2, <1>2, FeedPushed
<1>7. ASSUME NEW j \in 1..len
      PROVE  p[j].id \in 1..n /\ CandidateOK(p[j]) /\ LastTells(ev, p[j].id, p[j].status)
  <2>1. CASE j = i
    BY <2>1, <1>3, <1>4, <1>6
  <2>2. CASE j # i
    <3>1. ~About(e, candidates[j].id)
      BY <2>2, <1>5 DEF About
    <3> QED
      BY <2>2, <3>1, <1>2, <1>4, <1>6
  <2> QED
    BY <2>1, <2>2
<1>8. \A j \in 1..len : p[j].id = candidates[j].id /\ p[j].source = candidates[j].source
  BY <1>4
<1>9. Increasing(p)
  BY <1>1, <1>2, <1>4, <1>8 DEF Increasing
<1>10. Links(research, p)
  <2>1. Links(research, candidates)
    BY DEF CandidateInv
  <2> QED
    BY <2>1, <1>1, <1>4, <1>8 DEF Links
<1>11. /\ research \in Seq(Item)
       /\ \A j \in 1..Len(research) : research[j].linked \in 1..n \cup {NoCandidate}
  BY <1>1 DEF CandidateInv, CandidateTypes, IdsKnown
<1>12. candidateCount' = n /\ research' = research
  BY <1>1
<1> QED
  BY <1>1, <1>2, <1>4, <1>6, <1>7, <1>9, <1>10, <1>11, <1>12 DEF CandidateInv, CandidateTypes, IdsKnown

(* A step that leaves the candidates alone and gives no item a new link.   *)
LEMMA ResearchChanged ==
  ASSUME CandidateInv, UNCHANGED <<candidates, candidateCount>>,
         NEW e \in OpEvent, e.type \notin CandidateEventTypes,
         opEvents' = Pushed(opEvents, e, EventCap), research' \in Seq(Item),
         \A i \in 1..Len(research') :
            \/ /\ research'[i].linked \in 1..candidateCount \cup {NoCandidate}
               /\ research'[i].given = research'[i].linked
            \/ \E j \in 1..Len(research) : /\ research'[i].linked = research[j].linked
                                           /\ research'[i].id = research[j].id
                                           /\ research'[i].given = research[j].given
  PROVE  CandidateInv'
<1>1. PICK n, ev, rs : n = candidateCount /\ ev = opEvents' /\ rs = research'
  OBVIOUS
<1>2. /\ n \in Nat /\ opEvents \in Seq(OpEvent) /\ candidates \in Seq(Candidate)
      /\ AboutKnown(opEvents, n) /\ Increasing(candidates) /\ NoCandidate \notin Nat
      /\ \A j \in 1..Len(candidates) :
            /\ candidates[j].id \in 1..n /\ CandidateOK(candidates[j])
            /\ LastTells(opEvents, candidates[j].id, candidates[j].status)
  BY <1>1, PlatformCandidatesAssumption DEF CandidateInv, CandidateTypes, IdsKnown
<1>3. ev \in Seq(OpEvent) /\ AboutKnown(ev, n)
      /\ \A x, status : LastTells(opEvents, x, status) => LastTells(ev, x, status)
  <2>1. n <= n /\ ev = Pushed(opEvents, e, EventCap) /\ \A x : ~About(e, x)
    BY <1>1, <1>2 DEF About
  <2> QED
    BY <2>1, <1>2, FeedPushed
<1>4. /\ \A i \in 1..Len(research) : research[i].linked \in 1..n \cup {NoCandidate}
      /\ Links(research, candidates)
  BY <1>1 DEF CandidateInv, IdsKnown
<1>5. \A i \in 1..Len(rs) : rs[i].linked \in 1..n \cup {NoCandidate}
  BY <1>1, <1>4
<1>6. Links(rs, candidates)
  <2> SUFFICES ASSUME NEW i \in 1..Len(rs), NEW j \in 1..Len(candidates),
                      rs[i].linked = candidates[j].id, rs[i].linked # rs[i].given
               PROVE  candidates[j].source = rs[i].id
    BY DEF Links
  <2>1. PICK k \in 1..Len(research) : /\ rs[i].linked = research[k].linked
                                      /\ rs[i].id = research[k].id
                                      /\ rs[i].given = research[k].given
    BY <1>1
  <2> QED
    BY <2>1, <1>4 DEF Links
<1> QED
  BY <1>1, <1>2, <1>3, <1>5, <1>6 DEF CandidateInv, CandidateTypes, IdsKnown

LEMMA CandidateOps ==
  ASSUME NEW c, CandidateOK(c), NEW filled \in SUBSET GateFields, NEW to \in CandidateStatuses
  PROVE  /\ /\ CanTransition(c.status, to)
            /\ to = "signed" => MissingFields(c.filled, c.sims) = {}
            => /\ CandidateOK(Patched(c, to, filled)) /\ Patched(c, to, filled).id = c.id
               /\ Patched(c, to, filled).source = c.source /\ Patched(c, to, filled).status = to
         /\ CandidateOK(Simulated(c)) /\ Simulated(c).id = c.id
         /\ Simulated(c).source = c.source /\ Simulated(c).status = "simulated"
         /\ CandidateOK(Refilled(c, filled)) /\ Refilled(c, filled).id = c.id
         /\ Refilled(c, filled).source = c.source /\ Refilled(c, filled).status = c.status
<1>1. /\ c \in Candidate /\ (c.packed => c.sims > 0)
      /\ c.status \in {"signed", "deployed"} => c.packed
  BY DEF CandidateOK
<1>2. \A f \in SUBSET GateFields, s \in Nat :
         MissingFields(f, s) \in SUBSET (GateFields \cup {"simulation_run"})
  BY DEF MissingFields
<1>3. ASSUME CanTransition(c.status, to), to = "signed" => MissingFields(c.filled, c.sims) = {}
      PROVE  /\ CandidateOK(Patched(c, to, filled)) /\ Patched(c, to, filled).id = c.id
             /\ Patched(c, to, filled).source = c.source /\ Patched(c, to, filled).status = to
  <2>1. PICK packed, rollout, miss :
            /\ packed = (c.packed \/ to = "signed")
            /\ rollout = (IF to = "deployed" THEN "observe_only_active" ELSE c.rollout)
            /\ miss = MissingFields(filled, c.sims)
    OBVIOUS
  <2>2. /\ packed \in BOOLEAN /\ rollout \in {NoRollout, "observe_only_active", "retired"}
        /\ miss \in SUBSET (GateFields \cup {"simulation_run"})
    BY <1>1, <1>2, <2>1 DEF Candidate
  <2>3. PICK r : r = [c EXCEPT !.status = to, !.packed = packed, !.rollout = rollout,
                               !.filled = filled, !.missing = miss]
    OBVIOUS
  <2>4. /\ r \in Candidate /\ r.status = to /\ r.packed = packed /\ r.filled = filled
        /\ r.missing = miss /\ r.sims = c.sims /\ r.id = c.id /\ r.source = c.source
    BY <1>1, <2>2, <2>3 DEF Candidate
  <2>5. Patched(c, to, filled) = r
    BY <1>1, <2>1, <2>3 DEF Patched, WithGate, Candidate
  <2>6. packed => c.sims > 0
    BY <1>1, <1>3, <2>1 DEF MissingFields, Candidate
  <2>7. to = "deployed" => c.packed
    BY <1>1, <1>3 DEF CanTransition, Lifecycle, Candidate, CandidateStatuses
  <2>8. to \in {"signed", "deployed"} => packed
    BY <2>1, <2>7
  <2> QED
    BY <2>1, <2>4, <2>5, <2>6, <2>8 DEF CandidateOK
<1>4. /\ CandidateOK(Simulated(c)) /\ Simulated(c).id = c.id
      /\ Simulated(c).source = c.source /\ Simulated(c).status = "simulated"
  <2>1. PICK sims, miss : /\ sims = (IF c.sims < SimCap THEN c.sims + 1 ELSE c.sims)
                          /\ miss = MissingFields(c.filled, sims)
    OBVIOUS
  <2>2. sims \in Nat /\ sims >= c.sims /\ miss \in SUBSET (GateFields \cup {"simulation_run"})
    <3>1. c.sims \in Nat /\ SimCap \in Nat /\ c.filled \in SUBSET GateFields
      BY <1>1, PlatformCandidatesAssumption DEF Candidate
    <3>2. sims \in Nat /\ sims >= c.sims
      BY <3>1, <2>1
    <3> QED
      BY <3>1, <3>2, <1>2, <2>1
  <2>3. PICK r : r = [c EXCEPT !.status = "simulated", !.sims = sims, !.missing = miss]
    OBVIOUS
  <2>4. /\ r \in Candidate /\ r.status = "simulated" /\ r.packed = c.packed /\ r.filled = c.filled
        /\ r.missing = miss /\ r.sims = sims /\ r.id = c.id /\ r.source = c.source
    BY <1>1, <2>2, <2>3 DEF Candidate, CandidateStatuses
  <2>5. Simulated(c) = r
    BY <1>1, <2>1, <2>3 DEF Simulated, WithGate, Candidate
  <2>6. c.packed => sims > 0
    BY <1>1, <2>2 DEF Candidate
  <2> QED
    BY <2>1, <2>4, <2>5, <2>6 DEF CandidateOK
<1>5. /\ CandidateOK(Refilled(c, filled)) /\ Refilled(c, filled).id = c.id
      /\ Refilled(c, filled).source = c.source /\ Refilled(c, filled).status = c.status
  <2>1. PICK miss : miss = MissingFields(filled, c.sims)
    OBVIOUS
  <2>2. miss \in SUBSET (GateFields \cup {"simulation_run"})
    BY <1>1, <1>2, <2>1 DEF Candidate
  <2>3. PICK r : r = [c EXCEPT !.filled = filled, !.missing = miss]
    OBVIOUS
  <2>4. /\ r \in Candidate /\ r.status = c.status /\ r.packed = c.packed /\ r.filled = filled
        /\ r.missing = miss /\ r.sims = c.sims /\ r.id = c.id /\ r.source = c.source
    BY <1>1, <2>2, <2>3 DEF Candidate
  <2>5. Refilled(c, filled) = r
    BY <1>1, <2>1, <2>3 DEF Refilled, WithGate, Candidate
  <2> QED
    BY <1>1, <2>1, <2>4, <2>5 DEF CandidateOK
<1> QED
  BY <1>3, <1>4, <1>5

LEMMA CandidateInvInit == CandidateInit => CandidateInv
<1> SUFFICES ASSUME CandidateInit PROVE CandidateInv
  OBVIOUS
<1>1. /\ opEvents \in Seq(OpEvent) /\ Len(opEvents) = 0
      /\ candidates \in Seq(Candidate) /\ Len(candidates) = 0 /\ candidateCount = 0
  BY DEF CandidateInit
<1>2. PICK Seed : Seed = [id : ResearchIds, status : ResearchStatuses, linked : {NoCandidate},
                          given : {NoCandidate}]
  OBVIOUS
<1>3. research \in Seq(Seed)
  BY <1>2, PlatformCandidatesAssumption DEF CandidateInit
<1>4. \A i \in 1..Len(research) : research[i] \in Seed
  BY <1>3
<1>5. \A i \in 1..Len(research) : research[i] \in Item /\ research[i].linked = NoCandidate
  BY <1>2, <1>4 DEF Item
<1>6. research \in Seq(Item)
  <2>1. research = [i \in 1..Len(research) |-> research[i]] /\ Len(research) \in Nat
    BY <1>3
  <2> QED
    BY <2>1, <1>5
<1> QED
  BY <1>1, <1>5, <1>6
  DEF CandidateInv, CandidateTypes, IdsKnown, AboutKnown, Increasing, Links

(* What TLC checks of the candidate workflow with a few items holds for any *)
(* number of research items, candidates and feed entries and for any caps: *)
(* the gate recomputeCandidateGate stores is of the current fields, only   *)
(* simulated candidates get signed, a research item links only to          *)
(* candidates opened from it or to the one it was posted with, and the     *)
(* newest event shows the status.                                          *)
THEOREM CandidatesHold == CandidateSpec => []CandidatesSound
<1>1. CandidateInv /\ [CandidateNext]_candidateVars => CandidateInv'
  <2> SUFFICES ASSUME CandidateInv, [CandidateNext]_candidateVars PROVE CandidateInv'
    OBVIOUS
  <2>1. /\ research \in Seq(Item) /\ candidates \in Seq(Candidate) /\ candidateCount \in Nat
        /\ DOMAIN research = 1..Len(research) /\ DOMAIN candidates = 1..Len(candidates)
    BY DEF CandidateInv, CandidateTypes
  <2>2. \A id, i : i \in FirstWith(research, id) =>
            i \in 1..Len(research) /\ research[i].id = id /\ research[i] \in Item
    BY <2>1 DEF FirstWith
  <2>3. \A id, i : i \in FirstWith(candidates, id) =>
            i \in 1..Len(candidates) /\ candidates[i].id = id /\ CandidateOK(candidates[i])
    BY <2>1 DEF FirstWith, CandidateInv
  <2>4. ASSUME NEW id \in ResearchIds, NEW status \in SentStatuses,
               NEW linked \in {NoCandidate} \cup 1..candidateCount,
               PostResearch(id, status, linked)
        PROVE  CandidateInv'
    <3>1. PICK e, x, a : /\ e = [type |-> "research.ingested", status |-> status, about |-> id]
                         /\ x = [id |-> id, status |-> status, linked |-> linked, given |-> linked]
                         /\ a = Append(research, x)
      OBVIOUS
    <3>2. status \in ResearchStatuses
      BY PlatformCandidatesAssumption
    <3>3. /\ e \in OpEvent /\ e.type \notin CandidateEventTypes /\ x \in Item
          /\ x.linked \in 1..candidateCount \cup {NoCandidate} /\ x.given = x.linked
      BY <2>1, <3>1, <3>2 DEF OpEvent, Item, CandidateEventTypes
    <3>4. /\ opEvents' = Pushed(opEvents, e, EventCap) /\ research' = Pushed(research, x, ResearchCap)
          /\ UNCHANGED <<candidates, candidateCount>>
      BY <2>4, <3>1 DEF PostResearch, AppendOp
    <3>5. research' \in Seq(Item) /\ EndOf(research', a)
      BY <2>1, <3>1, <3>3, <3>4, PushedEnd, PlatformCandidatesAssumption
    <3>6. /\ Len(research) \in Nat /\ Len(a) = Len(research) + 1 /\ a[Len(research) + 1] = x
          /\ \A j \in 1..Len(research) : a[j] = research[j]
      BY <2>1, <3>1, <3>3
    <3>7. ASSUME NEW i \in 1..Len(research')
          PROVE  \/ /\ research'[i].linked \in 1..candidateCount \cup {NoCandidate}
                    /\ research'[i].given = research'[i].linked
                 \/ \E j \in 1..Len(research) : /\ research'[i].linked = research[j].linked
                                                /\ research'[i].id = research[j].id
                                                /\ research'[i].given = research[j].given
      <4>1. PICK k \in 1..(Len(research) + 1) : research'[i] = a[k]
        BY <3>5, <3>6 DEF EndOf
      <4> QED
        BY <4>1, <3>3, <3>6
    <3> QED
      BY <3>3, <3>4, <3>5, <3>7, ResearchChanged
  <2>5. ASSUME NEW id \in ResearchIds, NEW status \in ResearchStatuses, PatchResearch(id, status)
        PROVE  CandidateInv'
    <3>1. PICK e : e = [type |-> "research.updated", status |-> status, about |-> id]
      OBVIOUS
    <3>2. e \in OpEvent
      BY <3>1 DEF OpEvent
    <3>3. e \in OpEvent /\ e.type \notin CandidateEventTypes
      BY <3>1, <3>2 DEF CandidateEventTypes
    <3>4. PICK i \in FirstWith(research, id) : research' = [research EXCEPT ![i].status = status]
      BY <2>5 DEF PatchResearch
    <3>5. opEvents' = Pushed(opEvents, e, EventCap) /\ UNCHANGED <<candidates, candidateCount>>
      BY <2>5, <3>1 DEF PatchResearch, AppendOp
    <3>6. PICK x : x = [research[i] EXCEPT !.status = status]
      OBVIOUS
    <3>7. /\ x \in Item /\ x.linked = research[i].linked /\ x.id = research[i].id
          /\ x.given = research[i].given
      <4>1. research[i] \in Item
        BY <2>2
      <4> QED
        BY <4>1, <3>6 DEF Item
    <3>8. research' = [research EXCEPT ![i] = x] /\ i \in 1..Len(research)
      BY <2>2, <3>4, <3>6
    <3>9. /\ research' \in Seq(Item) /\ Len(research') = Len(research)
          /\ \A j \in 1..Len(research) : /\ research'[j].linked = research[j].linked
                                         /\ research'[j].id = research[j].id
                                         /\ research'[j].given = research[j].given
      BY <2>1, <3>7, <3>8
    <3> QED
      BY <3>3, <3>5, <3>9, ResearchChanged
  <2>6. ASSUME NEW id \in ResearchIds, NEW evidence \in SUBSET GateFields, PromoteResearch(id, evidence)
        PROVE  CandidateInv'
    <3>1. PICK e, n : /\ e = [type |-> "research.promoted", status |-> "promoted", about |-> id]
                      /\ n = candidateCount + 1
      OBVIOUS
    <3>2. e \in OpEvent /\ e.type \notin CandidateEventTypes
      BY <3>1 DEF OpEvent, CandidateEventTypes, ResearchStatuses
    <3>3. /\ opEvents' = Pushed(opEvents, e, EventCap) /\ candidateCount' = candidateCount + 1
          /\ candidates' = Pushed(candidates, NewCandidate(candidateCount', id, evidence), CandidateCap)
      BY <2>6, <3>1 DEF PromoteResearch, AppendOp
    <3>4. PICK i \in FirstWith(research, id) :
             research' = [research EXCEPT ![i] = [@ EXCEPT !.status = "promoted",
                                                           !.linked = candidateCount']]
      BY <2>6 DEF PromoteResearch
    <3>5. PICK x : x = [research[i] EXCEPT !.status = "promoted", !.linked = n]
      OBVIOUS
    <3>6. /\ x \in Item /\ x.linked = n /\ x.id = research[i].id /\ research[i].id = id
          /\ x.given = research[i].given
      <4>1. research[i] \in Item /\ research[i].id = id /\ n \in Nat
        BY <2>1, <2>2, <3>1
      <4> QED
        BY <4>1, <3>5 DEF Item, ResearchStatuses
    <3>7. research' = [research EXCEPT ![i] = x] /\ i \in 1..Len(research)
      BY <2>2, <3>1, <3>3, <3>4, <3>5
    <3>8. /\ research' \in Seq(Item) /\ Len(research') = Len(research)
          /\ \A j \in 1..Len(research) :
                /\ research'[j].id = research[j].id /\ research'[j].given = research[j].given
                /\ \/ research'[j].linked = research[j].linked
                   \/ research'[j].linked = candidateCount + 1 /\ research[j].id = id
      BY <2>1, <3>1, <3>6, <3>7
    <3> QED
      BY <3>2, <3>3, <3>8, CandidateAdded
  <2>7. ASSUME NEW source \in ResearchIds \cup {NoCandidate}, NEW filled \in SUBSET GateFields,
               CreateCandidate(source, filled)
        PROVE  CandidateInv'
    <3>1. PICK e, n : /\ e = [type |-> "detection_candidate.created", status |-> "candidate_new",
                              about |-> n]
                      /\ n = candidateCount + 1
      OBVIOUS
    <3>2. e \in OpEvent /\ e.about = candidateCount + 1 /\ e.status = "candidate_new" /\ n \in Nat
      BY <2>1, <3>1 DEF OpEvent, CandidateEventTypes, CandidateStatuses
    <3>3. candidateCount' = n
      BY <2>7, <3>1 DEF CreateCandidate
    <3>4. /\ opEvents' = Pushed(opEvents, e, EventCap)
          /\ candidates' = Pushed(candidates, NewCandidate(candidateCount', source, filled), CandidateCap)
          /\ research' = [i \in DOMAIN research |-> LinkedBack(research[i], source, n)]
      BY <2>7, <3>1, <3>3 DEF CreateCandidate, AppendOp
    <3>5. ASSUME NEW x \in Item
          PROVE  /\ LinkedBack(x, source, n) \in Item /\ LinkedBack(x, source, n).id = x.id
                 /\ LinkedBack(x, source, n).given = x.given
                 /\ \/ LinkedBack(x, source, n).linked = x.linked
                    \/ LinkedBack(x, source, n).linked = n /\ x.id = source
      <4>1. CASE source = NoCandidate \/ x.id # source
        BY <4>1 DEF LinkedBack
      <4>2. CASE ~(source = NoCandidate \/ x.id # source)
        <5>1. PICK st : st = (IF x.status = "ready_for_pack" THEN "promoted" ELSE x.status)
          OBVIOUS
        <5>2. st \in ResearchStatuses
          BY <5>1 DEF Item, ResearchStatuses
        <5>3. LinkedBack(x, source, n) = [x EXCEPT !.linked = n, !.status = st]
          BY <4>2, <5>1 DEF LinkedBack, Item
        <5> QED
          BY <4>2, <5>2, <5>3, <3>2 DEF Item
      <4> QED
        BY <4>1, <4>2
    <3>6. /\ research' \in Seq(Item) /\ Len(research') = Len(research)
          /\ \A j \in 1..Len(research) : research'[j] = LinkedBack(research[j], source, n)
      BY <2>1, <3>4, <3>5
    <3>7. \A j \in 1..Len(research) :
             /\ research'[j].id = research[j].id /\ research'[j].given = research[j].given
             /\ \/ research'[j].linked = research[j].linked
                \/ research'[j].linked = candidateCount + 1 /\ research[j].id = source
      BY <2>1, <3>1, <3>5, <3>6
    <3> QED
      BY <3>1, <3>2, <3>3, <3>4, <3>6, <3>7, CandidateAdded
  <2>8. ASSUME NEW id \in 1..candidateCount, NEW to \in CandidateStatuses,
               NEW filled \in SUBSET GateFields, PatchCandidate(id, to, filled)
        PROVE  CandidateInv'
    <3>1. PICK e : e = [type |-> "detection_candidate.patched", status |-> to, about |-> id]
      OBVIOUS
    <3>2. e \in OpEvent /\ About(e, id) /\ e.status = to
      BY <2>1, <3>1 DEF OpEvent, About, CandidateEventTypes
    <3>3. PICK i \in FirstWith(candidates, id) :
             /\ CanTransition(candidates[i].status, to)
             /\ to = "signed" => MissingFields(candidates[i].filled, candidates[i].sims) = {}
             /\ candidates' = [candidates EXCEPT ![i] = Patched(@, to, filled)]
      BY <2>8 DEF PatchCandidate
    <3>4. opEvents' = Pushed(opEvents, e, EventCap) /\ UNCHANGED <<research, candidateCount>>
      BY <2>8, <3>1 DEF PatchCandidate, AppendOp
    <3>5. PICK old, c : old = candidates[i] /\ c = Patched(old, to, filled)
      OBVIOUS
    <3>6. /\ CandidateOK(c) /\ c.id = candidates[i].id /\ c.source = candidates[i].source
          /\ c.status = to
      <4>1. CandidateOK(old)
        BY <2>3, <3>3, <3>5
      <4>2. /\ CanTransition(old.status, to)
            /\ to = "signed" => MissingFields(old.filled, old.sims) = {}
        BY <3>3, <3>5
      <4> QED
        BY <4>1, <4>2, <3>5, CandidateOps
    <3>7. candidates' = [candidates EXCEPT ![i] = c]
      BY <3>3, <3>5
    <3> QED
      BY <3>2, <3>4, <3>6, <3>7, CandidateChanged
  <2>9. ASSUME NEW id \in 1..candidateCount, SimulateCandidate(id) PROVE CandidateInv'
    <3>1. PICK e : e = [type |-> "detection_candidate.simulated", status |-> "simulated", about |-> id]
      OBVIOUS
    <3>2. e \in OpEvent /\ About(e, id) /\ e.status = "simulated"
      BY <2>1, <3>1 DEF OpEvent, About, CandidateEventTypes, CandidateStatuses
    <3>3. PICK i \in FirstWith(candidates, id) : candidates' = [candidates EXCEPT ![i] = Simulated(@)]
      BY <2>9 DEF SimulateCandidate
    <3>4. opEvents' = Pushed(opEvents, e, EventCap) /\ UNCHANGED <<research, candidateCount>>
      BY <2>9, <3>1 DEF SimulateCandidate, AppendOp
    <3>5. PICK c : c = Simulated(candidates[i])
      OBVIOUS
    <3>6. {} \in SUBSET GateFields /\ "retired" \in CandidateStatuses
      BY DEF CandidateStatuses
    <3>7. /\ CandidateOK(c) /\ c.id = candidates[i].id /\ c.source = candidates[i].source
          /\ c.status = "simulated"
      BY <2>3, <3>3, <3>5, <3>6, CandidateOps
    <3>8. candidates' = [candidates EXCEPT ![i] = c]
      BY <3>3, <3>5
    <3> QED
      BY <3>2, <3>4, <3>7, <3>8, CandidateChanged
  <2>10. ASSUME NEW id \in 1..candidateCount, RetireCandidate(id) PROVE CandidateInv'
    <3>1. PICK e : e = [type |-> "detection_candidate.retired", status |-> "retired", about |-> id]
      OBVIOUS
    <3>2. e \in OpEvent /\ About(e, id) /\ e.status = "retired"
      BY <2>1, <3>1 DEF OpEvent, About, CandidateEventTypes, CandidateStatuses
    <3>3. PICK i \in FirstWith(candidates, id) :
             candidates' = [candidates EXCEPT ![i].status = "retired", ![i].rollout = "retired"]
      BY <2>10 DEF RetireCandidate
    <3>4. opEvents' = Pushed(opEvents, e, EventCap) /\ UNCHANGED <<research, candidateCount>>
      BY <2>10, <3>1 DEF RetireCandidate, AppendOp
    <3>5. PICK c : c = [candidates[i] EXCEPT !.status = "retired", !.rollout = "retired"]
      OBVIOUS
    <3>6. i \in 1..Len(candidates) /\ candidates[i] \in Candidate /\ CandidateOK(candidates[i])
      BY <2>3, <3>3 DEF CandidateOK
    <3>7. /\ c \in Candidate /\ c.status = "retired" /\ c.id = candidates[i].id
          /\ c.source = candidates[i].source /\ c.sims = candidates[i].sims
          /\ c.filled = candidates[i].filled /\ c.missing = candidates[i].missing
          /\ c.packed = candidates[i].packed
      BY <3>5, <3>6 DEF Candidate, CandidateStatuses
    <3>8. CandidateOK(c)
      BY <3>6, <3>7 DEF CandidateOK
    <3>9. candidates' = [candidates EXCEPT ![i] = c]
      BY <2>1, <3>3, <3>5, <3>6
    <3> QED
      BY <3>2, <3>4, <3>7, <3>8, <3>9, CandidateChanged
  <2>11. CASE PostOperationalEvent /\ UNCHANGED <<research, candidates, candidateCount>>
    <3>1. PICK e : e = [type |-> "client", status |-> "ok", about |-> "client"]
      OBVIOUS
    <3>2. e \in OpEvent /\ e.type \notin CandidateEventTypes
      BY <3>1 DEF OpEvent, CandidateEventTypes
    <3>3. opEvents' = Pushed(opEvents, e, EventCap)
      BY <2>11, <3>1 DEF PostOperationalEvent, AppendOp
    <3> QED
      BY <2>1, <2>11, <3>2, <3>3, ResearchChanged
  <2>12. ASSUME NEW id \in 1..candidateCount, NEW filled \in SUBSET GateFields,
                RefillCandidate(id, filled)
         PROVE  CandidateInv'
    <3>1. PICK i \in FirstWith(candidates, id) :
             /\ candidates' = [candidates EXCEPT ![i] = Refilled(@, filled)]
             /\ AppendOp("detection_candidate.patched", candidates[i].status, id)
      BY <2>12 DEF RefillCandidate
    <3>2. PICK e, c : /\ e = [type |-> "detection_candidate.patched",
                              status |-> candidates[i].status, about |-> id]
                      /\ c = Refilled(candidates[i], filled)
      OBVIOUS
    <3>3. CandidateOK(candidates[i]) /\ candidates[i].status \in CandidateStatuses
      BY <2>3, <3>1 DEF CandidateOK, Candidate
    <3>4. e \in OpEvent /\ About(e, id) /\ e.status = candidates[i].status
      BY <2>1, <3>2, <3>3 DEF OpEvent, About, CandidateEventTypes
    <3>5. opEvents' = Pushed(opEvents, e, EventCap) /\ UNCHANGED <<research, candidateCount>>
      BY <2>12, <3>1, <3>2 DEF RefillCandidate, AppendOp
    <3>6. /\ CandidateOK(c) /\ c.id = candidates[i].id /\ c.source = candidates[i].source
          /\ c.status = candidates[i].status
      BY <3>2, <3>3, CandidateOps
    <3>7. candidates' = [candidates EXCEPT ![i] = c]
      BY <3>1, <3>2
    <3> QED
      BY <3>4, <3>5, <3>6, <3>7, CandidateChanged
  <2>13. CASE UNCHANGED candidateVars
    BY <2>13 DEF candidateVars, CandidateInv, CandidateTypes, IdsKnown
  <2> QED
    BY <2>4, <2>5, <2>6, <2>7, <2>8, <2>9, <2>10, <2>11, <2>12, <2>13 DEF CandidateNext
<1> QED
  BY <1>1, CandidateInvInit, CandidateInvSound, PTL DEF CandidateSpec
-----------------------------------------------------------------------------
(***************************************************************************)
(* Ingest.  IngestInv has four parts: types; what a request under way has  *)
(* established of its batch, with the tracker; what holds as long as the   *)
(* tracker could know every event; and how far the index is behind.        *)
(***************************************************************************)
Stages == {"publish", "remember", "append", "prune"}
ReqRec == [stage : Stages, kind : {"http", "grpc"},
           batch : Batches, known : SUBSET EventIds, at : Nat \ {0}]

StoreTypes ==
    /\ lines \in Seq(EventIds) /\ rotated \subseteq EventIds /\ glued \subseteq EventIds
    /\ counted \in Nat /\ indexed \in Nat /\ kills \in Nat /\ faults \in Nat
    /\ indexing = {} \/ \E h \in Handlers : indexing = {h}

IngestTypes ==
    /\ backend \in {"file", "sqlite"}
    /\ request \in [Handlers -> ReqRec \cup {FreeHandler}]
    /\ tracker \in Seq(EventIds)
    /\ emitted \in [EventIds -> Nat]
    /\ StoreTypes

(* The events before the one in hand, and that one once it is published,   *)
(* are known or published; before the first append all are.                *)
Passed(q, i) == q.stage \in {"append", "prune"} \/ i < q.at \/ (q.stage = "remember" /\ i = q.at)

ReqOK(q, stored, em) ==
    q # FreeHandler =>
        /\ q.known \subseteq stored
        /\ \A i \in 1..Len(q.batch) : Passed(q, i) => q.batch[i] \in q.known \/ em[q.batch[i]] > 0
        /\ q.stage = "remember" => q.at \in 1..Len(q.batch)
        /\ q.stage \in {"append", "prune"} =>
              \A i \in 1..Len(Pending(q)) : i < q.at => Pending(q)[i] \in stored
        /\ q.stage = "prune" => q.at > Len(Pending(q))

RequestsInv ==
    /\ \A h \in Handlers : ReqOK(request[h], EverWritten, emitted)
    /\ \A e \in Elements(tracker) : emitted[e] > 0
    /\ StoredWasPublished /\ AcceptedIsStored

BatchOf(q) == IF q = FreeHandler THEN {} ELSE Elements(q.batch)
Noting(q, e) == q # FreeHandler /\ q.stage = "remember" /\ q.batch[q.at] = e

(* No event is in two requests, and a published one is tracked or about to *)
(* be.                                                                     *)
OnceInv ==
    ~muddled =>
        /\ \A g, h \in Handlers : g # h => BatchOf(request[g]) \cap BatchOf(request[h]) = {}
        /\ \A e \in EventIds : emitted[e] > 0 =>
              e \in Elements(tracker) \/ \E h \in Handlers : Noting(request[h], e)
        /\ \A e \in EventIds : emitted[e] <= 1

(* Known IDs are in the file, or behind a cut line of it; in memory the    *)
(* index is behind by kills and failures, on disk by one request more.     *)
IndexInv ==
    /\ backend = "file" => seenIds \subseteq Elements(lines) \cup glued
    /\ Cardinality(Elements(lines) \ Anonymous) - counted <= kills + faults
    /\ IndexLags

IngestInv == IngestTypes /\ RequestsInv /\ OnceInv /\ IndexInv

LEMMA ReqFacts ==
  ASSUME NEW q \in ReqRec
  PROVE  /\ q # FreeHandler /\ q.batch \in Seq(EventIds) /\ q.at \in Nat \ {0}
         /\ DOMAIN q.batch = 1..Len(q.batch) /\ Len(q.batch) \in Nat
         /\ q.known \subseteq EventIds
<1>1. q.stage # "free" /\ q.batch \in Batches /\ q.known \subseteq EventIds /\ q.at \in Nat \ {0}
  BY DEF ReqRec, Stages
<1>2. q # FreeHandler
  BY <1>1 DEF FreeHandler
<1>3. q.batch \in Seq(EventIds)
  BY <1>1, IngestAssumption
<1> QED
  BY <1>1, <1>2, <1>3

(* What is pending of a request is what the store did not know of it.      *)
LEMMA PendingFacts ==
  ASSUME NEW q \in ReqRec
  PROVE  /\ Pending(q) \in Seq(EventIds)
         /\ Elements(Pending(q)) = Elements(q.batch) \ q.known
<1>1. q.batch \in Seq(EventIds)
  BY ReqFacts
<1>2. PICK p : p = Pending(q) /\ p = Kept(q.batch, q.known)
  BY DEF Pending
<1>3. /\ p \in Seq(EventIds)
      /\ \A x : Contains(p, x) <=> (x \notin q.known /\ Contains(q.batch, x))
  BY <1>1, <1>2, KeptElements
<1>4. \A x : x \in Elements(p) <=> Contains(p, x)
  BY <1>3, ElementsOf
<1>5. \A x : x \in Elements(q.batch) <=> Contains(q.batch, x)
  BY <1>1, ElementsOf
<1>6. Elements(p) = Elements(q.batch) \ q.known
  BY <1>3, <1>4, <1>5
<1> QED
  BY <1>2, <1>3, <1>6

(* Requests do not lose what they have established: the store and the      *)
(* published events only grow.                                             *)
LEMMA ReqGrows ==
  ASSUME NEW q \in ReqRec \cup {FreeHandler}, NEW S, NEW S2, NEW em \in [EventIds -> Nat],
         NEW em2 \in [EventIds -> Nat], S \subseteq S2,
         \A e \in EventIds : em[e] <= em2[e], ReqOK(q, S, em)
  PROVE  ReqOK(q, S2, em2)
<1>1. CASE q = FreeHandler
  BY <1>1 DEF ReqOK
<1>2. CASE q \in ReqRec
  <2>1. /\ q.known \subseteq S
        /\ \A i \in 1..Len(q.batch) : Passed(q, i) => q.batch[i] \in q.known \/ em[q.batch[i]] > 0
        /\ q.stage = "remember" => q.at \in 1..Len(q.batch)
        /\ q.stage \in {"append", "prune"} =>
              \A i \in 1..Len(Pending(q)) : i < q.at => Pending(q)[i] \in S
        /\ q.stage = "prune" => q.at > Len(Pending(q))
    BY <1>2, ReqFacts DEF ReqOK
  <2>2. \A i \in 1..Len(q.batch) : q.batch[i] \in EventIds
    BY <1>2, ReqFacts
  <2>3. \A i \in 1..Len(q.batch) : em[q.batch[i]] > 0 => em2[q.batch[i]] > 0
    BY <2>2
  <2> QED
    BY <2>1, <2>3 DEF ReqOK
<1> QED
  BY <1>1, <1>2

LEMMA RequestReplaced ==
  ASSUME IngestTypes, RequestsInv, NEW h \in Handlers, NEW r \in ReqRec \cup {FreeHandler},
         request' = [request EXCEPT ![h] = r], EverWritten \subseteq EverWritten',
         emitted' \in [EventIds -> Nat], \A e \in EventIds : emitted[e] <= emitted'[e],
         ReqOK(r, EverWritten', emitted')
  PROVE  /\ request' \in [Handlers -> ReqRec \cup {FreeHandler}]
         /\ \A g \in Handlers : ReqOK(request'[g], EverWritten', emitted')
<1>1. PICK S, S2, em, em2 : S = EverWritten /\ S2 = EverWritten' /\ em = emitted /\ em2 = emitted'
  OBVIOUS
<1>2. request' \in [Handlers -> ReqRec \cup {FreeHandler}]
  BY DEF IngestTypes, StoreTypes
<1>3. ASSUME NEW g \in Handlers PROVE ReqOK(request'[g], S2, em2)
  <2>1. CASE g = h
    BY <1>1, <2>1 DEF IngestTypes, StoreTypes
  <2>2. CASE g # h
    <3>1. PICK q : q = request[g]
      OBVIOUS
    <3>2. q \in ReqRec \cup {FreeHandler} /\ ReqOK(q, S, em) /\ request'[g] = q
      BY <1>1, <2>2, <3>1 DEF IngestTypes, RequestsInv
    <3>3. em \in [EventIds -> Nat] /\ em2 \in [EventIds -> Nat] /\ S \subseteq S2
          /\ \A e \in EventIds : em[e] <= em2[e]
      BY <1>1 DEF IngestTypes, StoreTypes
    <3>4. ReqOK(q, S2, em2)
      BY <3>2, <3>3, ReqGrows
    <3> QED
      BY <3>2, <3>4
  <2> QED
    BY <2>1, <2>2
<1> QED
  BY <1>1, <1>2, <1>3

(* A step of one request that publishes nothing.                           *)
LEMMA OnceKept ==
  ASSUME IngestTypes, OnceInv, NEW h \in Handlers, NEW r, request' = [request EXCEPT ![h] = r],
         BatchOf(r) \subseteq BatchOf(request[h]), UNCHANGED emitted,
         ~muddled' => ~muddled /\ Elements(tracker) \subseteq Elements(tracker'),
         ~muddled' => \A e \in EventIds :
             Noting(request[h], e) => Noting(r, e) \/ e \in Elements(tracker')
  PROVE  OnceInv'
<1> SUFFICES ASSUME ~muddled'
             PROVE  /\ \A g, k \in Handlers :
                          g # k => BatchOf(request'[g]) \cap BatchOf(request'[k]) = {}
                    /\ \A e \in EventIds : emitted'[e] > 0 =>
                          e \in Elements(tracker') \/ \E k \in Handlers : Noting(request'[k], e)
                    /\ \A e \in EventIds : emitted'[e] <= 1
  BY DEF OnceInv, BatchOf, Noting, Elements, FreeHandler
<1>1. /\ \A g, k \in Handlers : g # k => BatchOf(request[g]) \cap BatchOf(request[k]) = {}
      /\ \A e \in EventIds : emitted[e] > 0 =>
            e \in Elements(tracker) \/ \E k \in Handlers : Noting(request[k], e)
      /\ \A e \in EventIds : emitted[e] <= 1
  BY DEF OnceInv
<1>2. request'[h] = r /\ \A g \in Handlers : g # h => request'[g] = request[g]
  BY DEF IngestTypes, StoreTypes
<1>3. \A g, k \in Handlers : g # k => BatchOf(request'[g]) \cap BatchOf(request'[k]) = {}
  BY <1>1, <1>2
<1>4. ASSUME NEW e \in EventIds, emitted'[e] > 0
      PROVE  e \in Elements(tracker') \/ \E k \in Handlers : Noting(request'[k], e)
  BY <1>1, <1>2, <1>4
<1> QED
  BY <1>1, <1>3, <1>4

LEMMA IndexUntouched ==
  ASSUME IndexInv,
         UNCHANGED <<backend, lines, seenIds, glued, counted, indexed, indexing, kills, faults>>
  PROVE  IndexInv'
  BY DEF IndexInv, IndexLags, Elements

LEMMA StoreUntouched ==
  ASSUME RequestsInv, UNCHANGED <<lines, rotated, glued>>
  PROVE  EverWritten' = EverWritten
  BY DEF EverWritten, Stored, Elements

LEMMA KnownStored ==
  ASSUME IngestTypes, IndexInv, NEW batch \in Seq(EventIds)
  PROVE  Known(batch) \subseteq EverWritten /\ Known(batch) \subseteq EventIds
<1>1. Known(batch) \subseteq Elements(lines) \cup glued
  BY DEF Known, IndexInv, IngestTypes
<1>2. Elements(lines) \subseteq EventIds /\ glued \subseteq EventIds
  BY ElementsOf DEF IngestTypes, StoreTypes
<1> QED
  BY <1>1, <1>2 DEF EverWritten, Stored

LEMMA ReceiveBatchStep ==
  ASSUME IngestInv, NEW h \in Handlers, NEW batch \in Batches, NEW kind \in {"http", "grpc"},
         ReceiveBatch(h, batch, kind)
  PROVE  IngestInv'
<1> USE DEF IngestInv
<1>1. PICK kn : kn = IF kind = "http" THEN Known(batch) ELSE {}
  OBVIOUS
<1>2. PICK r : r = [stage |-> "publish", kind |-> kind, batch |-> batch, known |-> kn, at |-> 1]
  OBVIOUS
<1>3. /\ request[h] = FreeHandler /\ request' = [request EXCEPT ![h] = r]
      /\ UNCHANGED <<backend, tracker, emitted, lines, rotated, glued, seenIds, counted,
         indexed, indexing, kills, faults, answered>>
  BY <1>1, <1>2 DEF ReceiveBatch, fileVars
<1>4. batch \in Seq(EventIds)
  BY IngestAssumption
<1>5. kn \subseteq EverWritten /\ kn \subseteq EventIds
  BY <1>1, <1>4, KnownStored
<1>6. r \in ReqRec /\ r.stage = "publish" /\ r.batch = batch /\ r.known = kn /\ r.at = 1
  BY <1>2, <1>5 DEF ReqRec, Stages
<1>7. EverWritten' = EverWritten
  BY <1>3, StoreUntouched
<1>8. ReqOK(r, EverWritten', emitted')
  BY <1>3, <1>5, <1>6, <1>7 DEF ReqOK, Passed
<1>9. \A e \in EventIds : emitted[e] <= emitted'[e]
  BY <1>3 DEF IngestTypes, StoreTypes
<1>10. /\ request' \in [Handlers -> ReqRec \cup {FreeHandler}]
       /\ \A g \in Handlers : ReqOK(request'[g], EverWritten', emitted')
  BY <1>3, <1>6, <1>7, <1>8, <1>9, RequestReplaced DEF IngestTypes, StoreTypes
<1>11. IngestTypes'
  BY <1>3, <1>10 DEF IngestTypes, StoreTypes
<1>12. RequestsInv'
  BY <1>3, <1>7, <1>10 DEF RequestsInv, StoredWasPublished, AcceptedIsStored, Elements
<1>13. OnceInv'
  <2> SUFFICES ASSUME ~muddled'
               PROVE  /\ \A g, k \in Handlers :
                            g # k => BatchOf(request'[g]) \cap BatchOf(request'[k]) = {}
                      /\ \A e \in EventIds : emitted'[e] > 0 =>
                            e \in Elements(tracker') \/ \E k \in Handlers : Noting(request'[k], e)
                      /\ \A e \in EventIds : emitted'[e] <= 1
    BY DEF OnceInv, BatchOf, Noting, Elements, FreeHandler
  <2>1. ~muddled /\ \A e \in Elements(batch) : ~InFlight(e)
    BY Zenon DEF ReceiveBatch
  <2>2. /\ \A g, k \in Handlers : g # k => BatchOf(request[g]) \cap BatchOf(request[k]) = {}
        /\ \A e \in EventIds : emitted[e] > 0 =>
              e \in Elements(tracker) \/ \E k \in Handlers : Noting(request[k], e)
        /\ \A e \in EventIds : emitted[e] <= 1
    BY <2>1 DEF OnceInv
  <2>3. request'[h] = r /\ \A g \in Handlers : g # h => request'[g] = request[g]
    BY <1>3 DEF IngestTypes, StoreTypes
  <2>4. BatchOf(r) = Elements(batch)
    BY <1>6, ReqFacts DEF BatchOf
  <2>5. \A g \in Handlers : BatchOf(request[g]) \cap Elements(batch) = {}
    BY <2>1 DEF InFlight, BatchOf
  <2>6. \A g, k \in Handlers : g # k => BatchOf(request'[g]) \cap BatchOf(request'[k]) = {}
    BY <2>2, <2>3, <2>4, <2>5
  <2>7. ASSUME NEW e \in EventIds, emitted'[e] > 0
        PROVE  e \in Elements(tracker') \/ \E k \in Handlers : Noting(request'[k], e)
    <3>1. CASE e \in Elements(tracker)
      BY <1>3, <3>1 DEF Elements
    <3>2. ASSUME NEW k \in Handlers, Noting(request[k], e) PROVE Noting(request'[k], e)
      BY <1>3, <2>3, <3>2 DEF Noting
    <3> QED
      BY <1>3, <2>2, <2>7, <3>1, <3>2
  <2> QED
    BY <1>3, <2>2, <2>6, <2>7
<1>14. IndexInv'
  BY <1>3, IndexUntouched
<1> QED
  BY <1>11, <1>12, <1>13, <1>14

LEMMA ProcessEventStep ==
  ASSUME IngestInv, NEW h \in Handlers, ProcessEvent(h)
  PROVE  IngestInv'
<1> USE DEF IngestInv
<1>1. PICK q : q = request[h]
  OBVIOUS
<1>2. PICK e : e = q.batch[q.at]
  OBVIOUS
<1>3. /\ q \in ReqRec /\ q.stage = "publish" /\ q.at <= Len(q.batch)
      /\ UNCHANGED <<backend, tracker, lines, rotated, glued, seenIds, counted,
         indexed, indexing, kills, faults, muddled, answered>>
  BY <1>1 DEF ProcessEvent, fileVars, IngestTypes
<1>4. /\ q # FreeHandler /\ q.batch \in Seq(EventIds) /\ q.at \in 1..Len(q.batch)
      /\ Len(q.batch) \in Nat /\ e \in EventIds /\ DOMAIN q.batch = 1..Len(q.batch)
  BY <1>2, <1>3, ReqFacts
<1>5. /\ q.known \subseteq EverWritten
      /\ \A i \in 1..Len(q.batch) : i < q.at => q.batch[i] \in q.known \/ emitted[q.batch[i]] > 0
  BY <1>1, <1>4 DEF RequestsInv, ReqOK, Passed
<1>6. EverWritten' = EverWritten
  BY <1>3, StoreUntouched
<1>7. IndexInv'
  BY <1>3, IndexUntouched
<1>8. ASSUME NEW r \in ReqRec \cup {FreeHandler}, request' = [request EXCEPT ![h] = r],
             UNCHANGED emitted, ReqOK(r, EverWritten, emitted), BatchOf(r) \subseteq BatchOf(q)
      PROVE  IngestInv'
  <2>1. \A x \in EventIds : emitted[x] <= emitted'[x]
    BY <1>8 DEF IngestTypes, StoreTypes
  <2>2. ReqOK(r, EverWritten', emitted')
    BY <1>6, <1>8
  <2>3. /\ request' \in [Handlers -> ReqRec \cup {FreeHandler}]
        /\ \A g \in Handlers : ReqOK(request'[g], EverWritten', emitted')
    BY <1>6, <1>8, <2>1, <2>2, RequestReplaced DEF IngestTypes, StoreTypes
  <2>4. IngestTypes'
    BY <1>3, <1>8, <2>3 DEF IngestTypes, StoreTypes
  <2>5. RequestsInv'
    BY <1>3, <1>6, <1>8, <2>3 DEF RequestsInv, StoredWasPublished, AcceptedIsStored, Elements
  <2>6. ~muddled' => ~muddled /\ Elements(tracker) \subseteq Elements(tracker')
    BY <1>3 DEF Elements
  <2>7. \A x : ~Noting(q, x)
    BY <1>3 DEF Noting
  <2>8. OnceInv'
    BY <1>1, <1>8, <2>6, <2>7, OnceKept
  <2> QED
    BY <1>7, <2>4, <2>5, <2>8
<1>9. CASE /\ e \in q.known \/ e \in Elements(tracker)
           /\ request' = [request EXCEPT ![h] = [q EXCEPT !.at = @ + 1]] /\ UNCHANGED emitted
  <2>1. PICK r : r = [q EXCEPT !.at = @ + 1]
    OBVIOUS
  <2>2. /\ r \in ReqRec /\ r.stage = "publish" /\ r.batch = q.batch /\ r.known = q.known
        /\ r.at = q.at + 1
    BY <1>3, <2>1 DEF ReqRec, Stages
  <2>3. e \in q.known \/ emitted[e] > 0
    BY <1>9 DEF RequestsInv
  <2>4. \A i \in 1..Len(q.batch) : i < q.at + 1 => q.batch[i] \in q.known \/ emitted[q.batch[i]] > 0
    BY <1>2, <1>4, <1>5, <2>3
  <2>5. ReqOK(r, EverWritten, emitted)
    BY <1>4, <1>5, <2>2, <2>4 DEF ReqOK, Passed
  <2>6. BatchOf(r) \subseteq BatchOf(q)
    BY <1>4, <2>2, ReqFacts DEF BatchOf
  <2> QED
    BY <1>8, <1>9, <2>1, <2>2, <2>5, <2>6
<1>10. CASE request' = [request EXCEPT ![h] = Refused(q)] /\ UNCHANGED emitted
  <2>1. PICK r : r = FreeHandler
    OBVIOUS
  <2>2. ReqOK(r, EverWritten, emitted) /\ BatchOf(r) = {} /\ request' = [request EXCEPT ![h] = r]
    BY <1>10, <2>1 DEF ReqOK, BatchOf, Refused
  <2> QED
    BY <1>8, <1>10, <2>1, <2>2
<1>11. CASE /\ e \notin q.known \cup BadEvents \cup Elements(tracker)
            /\ request' = [request EXCEPT ![h].stage = "remember"]
            /\ emitted' = [emitted EXCEPT ![e] = @ + 1]
  <2>1. PICK r : r = [q EXCEPT !.stage = "remember"]
    OBVIOUS
  <2>2. request' = [request EXCEPT ![h] = r]
    BY <1>1, <1>11, <2>1
  <2>3. /\ r \in ReqRec /\ r.stage = "remember" /\ r.batch = q.batch /\ r.known = q.known
        /\ r.at = q.at
    BY <1>3, <2>1 DEF ReqRec, Stages
  <2>4. /\ emitted' \in [EventIds -> Nat] /\ emitted'[e] = emitted[e] + 1
        /\ \A x \in EventIds : emitted[x] <= emitted'[x] /\ emitted[x] \in Nat
                               /\ (x # e => emitted'[x] = emitted[x])
    BY <1>4, <1>11, SMTT(20) DEF IngestTypes, StoreTypes
  <2>5. emitted'[e] > 0
    BY <1>4, <2>4
  <2>6. \A i \in 1..Len(q.batch) : i <= q.at => q.batch[i] \in q.known \/ emitted'[q.batch[i]] > 0
    <3> SUFFICES ASSUME NEW i \in 1..Len(q.batch), i <= q.at
                 PROVE  q.batch[i] \in q.known \/ emitted'[q.batch[i]] > 0
      OBVIOUS
    <3>1. q.batch[i] \in EventIds
      BY <1>4
    <3>2. CASE i = q.at
      BY <1>2, <2>5, <3>2
    <3>3. CASE i < q.at
      BY <1>5, <2>4, <3>1, <3>3
    <3> QED
      BY <1>4, <3>2, <3>3
  <2>7. ReqOK(r, EverWritten', emitted')
    BY <1>4, <1>5, <1>6, <2>3, <2>6 DEF ReqOK, Passed
  <2>8. /\ request' \in [Handlers -> ReqRec \cup {FreeHandler}]
        /\ \A g \in Handlers : ReqOK(request'[g], EverWritten', emitted')
    BY <1>6, <2>2, <2>3, <2>4, <2>7, RequestReplaced
  <2>9. IngestTypes'
    BY <1>3, <2>4, <2>8 DEF IngestTypes, StoreTypes
  <2>10. EverWritten \subseteq EventIds /\ Elements(tracker) \subseteq EventIds
    BY ElementsOf DEF IngestTypes, StoreTypes, EverWritten, Stored
  <2>11. \A x \in EventIds : emitted[x] > 0 => emitted'[x] > 0
    BY <2>4
  <2>12. (\A x \in Elements(tracker) : emitted[x] > 0)' /\ StoredWasPublished' /\ AcceptedIsStored'
    BY <1>3, <1>6, <2>10, <2>11 DEF RequestsInv, StoredWasPublished, AcceptedIsStored, Elements
  <2>13. RequestsInv'
    BY <2>8, <2>12 DEF RequestsInv
  <2>14. OnceInv'
    <3> SUFFICES ASSUME ~muddled'
                 PROVE  /\ \A g, k \in Handlers :
                              g # k => BatchOf(request'[g]) \cap BatchOf(request'[k]) = {}
                        /\ \A x \in EventIds : emitted'[x] > 0 =>
                              x \in Elements(tracker') \/ \E k \in Handlers : Noting(request'[k], x)
                        /\ \A x \in EventIds : emitted'[x] <= 1
      BY DEF OnceInv, BatchOf, Noting, Elements, FreeHandler
    <3>1. /\ \A g, k \in Handlers : g # k => BatchOf(request[g]) \cap BatchOf(request[k]) = {}
          /\ \A x \in EventIds : emitted[x] > 0 =>
                x \in Elements(tracker) \/ \E k \in Handlers : Noting(request[k], x)
          /\ \A x \in EventIds : emitted[x] <= 1
      BY <1>3 DEF OnceInv
    <3>2. request'[h] = r /\ \A g \in Handlers : g # h => request'[g] = request[g]
      BY <2>2 DEF IngestTypes, StoreTypes
    <3>3. BatchOf(r) = BatchOf(q) /\ e \in BatchOf(q)
      BY <1>2, <1>4, <2>3, ReqFacts DEF BatchOf, Elements
    <3>4. \A g, k \in Handlers : g # k => BatchOf(request'[g]) \cap BatchOf(request'[k]) = {}
      BY <1>1, <3>1, <3>2, <3>3
    <3>5. Noting(r, e) /\ ~Noting(q, e)
      BY <1>2, <1>3, <2>3, ReqFacts DEF Noting
    <3>6. ASSUME NEW x \in EventIds, emitted'[x] > 0
          PROVE  x \in Elements(tracker') \/ \E k \in Handlers : Noting(request'[k], x)
      <4>1. CASE x = e
        BY <3>2, <3>5, <4>1
      <4>2. CASE x # e
        <5>1. emitted[x] > 0
          BY <2>4, <3>6, <4>2
        <5>2. CASE x \in Elements(tracker)
          BY <1>3, <5>2 DEF Elements
        <5>3. ASSUME NEW k \in Handlers, Noting(request[k], x) PROVE Noting(request'[k], x)
          <6>1. k # h
            BY <1>1, <1>3, <5>3 DEF Noting
          <6> QED
            BY <3>2, <5>3, <6>1
        <5> QED
          BY <3>1, <5>1, <5>2, <5>3
      <4> QED
        BY <4>1, <4>2
    <3>7. emitted[e] = 0
      <4>1. ASSUME NEW k \in Handlers, Noting(request[k], e) PROVE FALSE
        <5>1. k # h
          BY <1>1, <3>5, <4>1
        <5>2. request[k] \in ReqRec /\ ReqOK(request[k], EverWritten, emitted)
          BY <4>1 DEF IngestTypes, Noting, RequestsInv
        <5>3. request[k].at \in 1..Len(request[k].batch) /\ request[k] # FreeHandler
          BY <4>1, <5>2 DEF ReqOK, Noting
        <5>4. DOMAIN request[k].batch = 1..Len(request[k].batch)
          BY <5>2, ReqFacts
        <5>5. e \in BatchOf(request[k])
          BY <4>1, <5>3, <5>4 DEF BatchOf, Elements, Noting
        <5> QED
          BY <1>1, <3>1, <3>3, <5>1, <5>5
      <4>2. ~(emitted[e] > 0)
        BY <1>4, <1>11, <3>1, <4>1
      <4> QED
        BY <1>4, <2>4, <4>2
    <3>8. \A x \in EventIds : emitted'[x] <= 1
      BY <2>4, <3>1, <3>7
    <3> QED
      BY <3>4, <3>6, <3>8
  <2> QED
    BY <1>7, <2>9, <2>13, <2>14
<1> QED
  BY <1>1, <1>2, <1>9, <1>10, <1>11 DEF ProcessEvent

(* A request with another stage at another place of its batch.             *)
Moved(q, st, n) == [q EXCEPT !.stage = st, !.at = n]

LEMMA ReqMoved ==
  ASSUME NEW q \in ReqRec, NEW st, st \in Stages, NEW n \in Nat \ {0},
         NEW r, r = Moved(q, st, n)
  PROVE  /\ r \in ReqRec /\ r.stage = st /\ r.batch = q.batch /\ r.known = q.known
         /\ r.at = n
<1>1. PICK p : p = [q EXCEPT !.stage = st]
  OBVIOUS
<1>2. p \in ReqRec /\ p.stage = st /\ p.batch = q.batch /\ p.known = q.known
  BY <1>1 DEF ReqRec, Stages
<1>3. r = [p EXCEPT !.at = n]
  BY <1>1 DEF Moved
<1> QED
  BY <1>2, <1>3 DEF ReqRec, Stages

LEMMA RememberedFacts ==
  ASSUME IngestTypes, NEW e \in EventIds
  PROVE  /\ Remembered(e) \in Seq(EventIds) /\ e \in Elements(Remembered(e))
         /\ Elements(Remembered(e)) \subseteq Elements(tracker) \cup {e}
         /\ \/ e \notin Elements(tracker) /\ Len(tracker) = TrackerLimit
            \/ Elements(tracker) \subseteq Elements(Remembered(e))
<1>1. PICK t : t = tracker
  OBVIOUS
<1>2. t \in Seq(EventIds)
  BY <1>1 DEF IngestTypes, StoreTypes
<1>3. CASE e \in Elements(t)
  BY <1>1, <1>2, <1>3 DEF Remembered
<1>4. CASE e \notin Elements(t) /\ Len(t) # TrackerLimit
  <2>1. Remembered(e) = Append(t, e)
    BY <1>1, <1>4 DEF Remembered
  <2>2. Append(t, e) \in Seq(EventIds) /\ Elements(Append(t, e)) = Elements(t) \cup {e}
    BY <1>2, ElementsAppend
  <2> QED
    BY <1>1, <2>1, <2>2
<1>5. CASE e \notin Elements(t) /\ Len(t) = TrackerLimit
  <2>1. t # << >>
    BY <1>5, IngestAssumption
  <2>2. Tail(t) \in Seq(EventIds) /\ Elements(Tail(t)) \subseteq Elements(t)
    BY <1>2, <2>1, ElementsTail
  <2>3. PICK u : u = Tail(t)
    OBVIOUS
  <2>4. u \in Seq(EventIds)
    BY <2>2, <2>3
  <2>5. Append(u, e) \in Seq(EventIds) /\ Elements(Append(u, e)) = Elements(u) \cup {e}
    BY <2>4, ElementsAppend
  <2>6. Remembered(e) = Append(u, e)
    BY <1>1, <1>5, <2>3 DEF Remembered
  <2> QED
    BY <1>1, <1>5, <2>2, <2>3, <2>5, <2>6
<1> QED
  BY <1>3, <1>4, <1>5

LEMMA RememberEventStep ==
  ASSUME IngestInv, NEW h \in Handlers, RememberEvent(h)
  PROVE  IngestInv'
<1> USE DEF IngestInv
<1>1. PICK q : q = request[h]
  OBVIOUS
<1>2. PICK e : e = q.batch[q.at]
  OBVIOUS
<1>3. PICK r : r = [q EXCEPT !.stage = "publish", !.at = @ + 1]
  OBVIOUS
<1>4. /\ q \in ReqRec /\ q.stage = "remember" /\ tracker' = Remembered(e)
      /\ request' = [request EXCEPT ![h] = r]
      /\ UNCHANGED <<backend, emitted, lines, rotated, glued, seenIds, counted,
         indexed, indexing, kills, faults, answered>>
  BY <1>1, <1>2, <1>3 DEF RememberEvent, fileVars, IngestTypes
<1>5. /\ q # FreeHandler /\ q.batch \in Seq(EventIds) /\ Len(q.batch) \in Nat
      /\ DOMAIN q.batch = 1..Len(q.batch)
  BY <1>4, ReqFacts
<1>6. /\ q.known \subseteq EverWritten /\ q.at \in 1..Len(q.batch)
      /\ \A i \in 1..Len(q.batch) :
            i < q.at \/ i = q.at => q.batch[i] \in q.known \/ emitted[q.batch[i]] > 0
  BY <1>1, <1>4, <1>5 DEF RequestsInv, ReqOK, Passed
<1>7. e \in EventIds /\ (e \in q.known \/ emitted[e] > 0)
  BY <1>2, <1>5, <1>6
<1>8. emitted[e] > 0
  BY <1>6, <1>7 DEF RequestsInv, StoredWasPublished
<1>9. /\ r \in ReqRec /\ r.stage = "publish" /\ r.batch = q.batch /\ r.known = q.known
      /\ r.at = q.at + 1
  <2>1. PICK n \in Nat \ {0} : n = q.at + 1
    BY <1>4, ReqFacts
  <2>2. r = Moved(q, "publish", n)
    BY <1>3, <2>1 DEF Moved
  <2>3. /\ r \in ReqRec /\ r.stage = "publish" /\ r.batch = q.batch /\ r.known = q.known
        /\ r.at = n
    BY <1>4, <2>2, ReqMoved DEF Stages
  <2> QED
    BY <2>1, <2>3
<1>10. EverWritten' = EverWritten
  BY <1>4, StoreUntouched
<1>11. \A i \in 1..Len(q.batch) : i < q.at + 1 => q.batch[i] \in q.known \/ emitted[q.batch[i]] > 0
  BY <1>6
<1>12. ReqOK(r, EverWritten', emitted')
  BY <1>4, <1>5, <1>6, <1>9, <1>10, <1>11 DEF ReqOK, Passed
<1>13. \A x \in EventIds : emitted[x] <= emitted'[x]
  BY <1>4 DEF IngestTypes, StoreTypes
<1>14. /\ request' \in [Handlers -> ReqRec \cup {FreeHandler}]
       /\ \A g \in Handlers : ReqOK(request'[g], EverWritten', emitted')
  BY <1>4, <1>9, <1>10, <1>12, <1>13, RequestReplaced DEF IngestTypes, StoreTypes
<1>15. /\ tracker' \in Seq(EventIds) /\ e \in Elements(tracker')
       /\ Elements(tracker') \subseteq Elements(tracker) \cup {e}
       /\ \/ e \notin Elements(tracker) /\ Len(tracker) = TrackerLimit
          \/ Elements(tracker) \subseteq Elements(tracker')
  BY <1>4, <1>7, RememberedFacts
<1>16. IngestTypes'
  BY <1>4, <1>14, <1>15 DEF IngestTypes, StoreTypes
<1>17. \A x \in Elements(tracker') : emitted'[x] > 0
  BY <1>4, <1>8, <1>15 DEF RequestsInv
<1>18. (\A x \in Elements(tracker) : emitted[x] > 0)'
  BY <1>17 DEF Elements
<1>19. RequestsInv'
  BY <1>4, <1>10, <1>14, <1>18 DEF RequestsInv, StoredWasPublished, AcceptedIsStored
<1>20. OnceInv'
  <2>1. ~muddled' => ~muddled /\ ~(e \notin Elements(tracker) /\ Len(tracker) = TrackerLimit)
    BY <1>1, <1>2, Zenon DEF RememberEvent
  <2>2. ~muddled' => ~muddled /\ Elements(tracker) \subseteq Elements(tracker')
    BY <1>15, <2>1
  <2>3. \A x \in EventIds : Noting(q, x) => x \in Elements(tracker')
    BY <1>2, <1>15 DEF Noting
  <2>4. BatchOf(r) \subseteq BatchOf(q)
    BY <1>5, <1>9, ReqFacts DEF BatchOf
  <2> QED
    BY <1>1, <1>4, <2>2, <2>3, <2>4, OnceKept
<1>21. IndexInv'
  BY <1>4, IndexUntouched
<1> QED
  BY <1>16, <1>19, <1>20, <1>21

(* A request that stores nothing goes on or is answered.                   *)
LEMMA RequestGoesOn ==
  ASSUME IngestInv, NEW h \in Handlers, NEW r \in ReqRec \cup {FreeHandler},
         request[h] \in ReqRec, request[h].stage # "remember",
         request' = [request EXCEPT ![h] = r],
         UNCHANGED <<backend, tracker, emitted, lines, rotated, glued, seenIds, counted,
         indexed, indexing, kills, faults, muddled>>,
         ReqOK(r, EverWritten, emitted), BatchOf(r) \subseteq BatchOf(request[h]),
         answered' \subseteq EverWritten
  PROVE  IngestInv'
<1> USE DEF IngestInv
<1>1. EverWritten' = EverWritten
  BY StoreUntouched
<1>2. \A x \in EventIds : emitted[x] <= emitted'[x]
  BY DEF IngestTypes, StoreTypes
<1>3. ReqOK(r, EverWritten', emitted')
  BY <1>1
<1>4. /\ request' \in [Handlers -> ReqRec \cup {FreeHandler}]
      /\ \A g \in Handlers : ReqOK(request'[g], EverWritten', emitted')
  BY <1>1, <1>2, <1>3, RequestReplaced DEF IngestTypes, StoreTypes
<1>5. IngestTypes'
  BY <1>4 DEF IngestTypes, StoreTypes
<1>6. (\A x \in Elements(tracker) : emitted[x] > 0)'
  BY DEF RequestsInv, Elements
<1>7. RequestsInv'
  BY <1>1, <1>4, <1>6 DEF RequestsInv, StoredWasPublished, AcceptedIsStored
<1>8. ~muddled' => ~muddled /\ Elements(tracker) \subseteq Elements(tracker')
  BY DEF Elements
<1>9. \A x \in EventIds : ~Noting(request[h], x)
  BY DEF Noting
<1>10. OnceInv'
  BY <1>8, <1>9, OnceKept
<1>11. IndexInv'
  BY IndexUntouched
<1> QED
  BY <1>5, <1>7, <1>10, <1>11

LEMMA EndLoopStep ==
  ASSUME IngestInv, NEW h \in Handlers, EndLoop(h)
  PROVE  IngestInv'
<1> USE DEF IngestInv
<1>1. PICK q : q = request[h]
  OBVIOUS
<1>2. /\ q \in ReqRec /\ q.stage = "publish" /\ q.at > Len(q.batch)
      /\ UNCHANGED <<backend, tracker, emitted, lines, rotated, glued, seenIds, counted,
         indexed, indexing, kills, faults, muddled>>
  BY <1>1 DEF EndLoop, fileVars, IngestTypes
<1>3. /\ q # FreeHandler /\ q.batch \in Seq(EventIds) /\ Len(q.batch) \in Nat
      /\ q.at \in Nat
  BY <1>2, ReqFacts
<1>4. /\ q.known \subseteq EverWritten
      /\ \A i \in 1..Len(q.batch) : i < q.at => q.batch[i] \in q.known \/ emitted[q.batch[i]] > 0
  BY <1>1, <1>3 DEF RequestsInv, ReqOK, Passed
<1>5. \A i \in 1..Len(q.batch) : q.batch[i] \in q.known \/ emitted[q.batch[i]] > 0
  BY <1>2, <1>3, <1>4
<1>6. CASE /\ q.kind = "grpc" \/ Pending(q) = << >>
           /\ request' = [request EXCEPT ![h] = FreeHandler]
           /\ answered' = IF q.kind = "http" THEN answered \cup Elements(q.batch) ELSE answered
  <2>1. PICK r : r = FreeHandler
    OBVIOUS
  <2>2. ReqOK(r, EverWritten, emitted) /\ BatchOf(r) = {} /\ request' = [request EXCEPT ![h] = r]
    BY <1>6, <2>1 DEF ReqOK, BatchOf
  <2>3. q.kind = "http" => Elements(q.batch) \subseteq EverWritten
    <3> SUFFICES ASSUME q.kind = "http" PROVE Elements(q.batch) \subseteq EverWritten
      OBVIOUS
    <3>1. PICK p : p = Pending(q)
      OBVIOUS
    <3>2. p = << >>
      BY <1>6, <3>1
    <3>3. Elements(p) = {}
      BY <3>2 DEF Elements
    <3>4. Elements(p) = Elements(q.batch) \ q.known
      BY <1>2, <3>1, PendingFacts
    <3> QED
      BY <1>4, <3>3, <3>4
  <2>4. answered' \subseteq EverWritten
    BY <1>6, <2>3 DEF RequestsInv, AcceptedIsStored
  <2> QED
    BY <1>1, <1>2, <2>1, <2>2, <2>4, RequestGoesOn
<1>7. CASE /\ request' = [request EXCEPT ![h] = [q EXCEPT !.stage = "append", !.at = 1]]
           /\ UNCHANGED answered
  <2>1. PICK r : r = [q EXCEPT !.stage = "append", !.at = 1]
    OBVIOUS
  <2>2. /\ r \in ReqRec /\ r.stage = "append" /\ r.batch = q.batch /\ r.known = q.known
        /\ r.at = 1
    <3>1. r = Moved(q, "append", 1)
      BY <2>1 DEF Moved
    <3>2. q \in ReqRec /\ 1 \in Nat \ {0}
      BY <1>2
    <3> QED
      BY <3>1, <3>2, ReqMoved DEF Stages
  <2>3. ReqOK(r, EverWritten, emitted)
    BY <1>4, <1>5, <2>2 DEF ReqOK
  <2>4. BatchOf(r) \subseteq BatchOf(q)
    BY <1>3, <2>2, ReqFacts DEF BatchOf
  <2>5. answered' \subseteq EverWritten
    BY <1>7 DEF RequestsInv, AcceptedIsStored
  <2> QED
    BY <1>1, <1>2, <1>7, <2>1, <2>2, <2>3, <2>4, <2>5, RequestGoesOn
<1> QED
  BY <1>1, <1>6, <1>7 DEF EndLoop

(* When a request comes to append, all of its batch has been published.    *)
LEMMA BatchPublished ==
  ASSUME IngestInv, NEW h \in Handlers, NEW q \in ReqRec, q = request[h], q.stage \in {"append", "prune"}
  PROVE  /\ \A x \in Elements(q.batch) : emitted[x] > 0
         /\ q.known \subseteq EverWritten
         /\ Pending(q) \in Seq(EventIds)
         /\ Elements(Pending(q)) = Elements(q.batch) \ q.known
         /\ \A i \in 1..Len(Pending(q)) : i < q.at => Pending(q)[i] \in EverWritten
<1> USE DEF IngestInv
<1>1. /\ q # FreeHandler /\ DOMAIN q.batch = 1..Len(q.batch)
  BY ReqFacts
<1>2. /\ q.known \subseteq EverWritten
      /\ \A i \in 1..Len(q.batch) : q.batch[i] \in q.known \/ emitted[q.batch[i]] > 0
      /\ \A i \in 1..Len(Pending(q)) : i < q.at => Pending(q)[i] \in EverWritten
  BY <1>1 DEF RequestsInv, ReqOK, Passed
<1>3. ASSUME NEW x \in Elements(q.batch) PROVE emitted[x] > 0
  <2>1. x \in q.known \/ emitted[x] > 0
    BY <1>1, <1>2 DEF Elements
  <2> QED
    BY <1>2, <2>1 DEF RequestsInv, StoredWasPublished
<1> QED
  BY <1>2, <1>3, PendingFacts

(* The store grows by published events, and one request goes on.           *)
LEMMA StoreGrows ==
  ASSUME IngestInv, NEW h \in Handlers, NEW r \in ReqRec \cup {FreeHandler}, NEW N,
         request[h] \in ReqRec, request[h].stage \in {"append", "prune"},
         request' = [request EXCEPT ![h] = r],
         UNCHANGED <<backend, tracker, emitted>>, ~muddled' => ~muddled, StoreTypes',
         EverWritten' = EverWritten \cup N, \A x \in N : emitted[x] > 0,
         ReqOK(r, EverWritten', emitted), BatchOf(r) \subseteq BatchOf(request[h]),
         answered' \subseteq EverWritten'
  PROVE  IngestTypes' /\ RequestsInv' /\ OnceInv'
<1> USE DEF IngestInv
<1>1. \A x \in EventIds : emitted[x] <= emitted'[x]
  BY DEF IngestTypes
<1>2. ReqOK(r, EverWritten', emitted') /\ EverWritten \subseteq EverWritten' /\ emitted' \in [EventIds -> Nat]
  BY DEF IngestTypes
<1>3. /\ request' \in [Handlers -> ReqRec \cup {FreeHandler}]
      /\ \A g \in Handlers : ReqOK(request'[g], EverWritten', emitted')
  BY <1>1, <1>2, RequestReplaced
<1>4. IngestTypes'
  BY <1>3 DEF IngestTypes
<1>5. (\A x \in Elements(tracker) : emitted[x] > 0)'
  BY DEF RequestsInv, Elements
<1>6. \A x \in EverWritten' : emitted'[x] > 0
  BY DEF RequestsInv, StoredWasPublished
<1>7. StoredWasPublished'
  BY <1>6 DEF StoredWasPublished
<1>8. RequestsInv'
  BY <1>3, <1>5, <1>7 DEF RequestsInv, AcceptedIsStored
<1>9. ~muddled' => ~muddled /\ Elements(tracker) \subseteq Elements(tracker')
  BY DEF Elements
<1>10. \A x \in EventIds : ~Noting(request[h], x)
  BY DEF Noting
<1>11. OnceInv'
  BY <1>9, <1>10, OnceKept
<1> QED
  BY <1>4, <1>8, <1>11

(* The events of a list that name a device: how many there are once the    *)
(* list has one event more, or many.                                       *)
LEMMA NamedGrow ==
  ASSUME NEW S, IsFiniteSet(S), NEW T, NEW e, T \subseteq S \cup {e}
  PROVE  /\ Cardinality(S \ Anonymous) \in Nat /\ Cardinality(T \ Anonymous) \in Nat
         /\ Cardinality(T \ Anonymous) <= Cardinality(S \ Anonymous) + (IF e \in Anonymous THEN 0 ELSE 1)
<1>1. PICK A, B : A = S \ Anonymous /\ B = T \ Anonymous
  OBVIOUS
<1>2. IsFiniteSet(A) /\ Cardinality(A) \in Nat
  BY <1>1, FS_Subset, FS_CardinalityType
<1>3. IsFiniteSet(A \cup {e}) /\ Cardinality(A \cup {e}) \in Nat /\ Cardinality(A \cup {e}) <= Cardinality(A) + 1
  <2>1. /\ IsFiniteSet(A \cup {e})
        /\ Cardinality(A \cup {e}) = (IF e \in A THEN Cardinality(A) ELSE Cardinality(A) + 1)
    BY <1>2, FS_AddElement
  <2> QED
    BY <1>2, <2>1, FS_CardinalityType
<1>4. CASE e \in Anonymous
  <2>1. B \subseteq A
    BY <1>1, <1>4
  <2>2. Cardinality(B) <= Cardinality(A) /\ Cardinality(B) \in Nat
    BY <1>2, <2>1, FS_Subset, FS_CardinalityType
  <2> QED
    BY <1>1, <1>2, <1>4, <2>2
<1>5. CASE e \notin Anonymous
  <2>1. B \subseteq A \cup {e}
    BY <1>1, <1>5
  <2>2. Cardinality(B) <= Cardinality(A \cup {e}) /\ Cardinality(B) \in Nat
    BY <1>3, <2>1, FS_Subset, FS_CardinalityType
  <2> QED
    BY <1>1, <1>2, <1>3, <1>5, <2>2
<1> QED
  BY <1>4, <1>5

LEMMA NamedJoined ==
  ASSUME NEW S, IsFiniteSet(S), NEW T, IsFiniteSet(T)
  PROVE  /\ Cardinality(S \ Anonymous) \in Nat /\ Cardinality(T \ Anonymous) \in Nat
         /\ Cardinality(T \ (S \cup Anonymous)) \in Nat
         /\ Cardinality(T \ Anonymous)
               <= Cardinality(S \ Anonymous) + Cardinality(T \ (S \cup Anonymous))
<1>1. PICK A, B, N : A = S \ Anonymous /\ B = T \ Anonymous /\ N = T \ (S \cup Anonymous)
  OBVIOUS
<1>2. /\ IsFiniteSet(A) /\ Cardinality(A) \in Nat /\ IsFiniteSet(N) /\ Cardinality(N) \in Nat
      /\ IsFiniteSet(B) /\ Cardinality(B) \in Nat
  BY <1>1, FS_Subset, FS_CardinalityType
<1>3. A \cap N = {} /\ B \subseteq A \cup N
  BY <1>1
<1>4. IsFiniteSet(A \cup N) /\ Cardinality(A \cup N) = Cardinality(A) + Cardinality(N)
  <2>1. Cardinality(A \cap N) = 0
    BY <1>3, FS_EmptySet
  <2>2. /\ IsFiniteSet(A \cup N)
        /\ Cardinality(A \cup N) = Cardinality(A) + Cardinality(N) - Cardinality(A \cap N)
    BY <1>2, FS_Union, Zenon
  <2> QED
    BY <1>2, <2>1, <2>2
<1>5. Cardinality(B) <= Cardinality(A \cup N)
  BY <1>3, <1>4, FS_Subset
<1> QED
  BY <1>1, <1>2, <1>4, <1>5

LEMMA IndexingCount ==
  ASSUME NEW I, I = {} \/ \E h \in Handlers : I = {h}
  PROVE  Cardinality(I) \in Nat /\ Cardinality(I) <= 1
<1>1. CASE I = {}
  BY <1>1, FS_EmptySet
<1>2. ASSUME NEW h \in Handlers, I = {h} PROVE Cardinality(I) \in Nat /\ Cardinality(I) <= 1
  <2>1. Cardinality({h}) = 1
    BY FS_Singleton
  <2> QED
    BY <1>2, <2>1
<1> QED
  BY <1>1, <1>2

LEMMA OnceUntouched ==
  ASSUME OnceInv, UNCHANGED <<request, tracker, emitted, muddled>>
  PROVE  OnceInv'
  BY DEF OnceInv, BatchOf, Noting, Elements, FreeHandler

LEMMA AppendBatchSQLiteStep ==
  ASSUME IngestInv, NEW h \in Handlers, AppendBatchSQLite(h)
  PROVE  IngestInv'
<1> USE DEF IngestInv
<1>1. PICK q : q = request[h]
  OBVIOUS
<1>2. PICK p : p = Pending(q)
  OBVIOUS
<1>3. PICK t, s : t = Inserted(lines, p) /\ s = lines
  OBVIOUS
<1>4. PICK r : r = [q EXCEPT !.stage = "prune", !.at = Len(p) + 1]
  OBVIOUS
<1>5. PICK d : d = Cardinality(Elements(t) \ (Elements(s) \cup Anonymous))
  OBVIOUS
<1>6. /\ q \in ReqRec /\ q.stage = "append" /\ backend = "sqlite" /\ lines' = t
      /\ request' = [request EXCEPT ![h] = r]
      /\ UNCHANGED <<backend, tracker, emitted, rotated, glued, seenIds, indexing, kills, faults,
                     muddled, answered>>
  BY <1>1, <1>2, <1>3, <1>4 DEF AppendBatchSQLite, IngestTypes
<1>7. counted' = counted + d /\ indexed' = counted'
  BY <1>1, <1>2, <1>3, <1>5 DEF AppendBatchSQLite, Elements
<1>8. /\ \A x \in Elements(q.batch) : emitted[x] > 0
      /\ q.known \subseteq EverWritten /\ p \in Seq(EventIds)
      /\ Elements(p) = Elements(q.batch) \ q.known
  BY <1>1, <1>2, <1>6, BatchPublished
<1>9. s \in Seq(EventIds)
  BY <1>3 DEF IngestTypes, StoreTypes
<1>10. t \in Seq(EventIds) /\ Elements(t) = Elements(s) \cup Elements(p)
  BY <1>3, <1>8, <1>9, InsertedElements
<1>11. /\ Cardinality(Elements(s) \ Anonymous) \in Nat /\ Cardinality(Elements(t) \ Anonymous) \in Nat
       /\ d \in Nat
       /\ Cardinality(Elements(t) \ Anonymous) <= Cardinality(Elements(s) \ Anonymous) + d
  <2>1. IsFiniteSet(Elements(s))
    BY <1>9, ElementsOf
  <2>2. IsFiniteSet(Elements(t))
    BY <1>10, ElementsOf
  <2> QED
    BY <1>5, <2>1, <2>2, NamedJoined
<1>12. /\ EverWritten' = (Elements(t) \cup rotated) \cup glued
       /\ EverWritten = (Elements(s) \cup rotated) \cup glued
  BY <1>3, <1>6 DEF EverWritten, Stored, Elements
<1>13. EverWritten' = EverWritten \cup Elements(p)
  BY <1>10, <1>12
<1>14. PICK n \in Nat \ {0} : n = Len(p) + 1
  BY <1>8
<1>15. /\ r \in ReqRec /\ r.stage = "prune" /\ r.batch = q.batch /\ r.known = q.known
       /\ r.at = n
  <2>1. r = Moved(q, "prune", n)
    BY <1>4, <1>14 DEF Moved
  <2> QED
    BY <1>6, <2>1, ReqMoved DEF Stages
<1>16. ReqOK(r, EverWritten', emitted)
  <2>1. Pending(r) = p
    BY <1>2, <1>15 DEF Pending
  <2>2. \A i \in 1..Len(p) : p[i] \in EverWritten'
    BY <1>8, <1>13 DEF Elements
  <2>3. \A i \in 1..Len(q.batch) : q.batch[i] \in q.known \/ emitted[q.batch[i]] > 0
    BY <1>6, <1>8, ReqFacts DEF Elements
  <2>4. q.known \subseteq EverWritten' /\ Len(p) \in Nat
    BY <1>8, <1>13
  <2> QED
    BY <1>14, <1>15, <2>1, <2>2, <2>3, <2>4 DEF ReqOK
<1>17. StoreTypes'
  BY <1>6, <1>7, <1>10, <1>11 DEF IngestTypes, StoreTypes
<1>18. IngestTypes' /\ RequestsInv' /\ OnceInv'
  <2>1. BatchOf(r) \subseteq BatchOf(request[h])
    BY <1>1, <1>6, <1>15, ReqFacts DEF BatchOf
  <2>2. answered' \subseteq EverWritten' /\ \A x \in Elements(p) : emitted[x] > 0
    BY <1>6, <1>8, <1>13 DEF RequestsInv, AcceptedIsStored
  <2> QED
    BY <1>1, <1>6, <1>13, <1>15, <1>16, <1>17, <2>1, <2>2, StoreGrows
<1>19. IndexInv'
  <2>1. /\ Cardinality(Elements(s) \ Anonymous) - counted <= kills + faults
        /\ counted \in Nat /\ kills \in Nat /\ faults \in Nat
    BY <1>3 DEF IndexInv, IngestTypes, StoreTypes
  <2>2. Cardinality(Elements(t) \ Anonymous) - counted' <= kills' + faults'
    BY <1>6, <1>7, <1>11, <2>1
  <2>3. Cardinality(indexing') \in Nat
    BY <1>17, IndexingCount DEF StoreTypes
  <2>4. Elements(lines)' = Elements(t) /\ kills' \in Nat /\ faults' \in Nat /\ counted' \in Nat
    BY <1>6, <1>7, <1>11, <2>1 DEF Elements
  <2>5. Cardinality(Elements(t) \ Anonymous) - indexed' <= kills' + faults' + Cardinality(indexing')
    BY <1>7, <1>11, <2>2, <2>3, <2>4
  <2>6. IndexLags'
    BY <2>4, <2>5 DEF IndexLags
  <2> QED
    BY <1>6, <2>2, <2>4, <2>6 DEF IndexInv
<1> QED
  BY <1>18, <1>19

LEMMA PruneOldestStep ==
  ASSUME IngestInv, NEW h \in Handlers, PruneOldest(h)
  PROVE  IngestInv'
<1> USE DEF IngestInv
<1>1. PICK q, r : q = request[h] /\ r = FreeHandler
  OBVIOUS
<1>2. PICK p : p = Pending(q)
  OBVIOUS
<1>3. /\ q \in ReqRec /\ q.stage = "prune" /\ backend = "sqlite"
      /\ request' = [request EXCEPT ![h] = r]
      /\ UNCHANGED <<backend, tracker, emitted, glued, seenIds, counted, indexed, indexing, kills,
                     faults>>
  BY <1>1 DEF PruneOldest, Answer, Refused, IngestTypes
<1>4. /\ request[h] \in ReqRec /\ request[h].stage = "prune" /\ r \in ReqRec \cup {FreeHandler}
      /\ BatchOf(r) \subseteq BatchOf(request[h])
  BY <1>1, <1>3 DEF BatchOf
<1>5. \A S : ReqOK(r, S, emitted)
  BY <1>1 DEF ReqOK
<1>6. CASE UNCHANGED <<lines, rotated, muddled, answered>>
  BY <1>3, <1>4, <1>5, <1>6, RequestGoesOn DEF RequestsInv, AcceptedIsStored
<1>7. ASSUME NEW old \in SUBSET Elements(lines), lines' = Kept(lines, old),
             rotated' = rotated \cup old, muddled' = (muddled \/ old # {}), Answer(h, q)
      PROVE  IngestInv'
  <2>1. PICK s, t : s = lines /\ t = lines'
    OBVIOUS
  <2>2. s \in Seq(EventIds) /\ t = Kept(s, old)
    BY <1>7, <2>1 DEF IngestTypes, StoreTypes
  <2>3. t \in Seq(EventIds) /\ \A x : Contains(t, x) <=> (x \notin old /\ Contains(s, x))
    BY <2>2, KeptElements
  <2>4. Elements(t) = Elements(s) \ old /\ old \subseteq Elements(s)
    <3>1. \A x : x \in Elements(s) <=> Contains(s, x)
      BY <2>2, ElementsOf
    <3>2. \A x : x \in Elements(t) <=> Contains(t, x)
      BY <2>3, ElementsOf
    <3> QED
      BY <1>7, <2>1, <2>3, <3>1, <3>2
  <2>5. /\ EverWritten' = (Elements(t) \cup rotated') \cup glued
        /\ EverWritten = (Elements(s) \cup rotated) \cup glued
    BY <1>3, <2>1 DEF EverWritten, Stored, Elements
  <2>6. EverWritten' = EverWritten \cup {}
    BY <1>7, <2>4, <2>5
  <2>7. Elements(q.batch) \subseteq EverWritten
    <3>1. /\ q.known \subseteq EverWritten
          /\ p \in Seq(EventIds) /\ Elements(p) = Elements(q.batch) \ q.known
          /\ \A i \in 1..Len(p) : i < q.at => p[i] \in EverWritten
      BY <1>1, <1>2, <1>3, BatchPublished
    <3>2. q.at > Len(p) /\ q.at \in Nat /\ Len(p) \in Nat
      BY <1>1, <1>2, <1>3, <3>1, ReqFacts DEF RequestsInv, ReqOK
    <3>3. Elements(p) \subseteq EverWritten
      BY <3>1, <3>2 DEF Elements
    <3> QED
      BY <3>1, <3>3
  <2>8. answered' \subseteq EverWritten'
    BY <1>7, <2>6, <2>7 DEF Answer, RequestsInv, AcceptedIsStored
  <2>9. Elements(s) \subseteq EventIds /\ IsFiniteSet(Elements(s))
    BY <2>2, ElementsOf
  <2>10. StoreTypes'
    BY <1>3, <1>7, <2>1, <2>3, <2>4, <2>9 DEF IngestTypes, StoreTypes
  <2>11. ~muddled' => ~muddled
    BY <1>7
  <2>12. IngestTypes' /\ RequestsInv' /\ OnceInv'
    <3>1. PICK N : N = {}
      OBVIOUS
    <3>2. EverWritten' = EverWritten \cup N /\ \A x \in N : emitted[x] > 0
      BY <2>6, <3>1
    <3>3. ReqOK(r, EverWritten', emitted) /\ request[h].stage \in {"append", "prune"}
      BY <1>4, <1>5
    <3>4. UNCHANGED <<backend, tracker, emitted>>
      BY <1>3
    <3> HIDE DEF IngestInv
    <3> QED
      BY <1>3, <1>4, <2>8, <2>10, <2>11, <3>2, <3>3, <3>4, StoreGrows
  <2>13. IndexInv'
    <3>1. PICK a, b : a = Elements(s) \ Anonymous /\ b = Elements(t) \ Anonymous
      OBVIOUS
    <3>2. IsFiniteSet(a) /\ b \in SUBSET a
      BY <2>4, <2>9, <3>1, FS_Subset
    <3>3. IsFiniteSet(b) /\ Cardinality(b) <= Cardinality(a)
      BY <3>2, FS_Subset
    <3>4. Cardinality(a) \in Nat /\ Cardinality(b) \in Nat
      BY <3>2, <3>3, FS_CardinalityType
    <3>5. Cardinality(indexing) \in Nat
      BY IndexingCount DEF IngestTypes, StoreTypes
    <3>6. /\ Cardinality(a) - counted <= kills + faults
          /\ Cardinality(a) - indexed <= kills + faults + Cardinality(indexing)
      BY <2>1, <3>1 DEF IndexInv, IndexLags
    <3>7. /\ Cardinality(b) - counted <= kills + faults
          /\ Cardinality(b) - indexed <= kills + faults + Cardinality(indexing)
      BY <3>3, <3>4, <3>5, <3>6 DEF IngestTypes, StoreTypes
    <3>8. Elements(lines)' = Elements(t)
      BY <2>1 DEF Elements
    <3>9. IndexLags'
      BY <1>3, <3>1, <3>7, <3>8 DEF IndexLags
    <3> QED
      BY <1>3, <3>1, <3>7, <3>8, <3>9 DEF IndexInv
  <2> QED
    BY <2>12, <2>13
<1> QED
  BY <1>1, <1>6, <1>7 DEF PruneOldest

(* A line of the file store, in a rotated file, the current one or behind  *)
(* a cut line.                                                             *)
LEMMA LineWritten ==
  ASSUME IngestTypes, NEW e \in EventIds, NEW turn \in BOOLEAN, Rotate(turn), WriteLine(e, turn)
  PROVE  /\ lines' \in Seq(EventIds) /\ rotated' \subseteq EventIds /\ glued' \subseteq EventIds
         /\ EverWritten' = EverWritten \cup {e}
         /\ Elements(lines') \subseteq Elements(lines) \cup {e}
         /\ e \in Elements(lines') \cup glued'
         /\ ~turn => Elements(lines) \cup glued \subseteq Elements(lines') \cup glued'
         /\ ~muddled' => ~muddled
<1>1. PICK s, t, g : s = lines /\ t = lines' /\ g = glued
  OBVIOUS
<1>2. s \in Seq(EventIds) /\ rotated \subseteq EventIds /\ g \subseteq EventIds
  BY <1>1 DEF IngestTypes, StoreTypes
<1>3. Elements(s) \subseteq EventIds
  BY <1>2, ElementsOf
<1>4. /\ EverWritten' = (Elements(t) \cup rotated') \cup glued'
      /\ EverWritten = (Elements(s) \cup rotated) \cup g
  BY <1>1 DEF EverWritten, Stored, Elements
<1>5. ~muddled' => ~muddled
  BY Zenon DEF Rotate
<1>6. CASE turn
  <2>1. t = <<e>> /\ rotated' = rotated \cup Elements(s) /\ glued' = g
    BY <1>1, <1>6 DEF Rotate, WriteLine
  <2>2. Elements(t) = {e} /\ t \in Seq(EventIds)
    BY <2>1, ElementsAlone
  <2> QED
    BY <1>1, <1>2, <1>3, <1>4, <1>5, <1>6, <2>1, <2>2
<1>7. CASE ~turn /\ tail = "cut"
  <2>1. t = s /\ rotated' = rotated /\ glued' = g \cup {e}
    BY <1>1, <1>7 DEF Rotate, WriteLine
  <2> QED
    BY <1>1, <1>2, <1>3, <1>4, <1>5, <2>1
<1>8. CASE ~turn /\ tail # "cut"
  <2>1. t = Append(s, e) /\ rotated' = rotated /\ glued' = g
    BY <1>1, <1>8 DEF Rotate, WriteLine
  <2>2. Elements(t) = Elements(s) \cup {e} /\ t \in Seq(EventIds)
    BY <1>2, <2>1, ElementsAppend
  <2> QED
    BY <1>1, <1>2, <1>3, <1>4, <1>5, <2>1, <2>2
<1> QED
  BY <1>6, <1>7, <1>8

(* The event of the batch that Append works on, and the request after it.  *)
LEMMA EventInHand ==
  ASSUME IngestInv, NEW h \in Handlers, NEW q \in ReqRec, q = request[h], q.stage = "append",
         NEW p, p = Pending(q), q.at <= Len(p), NEW e, e = p[q.at]
  PROVE  e \in EventIds /\ e \in Elements(p) /\ emitted[e] > 0
<1>1. /\ \A x \in Elements(q.batch) : emitted[x] > 0
      /\ p \in Seq(EventIds) /\ Elements(p) = Elements(q.batch) \ q.known
  BY BatchPublished
<1>2. q.at \in Nat \ {0} /\ DOMAIN p = 1..Len(p) /\ Len(p) \in Nat
  BY <1>1, ReqFacts
<1>3. e \in EventIds /\ e \in Elements(p)
  BY <1>1, <1>2 DEF Elements
<1> QED
  BY <1>1, <1>3

LEMMA NextInHand ==
  ASSUME IngestInv, NEW h \in Handlers, NEW q \in ReqRec, q = request[h], q.stage = "append",
         NEW p, p = Pending(q), q.at <= Len(p), NEW e, e = p[q.at],
         NEW r \in ReqRec, r.stage = "append", r.batch = q.batch, r.known = q.known,
         r.at = q.at + 1, NEW S, EverWritten \subseteq S, e \in S
  PROVE  BatchOf(r) \subseteq BatchOf(q) /\ ReqOK(r, S, emitted)
<1>1. /\ \A x \in Elements(q.batch) : emitted[x] > 0
      /\ q.known \subseteq EverWritten /\ p \in Seq(EventIds)
      /\ \A i \in 1..Len(p) : i < q.at => p[i] \in EverWritten
  BY BatchPublished
<1>2. /\ q.at \in Nat \ {0} /\ q # FreeHandler /\ Len(p) \in Nat
      /\ DOMAIN q.batch = 1..Len(q.batch)
  BY <1>1, ReqFacts
<1>3. \A i \in 1..Len(q.batch) : q.batch[i] \in q.known \/ emitted[q.batch[i]] > 0
  BY <1>1, <1>2 DEF Elements
<1>4. Pending(r) = p /\ BatchOf(r) \subseteq BatchOf(q)
  BY <1>2, ReqFacts DEF Pending, BatchOf
<1>5. \A i \in 1..Len(p) : i < q.at + 1 => p[i] \in S
  BY <1>1, <1>2
<1>6. ReqOK(r, S, emitted)
  BY <1>1, <1>3, <1>4, <1>5 DEF ReqOK
<1> QED
  BY <1>4, <1>6

LEMMA AppendFailsStep ==
  ASSUME IngestInv, NEW h \in Handlers, AppendFails(h)
  PROVE  IngestInv'
<1> USE DEF IngestInv
<1>1. PICK r : r = FreeHandler
  OBVIOUS
<1>2. /\ request[h] \in ReqRec /\ request[h].stage = "append"
      /\ request' = [request EXCEPT ![h] = r]
      /\ UNCHANGED <<backend, tracker, emitted, lines, rotated, glued, seenIds, counted,
                     indexed, indexing, kills, faults, muddled, answered>>
  BY <1>1 DEF AppendFails, Refused, IngestTypes, fileVars
<1>3. ReqOK(r, EverWritten, emitted) /\ BatchOf(r) \subseteq BatchOf(request[h])
  BY <1>1 DEF ReqOK, BatchOf
<1> QED
  BY <1>1, <1>2, <1>3, RequestGoesOn DEF RequestsInv, AcceptedIsStored

LEMMA SkipEventStep ==
  ASSUME IngestInv, NEW h \in Handlers, SkipEvent(h)
  PROVE  IngestInv'
<1> USE DEF IngestInv
<1>1. PICK q : q = request[h]
  OBVIOUS
<1>2. PICK p : p = Pending(q)
  OBVIOUS
<1>3. /\ q \in ReqRec /\ q.stage = "append" /\ backend = "file"
      /\ UNCHANGED <<backend, tracker, emitted, lines, rotated, glued, seenIds, counted,
                     indexed, indexing, kills, faults, muddled>>
  BY <1>1 DEF SkipEvent, Appends, IngestTypes, fileVars
<1>4. q.at \in Nat \ {0} /\ q # FreeHandler /\ p \in Seq(EventIds) /\ Len(p) \in Nat
  BY <1>2, <1>3, ReqFacts, PendingFacts
<1>5. CASE q.at > Len(p) /\ Answer(h, q)
  <2>1. PICK r : r = FreeHandler
    OBVIOUS
  <2>2. /\ ReqOK(r, EverWritten, emitted) /\ BatchOf(r) \subseteq BatchOf(request[h])
        /\ request' = [request EXCEPT ![h] = r] /\ answered' = answered \cup Elements(q.batch)
    BY <1>5, <2>1 DEF ReqOK, BatchOf, Answer
  <2>3. /\ q.known \subseteq EverWritten /\ Elements(p) = Elements(q.batch) \ q.known
        /\ \A i \in 1..Len(p) : i < q.at => p[i] \in EverWritten
    BY <1>1, <1>2, <1>3, BatchPublished
  <2>4. Elements(p) \subseteq EverWritten
    BY <1>4, <1>5, <2>3 DEF Elements
  <2>5. answered' \subseteq EverWritten
    BY <2>2, <2>3, <2>4 DEF RequestsInv, AcceptedIsStored
  <2> QED
    BY <1>1, <1>3, <2>1, <2>2, <2>5, RequestGoesOn
<1>6. CASE /\ q.at <= Len(p) /\ p[q.at] \in seenIds /\ UNCHANGED answered
           /\ request' = [request EXCEPT ![h].at = @ + 1]
  <2>1. PICK e, r : e = p[q.at] /\ r = [q EXCEPT !.at = @ + 1]
    OBVIOUS
  <2>2. /\ r \in ReqRec /\ r.stage = "append" /\ r.batch = q.batch /\ r.known = q.known
        /\ r.at = q.at + 1
    BY <1>3, <2>1 DEF ReqRec, Stages
  <2>3. e \in EverWritten
    BY <1>3, <1>6, <2>1 DEF IndexInv, EverWritten, Stored
  <2>4. ReqOK(r, EverWritten, emitted) /\ BatchOf(r) \subseteq BatchOf(q)
    <3>1. PICK S : S = EverWritten
      OBVIOUS
    <3>2. EverWritten \subseteq S /\ e \in S /\ q.at <= Len(p)
      BY <1>6, <2>3, <3>1
    <3>3. BatchOf(r) \subseteq BatchOf(q) /\ ReqOK(r, S, emitted)
      <4>1. /\ q \in ReqRec /\ q = request[h] /\ q.stage = "append" /\ p = Pending(q)
            /\ q.at <= Len(p) /\ e = p[q.at]
        BY <1>1, <1>2, <1>3, <1>6, <2>1
      <4> HIDE DEF IngestInv
      <4> QED
        BY <2>2, <3>2, <4>1, NextInHand, Zenon
    <3> QED
      BY <3>1, <3>3
  <2>5. request' = [request EXCEPT ![h] = r] /\ answered' \subseteq EverWritten
    BY <1>1, <1>6, <2>1 DEF RequestsInv, AcceptedIsStored
  <2> QED
    BY <1>1, <1>3, <2>2, <2>4, <2>5, RequestGoesOn
<1>7. q.at > Len(p) \/ q.at <= Len(p)
  BY <1>4
<1> QED
  BY <1>1, <1>2, <1>4, <1>5, <1>6, <1>7 DEF SkipEvent

LEMMA AppendFileStep ==
  ASSUME IngestInv, NEW h \in Handlers, AppendFile(h)
  PROVE  IngestInv'
<1> USE DEF IngestInv
<1>1. PICK q : q = request[h]
  OBVIOUS
<1>2. PICK p : p = Pending(q)
  OBVIOUS
<1>3. PICK e, r : e = p[q.at] /\ r = [q EXCEPT !.at = @ + 1]
  OBVIOUS
<1>4. /\ q \in ReqRec /\ q.stage = "append" /\ q.at <= Len(p) /\ backend = "file"
      /\ indexing = {} /\ indexing' = {h} /\ request' = [request EXCEPT ![h] = r]
      /\ counted' = counted + (IF e \in Anonymous THEN 0 ELSE 1)
      /\ UNCHANGED <<backend, tracker, emitted, indexed, kills, faults, answered>>
  BY <1>1, <1>2, <1>3 DEF AppendFile, Writes, Appends, IngestTypes
<1>5. PICK turn \in BOOLEAN : /\ Rotate(turn) /\ WriteLine(e, turn)
                              /\ seenIds' = (IF turn THEN {} ELSE seenIds) \cup {e}
  <2> HIDE DEF IngestInv
  <2>1. e = Pending(request[h])[request[h].at]
    BY <1>1, <1>2, <1>3
  <2>2. \E turn \in Turns : /\ Rotate(turn) /\ WriteLine(e, turn)
                            /\ seenIds' = (IF turn THEN {} ELSE seenIds) \cup {e}
    BY <2>1, Zenon DEF AppendFile
  <2>3. \A x \in Turns : x \in BOOLEAN
    BY DEF Turns
  <2> QED
    BY <2>2, <2>3, Zenon
<1>6. e \in EventIds /\ emitted[e] > 0
  BY <1>1, <1>2, <1>3, <1>4, EventInHand
<1>7. /\ lines' \in Seq(EventIds) /\ rotated' \subseteq EventIds /\ glued' \subseteq EventIds
      /\ EverWritten' = EverWritten \cup {e}
      /\ Elements(lines') \subseteq Elements(lines) \cup {e}
      /\ e \in Elements(lines') \cup glued'
      /\ ~turn => Elements(lines) \cup glued \subseteq Elements(lines') \cup glued'
      /\ ~muddled' => ~muddled
  BY <1>5, <1>6, LineWritten
<1>8. /\ r \in ReqRec /\ r.stage = "append" /\ r.batch = q.batch /\ r.known = q.known
      /\ r.at = q.at + 1
  BY <1>3, <1>4 DEF ReqRec, Stages
<1>9. ReqOK(r, EverWritten', emitted) /\ BatchOf(r) \subseteq BatchOf(q)
  <2>1. PICK S : S = EverWritten'
    OBVIOUS
  <2>2. EverWritten \subseteq S /\ e \in S
    BY <1>7, <2>1
  <2>3. /\ q \in ReqRec /\ q = request[h] /\ q.stage = "append" /\ p = Pending(q)
        /\ q.at <= Len(p) /\ e = p[q.at]
    BY <1>1, <1>2, <1>3, <1>4
  <2>4. BatchOf(r) \subseteq BatchOf(q) /\ ReqOK(r, S, emitted)
    <3> HIDE DEF IngestInv
    <3> QED
      BY <1>8, <2>2, <2>3, NextInHand, Zenon
  <2> QED
    BY <2>1, <2>4
<1>10. StoreTypes'
  <2>1. counted' \in Nat
    BY <1>4 DEF IngestTypes, StoreTypes
  <2> QED
    BY <1>4, <1>7, <2>1 DEF IngestTypes, StoreTypes
<1>11. IngestTypes' /\ RequestsInv' /\ OnceInv'
  <2>1. answered' \subseteq EverWritten' /\ \A x \in {e} : emitted[x] > 0
    BY <1>4, <1>6, <1>7 DEF RequestsInv, AcceptedIsStored
  <2> QED
    BY <1>1, <1>4, <1>7, <1>8, <1>9, <1>10, <2>1, StoreGrows
<1>12. IndexInv'
  <2>1. PICK s, t : s = lines /\ t = lines'
    OBVIOUS
  <2>2. PICK a, b : a = Cardinality(Elements(s) \ Anonymous) /\ b = Cardinality(Elements(t) \ Anonymous)
    OBVIOUS
  <2>3. a \in Nat /\ b \in Nat /\ b <= a + (IF e \in Anonymous THEN 0 ELSE 1)
    <3>1. IsFiniteSet(Elements(s))
      BY <2>1, ElementsOf DEF IngestTypes, StoreTypes
    <3> QED
      BY <1>7, <2>1, <2>2, <3>1, NamedGrow
  <2>4. /\ a - counted <= kills + faults /\ a - indexed <= kills + faults + Cardinality({})
        /\ counted \in Nat /\ indexed \in Nat /\ kills \in Nat /\ faults \in Nat
    BY <1>4, <2>1, <2>2 DEF IndexInv, IndexLags, IngestTypes, StoreTypes
  <2>5. Cardinality({}) = 0 /\ Cardinality({h}) = 1
    BY FS_EmptySet, FS_Singleton
  <2>6. b - counted' <= kills + faults /\ b - indexed <= kills + faults + Cardinality({h})
    BY <1>4, <2>3, <2>4, <2>5
  <2>7. seenIds' \subseteq Elements(t) \cup glued'
    BY <1>4, <1>5, <1>7, <2>1 DEF IndexInv
  <2>8. Elements(lines)' = Elements(t)
    BY <2>1 DEF Elements
  <2>9. IndexLags'
    BY <1>4, <2>2, <2>6, <2>8 DEF IndexLags
  <2> QED
    BY <1>4, <2>2, <2>6, <2>7, <2>8, <2>9 DEF IndexInv
<1> QED
  BY <1>11, <1>12

(* A failure of the store: the request is refused, one line may be there.  *)
LEMMA StoreFailed ==
  ASSUME IngestInv, NEW h \in Handlers, NEW N, NEW e \in EventIds, N \subseteq {e},
         request[h] \in ReqRec, request[h].stage = "append", backend = "file",
         request' = [request EXCEPT ![h] = FreeHandler], faults' = faults + 1,
         UNCHANGED <<backend, tracker, emitted, counted, indexed, indexing, kills, answered>>,
         emitted[e] > 0, lines' \in Seq(EventIds), rotated' \subseteq EventIds,
         glued' \subseteq EventIds, EverWritten' = EverWritten \cup N,
         Elements(lines') \subseteq Elements(lines) \cup {e},
         seenIds' \subseteq Elements(lines') \cup glued', ~muddled' => ~muddled
  PROVE  IngestInv'
<1> USE DEF IngestInv
<1>1. PICK r : r = FreeHandler
  OBVIOUS
<1>2. ReqOK(r, EverWritten', emitted) /\ BatchOf(r) \subseteq BatchOf(request[h])
  BY <1>1 DEF ReqOK, BatchOf
<1>3. StoreTypes'
  BY DEF IngestTypes, StoreTypes
<1>4. answered' \subseteq EverWritten' /\ \A x \in N : emitted[x] > 0
  BY DEF RequestsInv, AcceptedIsStored
<1>5. IngestTypes' /\ RequestsInv' /\ OnceInv'
  BY <1>1, <1>2, <1>3, <1>4, StoreGrows
<1>6. PICK s, t : s = lines /\ t = lines'
  OBVIOUS
<1>7. PICK a, b : a = Cardinality(Elements(s) \ Anonymous) /\ b = Cardinality(Elements(t) \ Anonymous)
  OBVIOUS
<1>8. a \in Nat /\ b \in Nat /\ b <= a + 1
  <2>1. IsFiniteSet(Elements(s))
    BY <1>6, ElementsOf DEF IngestTypes, StoreTypes
  <2>2. a \in Nat /\ b \in Nat /\ b <= a + (IF e \in Anonymous THEN 0 ELSE 1)
    BY <1>6, <1>7, <2>1, NamedGrow
  <2> QED
    BY <2>2
<1>9. PICK c : c = Cardinality(indexing)
  OBVIOUS
<1>10. c \in Nat
  BY <1>9, IndexingCount DEF IngestTypes, StoreTypes
<1>11. /\ a - counted <= kills + faults /\ a - indexed <= kills + faults + c
       /\ counted \in Nat /\ indexed \in Nat /\ kills \in Nat /\ faults \in Nat
  BY <1>6, <1>7, <1>9 DEF IndexInv, IndexLags, IngestTypes, StoreTypes
<1>12. b - counted' <= kills' + faults' /\ b - indexed' <= kills' + faults' + c
  BY <1>8, <1>10, <1>11
<1>13. Elements(lines)' = Elements(t) /\ c = Cardinality(indexing')
  BY <1>6, <1>9 DEF Elements
<1>14. IndexLags'
  BY <1>7, <1>12, <1>13 DEF IndexLags
<1>15. IndexInv'
  BY <1>6, <1>7, <1>12, <1>13, <1>14 DEF IndexInv
<1> QED
  BY <1>5, <1>15

LEMMA StoreFaultStep ==
  ASSUME IngestInv, NEW h \in Handlers, StoreFault(h)
  PROVE  IngestInv'
<1> USE DEF IngestInv
<1>1. PICK q : q = request[h]
  OBVIOUS
<1>2. PICK p : p = Pending(q)
  OBVIOUS
<1>3. PICK e : e = p[q.at]
  OBVIOUS
<1>4. /\ q \in ReqRec /\ q.stage = "append" /\ q.at <= Len(p) /\ backend = "file"
      /\ request' = [request EXCEPT ![h] = FreeHandler] /\ faults' = faults + 1
      /\ UNCHANGED <<backend, tracker, emitted, counted, indexed, indexing, kills, answered>>
  BY <1>1, <1>2 DEF StoreFault, Writes, Appends, IngestTypes
<1>5. e \in EventIds /\ emitted[e] > 0
  BY <1>1, <1>2, <1>3, <1>4, EventInHand
<1>6. PICK s, t : s = lines /\ t = lines'
  OBVIOUS
<1>7. s \in Seq(EventIds) /\ Elements(s) \subseteq EventIds /\ seenIds \subseteq Elements(s) \cup glued
      /\ rotated \subseteq EventIds /\ glued \subseteq EventIds
  BY <1>4, <1>6, ElementsOf DEF IngestTypes, StoreTypes, IndexInv
<1>8. /\ EverWritten' = (Elements(t) \cup rotated') \cup glued'
      /\ EverWritten = (Elements(s) \cup rotated) \cup glued
  BY <1>6 DEF EverWritten, Stored, Elements
<1>9. CASE UNCHANGED <<lines, rotated, tail, seenIds, glued, muddled>>
  <2>1. t = s /\ EverWritten' = EverWritten \cup {} /\ (~muddled' => ~muddled)
    BY <1>6, <1>8, <1>9
  <2>2. /\ lines' \in Seq(EventIds) /\ rotated' \subseteq EventIds /\ glued' \subseteq EventIds
        /\ Elements(lines') \subseteq Elements(lines) \cup {e}
        /\ seenIds' \subseteq Elements(lines') \cup glued'
    BY <1>6, <1>7, <1>9, <2>1
  <2>3. PICK N : N = {}
    OBVIOUS
  <2>4. EverWritten' = EverWritten \cup N /\ N \subseteq {e}
    BY <2>1, <2>3
  <2> HIDE DEF IngestInv
  <2> QED
    BY <1>1, <1>4, <1>5, <2>1, <2>2, <2>4, StoreFailed
<1>10. ASSUME NEW turn \in BOOLEAN, Rotate(turn), seenIds' = IF turn THEN {} ELSE seenIds,
              lines' = (IF turn THEN << >> ELSE lines), UNCHANGED glued
       PROVE  IngestInv'
  <2>1. ~muddled' => ~muddled
    BY <1>10, Zenon DEF Rotate
  <2>2. /\ t = IF turn THEN << >> ELSE s
        /\ rotated' = IF turn THEN rotated \cup Elements(s) ELSE rotated
    BY <1>6, <1>10 DEF Rotate
  <2>3. Elements(t) = IF turn THEN {} ELSE Elements(s)
    BY <2>2 DEF Elements
  <2>4. EverWritten' = EverWritten \cup {}
    BY <1>8, <1>10, <2>2, <2>3
  <2>5. lines' \in Seq(EventIds) /\ rotated' \subseteq EventIds /\ glued' \subseteq EventIds
    BY <1>6, <1>7, <1>10, <2>2
  <2>6. /\ Elements(lines') \subseteq Elements(lines) \cup {e}
        /\ seenIds' \subseteq Elements(lines') \cup glued'
    BY <1>6, <1>7, <1>10, <2>3
  <2>7. PICK N : N = {}
    OBVIOUS
  <2>8. EverWritten' = EverWritten \cup N /\ N \subseteq {e}
    BY <2>4, <2>7
  <2> HIDE DEF IngestInv
  <2> QED
    BY <1>1, <1>4, <1>5, <2>1, <2>5, <2>6, <2>8, StoreFailed
<1>11. ASSUME NEW turn \in BOOLEAN, Rotate(turn), seenIds' = IF turn THEN {} ELSE seenIds,
              WriteLine(e, turn)
       PROVE  IngestInv'
  <2>1. /\ lines' \in Seq(EventIds) /\ rotated' \subseteq EventIds /\ glued' \subseteq EventIds
        /\ EverWritten' = EverWritten \cup {e}
        /\ Elements(lines') \subseteq Elements(lines) \cup {e}
        /\ ~turn => Elements(lines) \cup glued \subseteq Elements(lines') \cup glued'
        /\ ~muddled' => ~muddled
    BY <1>5, <1>11, LineWritten
  <2>2. seenIds' \subseteq Elements(lines') \cup glued'
    BY <1>6, <1>7, <1>11, <2>1
  <2> QED
    BY <1>1, <1>4, <1>5, <2>1, <2>2, StoreFailed
<1>12. \/ UNCHANGED <<lines, rotated, tail, seenIds, glued, muddled>>
       \/ \E turn \in BOOLEAN :
             /\ Rotate(turn) /\ seenIds' = IF turn THEN {} ELSE seenIds
             /\ \/ turn /\ lines' = << >> /\ UNCHANGED glued
                \/ lines' = (IF turn THEN << >> ELSE lines) /\ UNCHANGED glued
                \/ WriteLine(e, turn)
  <2> HIDE DEF IngestInv
  <2>1. e = Pending(request[h])[request[h].at]
    BY <1>1, <1>2, <1>3
  <2>2. \A x \in Turns : x \in BOOLEAN
    BY DEF Turns
  <2>3. \/ UNCHANGED <<lines, rotated, tail, seenIds, glued, muddled>>
        \/ \E turn \in Turns :
              /\ Rotate(turn) /\ seenIds' = IF turn THEN {} ELSE seenIds
              /\ \/ turn /\ lines' = << >> /\ UNCHANGED glued
                 \/ lines' = (IF turn THEN << >> ELSE lines) /\ UNCHANGED glued
                 \/ WriteLine(e, turn)
    BY <2>1 DEF StoreFault
  <2> QED
    BY <2>2, <2>3, Zenon
<1>13. ASSUME NEW turn \in BOOLEAN, Rotate(turn), seenIds' = IF turn THEN {} ELSE seenIds, turn,
              lines' = << >>, UNCHANGED glued
       PROVE  IngestInv'
  <2> HIDE DEF IngestInv
  <2> QED
    BY <1>10, <1>13
<1> HIDE DEF IngestInv
<1> QED
  BY <1>9, <1>10, <1>11, <1>12, <1>13

LEMMA PersistDevicesStep ==
  ASSUME IngestInv, NEW h \in Handlers, PersistDevices(h)
  PROVE  IngestInv'
<1> USE DEF IngestInv
<1>1. /\ indexing' = {} /\ indexed' = counted
      /\ UNCHANGED <<backend, request, tracker, emitted, lines, rotated, glued, seenIds, counted,
                     kills, faults, muddled, answered>>
  BY DEF PersistDevices, IndexWritten, fileVars
<1>2. IngestTypes'
  BY <1>1 DEF IngestTypes, StoreTypes
<1>3. EverWritten' = EverWritten
  BY <1>1, StoreUntouched
<1>4. RequestsInv'
  BY <1>1, <1>3 DEF RequestsInv, StoredWasPublished, AcceptedIsStored, Elements
<1>5. OnceInv'
  BY <1>1, OnceUntouched
<1>6. IndexInv'
  <2>1. PICK c : c = Cardinality(Elements(lines) \ Anonymous)
    OBVIOUS
  <2>2. c - counted <= kills + faults
    BY <2>1 DEF IndexInv
  <2>3. Cardinality(indexing') = 0
    BY <1>1, FS_EmptySet
  <2>4. c - indexed' <= kills' + faults' + Cardinality(indexing')
    BY <1>1, <2>2, <2>3 DEF IngestTypes, StoreTypes
  <2>5. Elements(lines)' = Elements(lines)
    BY <1>1 DEF Elements
  <2>6. IndexLags'
    BY <2>1, <2>4, <2>5 DEF IndexLags
  <2> QED
    BY <1>1, <2>1, <2>2, <2>5, <2>6 DEF IndexInv
<1> QED
  BY <1>2, <1>4, <1>5, <1>6

LEMMA PersistFailsStep ==
  ASSUME IngestInv, NEW h \in Handlers, PersistFails(h)
  PROVE  IngestInv'
<1> USE DEF IngestInv
<1>1. PICK r : r = FreeHandler
  OBVIOUS
<1>2. /\ indexing = {h} /\ indexing' = {} /\ faults' = faults + 1 /\ request[h].stage = "append"
      /\ request' = [request EXCEPT ![h] = r]
      /\ UNCHANGED <<backend, tracker, emitted, lines, rotated, glued, seenIds, counted, indexed,
                     kills, muddled, answered>>
  BY <1>1 DEF PersistFails, fileVars
<1>3. ReqOK(r, EverWritten', emitted') /\ BatchOf(r) \subseteq BatchOf(request[h])
  BY <1>1 DEF ReqOK, BatchOf
<1>4. EverWritten' = EverWritten /\ \A x \in EventIds : emitted[x] <= emitted'[x]
  BY <1>2, StoreUntouched DEF IngestTypes
<1>5. /\ request' \in [Handlers -> ReqRec \cup {FreeHandler}]
      /\ \A g \in Handlers : ReqOK(request'[g], EverWritten', emitted')
  BY <1>1, <1>2, <1>3, <1>4, RequestReplaced DEF IngestTypes
<1>6. IngestTypes'
  BY <1>2, <1>5 DEF IngestTypes, StoreTypes
<1>7. RequestsInv'
  BY <1>2, <1>4, <1>5 DEF RequestsInv, StoredWasPublished, AcceptedIsStored, Elements
<1>8. OnceInv'
  <2>1. ~muddled' => ~muddled /\ Elements(tracker) \subseteq Elements(tracker')
    BY <1>2 DEF Elements
  <2>2. \A x \in EventIds : ~Noting(request[h], x)
    BY <1>2 DEF Noting
  <2> QED
    BY <1>2, <1>3, <2>1, <2>2, OnceKept
<1>9. IndexInv'
  <2>1. PICK c : c = Cardinality(Elements(lines) \ Anonymous)
    OBVIOUS
  <2>2. c - counted <= kills + faults /\ c - indexed <= kills + faults + Cardinality({h})
    BY <1>2, <2>1 DEF IndexInv, IndexLags
  <2>3. Cardinality({h}) = 1 /\ Cardinality({}) = 0
    BY FS_EmptySet, FS_Singleton
  <2>4. c \in Nat
    <3>1. IsFiniteSet(Elements(lines))
      BY ElementsOf DEF IngestTypes, StoreTypes
    <3> QED
      BY <2>1, <3>1, FS_Subset, FS_CardinalityType
  <2>5. c - counted' <= kills' + faults' /\ c - indexed' <= kills' + faults' + Cardinality({})
    BY <1>2, <2>2, <2>3, <2>4 DEF IngestTypes, StoreTypes
  <2>6. Elements(lines)' = Elements(lines)
    BY <1>2 DEF Elements
  <2>7. IndexLags'
    BY <1>2, <2>1, <2>5, <2>6 DEF IndexLags
  <2> QED
    BY <1>2, <2>1, <2>5, <2>6, <2>7 DEF IndexInv
<1> QED
  BY <1>6, <1>7, <1>8, <1>9

LEMMA KillStep ==
  ASSUME IngestInv, Kill
  PROVE  IngestInv'
<1> USE DEF IngestInv
<1>1. /\ kills' = kills + 1 /\ request' = [g \in Handlers |-> FreeHandler] /\ tracker' = << >>
      /\ seenIds' = (IF backend = "file" THEN Elements(lines) ELSE {})
      /\ counted' = indexed /\ indexing' = {} /\ muddled' = TRUE
      /\ UNCHANGED <<backend, emitted, lines, rotated, indexed, faults, glued, answered>>
  BY DEF Kill
<1>2. IngestTypes'
  BY <1>1 DEF IngestTypes, StoreTypes
<1>3. EverWritten' = EverWritten
  BY <1>1, StoreUntouched
<1>4. \A g \in Handlers : ReqOK(request'[g], EverWritten', emitted')
  BY <1>1 DEF ReqOK
<1>5. Elements(tracker') = {}
  BY <1>1 DEF Elements
<1>6. (\A x \in Elements(tracker) : emitted[x] > 0)'
  BY <1>5 DEF Elements
<1>7. RequestsInv'
  BY <1>1, <1>3, <1>4, <1>6 DEF RequestsInv, StoredWasPublished, AcceptedIsStored
<1>8. OnceInv'
  BY <1>1 DEF OnceInv
<1>9. IndexInv'
  <2>1. PICK c, i : c = Cardinality(Elements(lines) \ Anonymous) /\ i = Cardinality(indexing)
    OBVIOUS
  <2>2. c \in Nat
    <3>1. IsFiniteSet(Elements(lines))
      BY ElementsOf DEF IngestTypes, StoreTypes
    <3> QED
      BY <2>1, <3>1, FS_Subset, FS_CardinalityType
  <2>3. i \in Nat /\ i <= 1
    BY <2>1, IndexingCount DEF IngestTypes, StoreTypes
  <2>4. c - indexed <= kills + faults + i
    BY <2>1 DEF IndexInv, IndexLags
  <2>5. c - indexed' <= kills' + faults'
    BY <1>1, <2>2, <2>3, <2>4 DEF IngestTypes, StoreTypes
  <2>6. Elements(lines)' = Elements(lines) /\ Cardinality(indexing') = 0
    BY <1>1, FS_EmptySet DEF Elements
  <2>7. c - indexed' <= kills' + faults' + Cardinality(indexing')
    BY <1>1, <2>5, <2>6 DEF IngestTypes, StoreTypes
  <2>8. IndexLags'
    BY <2>1, <2>6, <2>7 DEF IndexLags
  <2> QED
    BY <1>1, <2>1, <2>5, <2>6, <2>8 DEF IndexInv
<1> QED
  BY <1>2, <1>7, <1>8, <1>9

LEMMA IngestInitial == IngestInit => IngestInv
<1> SUFFICES ASSUME IngestInit PROVE IngestInv
  OBVIOUS
<1>1. /\ request = [h \in Handlers |-> FreeHandler] /\ tracker = << >> /\ lines = << >>
      /\ emitted = [e \in EventIds |-> 0] /\ rotated = {} /\ glued = {} /\ seenIds = {}
      /\ counted = 0 /\ indexed = 0 /\ indexing = {} /\ kills = 0 /\ faults = 0
      /\ answered = {} /\ backend \in {"file", "sqlite"}
  BY DEF IngestInit
<1>2. Elements(lines) = {} /\ Elements(tracker) = {} /\ EverWritten = {}
  BY <1>1 DEF Elements, EverWritten, Stored
<1>3. IngestTypes
  BY <1>1 DEF IngestTypes, StoreTypes
<1>4. RequestsInv
  BY <1>1, <1>2 DEF RequestsInv, ReqOK, StoredWasPublished, AcceptedIsStored
<1>5. OnceInv
  BY <1>1 DEF OnceInv, BatchOf
<1>6. Cardinality(Elements(lines) \ Anonymous) = 0 /\ Cardinality(indexing) = 0
  BY <1>1, <1>2, FS_EmptySet
<1>7. IndexInv
  BY <1>1, <1>2, <1>6 DEF IndexInv, IndexLags
<1> QED
  BY <1>3, <1>4, <1>5, <1>7 DEF IngestInv

(* Whatever requests run at the same time, fail or are sent again, whatever*)
(* operation of the store fails and wherever the service is killed: what is*)
(* stored was published, what was accepted was stored, an event the tracker*)
(* could know is published once, and the index lags by kills and failures  *)
(* only.                                                                   *)
THEOREM IngestHolds == IngestSpec => []IngestSound
<1>1. IngestInit => IngestInv
  BY IngestInitial
<1>2. IngestInv /\ [IngestNext]_ingestVars => IngestInv'
  <2> SUFFICES ASSUME IngestInv, [IngestNext]_ingestVars PROVE IngestInv'
    OBVIOUS
  <2>1. CASE UNCHANGED ingestVars
    <3> USE DEF IngestInv
    <3>1. UNCHANGED <<backend, request, tracker, emitted, lines, rotated, glued, seenIds, counted,
                      indexed, indexing, kills, faults, muddled, answered>>
      BY <2>1 DEF ingestVars, fileVars
    <3>2. IngestTypes'
      BY <3>1 DEF IngestTypes, StoreTypes
    <3>3. EverWritten' = EverWritten
      BY <3>1, StoreUntouched
    <3>4. RequestsInv'
      BY <3>1, <3>3 DEF RequestsInv, StoredWasPublished, AcceptedIsStored, Elements
    <3>5. OnceInv'
      BY <3>1, OnceUntouched
    <3>6. IndexInv'
      BY <3>1, IndexUntouched
    <3> QED
      BY <3>2, <3>4, <3>5, <3>6
  <2> QED
    BY <2>1, ReceiveBatchStep, ProcessEventStep, RememberEventStep, EndLoopStep, AppendFailsStep,
       AppendBatchSQLiteStep, PruneOldestStep, SkipEventStep, AppendFileStep, StoreFaultStep,
       PersistDevicesStep, PersistFailsStep, KillStep
    DEF IngestNext
<1>3. IngestInv => IngestSound
  <2> SUFFICES ASSUME IngestInv PROVE IngestSound
    OBVIOUS
  <2>1. ~muddled => \A e \in EventIds : emitted[e] <= 1
    BY DEF IngestInv, OnceInv
  <2> QED
    BY <2>1 DEF IngestInv, IngestSound, RequestsInv, IndexInv, PublishedOnce
<1> QED
  BY <1>1, <1>2, <1>3, PTL DEF IngestSpec

-----------------------------------------------------------------------------
(* What occurs once in a list is kept at most once.                        *)
Once(s, n, x) == \A i, j \in 1..n : s[i] = x /\ s[j] = x => i = j

LEMMA KeptOnce ==
  ASSUME NEW S, NEW s \in Seq(S), NEW out
  PROVE  \A x : Once(s, Len(s), x) => Once(Kept(s, out), Len(Kept(s, out)), x)
<1>1. PICK f, len : f = KeptUpTo(s, out) /\ len = Len(s)
  OBVIOUS
<1>2. len \in Nat /\ KeepsUpTo(f, s, out, len)
  BY <1>1, KeptUnfolds
<1> DEFINE Good(n) == /\ f[n] \in Seq(S)
                      /\ \A i \in 1..Len(f[n]) : \E j \in 1..n : s[j] = f[n][i]
                      /\ \A x : Once(s, n, x) => Once(f[n], Len(f[n]), x)
           T == {n \in Nat : n <= len => Good(n)}
<1>3. 0 \in T
  <2>1. f[0] = << >> /\ f[0] \in Seq(S) /\ Len(f[0]) = 0
    BY <1>2 DEF KeepsUpTo
  <2>2. 1..Len(f[0]) = {}
    BY <2>1
  <2>3. Good(0)
    BY <2>1, <2>2 DEF Once
  <2> HIDE DEF Good
  <2> QED
    BY <2>3
<1>4. ASSUME NEW n \in Nat, n \in T PROVE n + 1 \in T
  <2> SUFFICES ASSUME n + 1 <= len PROVE Good(n + 1)
    OBVIOUS
  <2>1. Good(n) /\ n + 1 \in 1..len
    BY <1>2, <1>4
  <2>2. f[n + 1] = IF s[n + 1] \in out THEN f[n] ELSE Append(f[n], s[n + 1])
    <3>1. (n + 1) - 1 = n
      OBVIOUS
    <3> QED
      BY <2>1, <1>2, <3>1 DEF KeepsUpTo
  <2>3. PICK a, b, e : a = f[n] /\ b = f[n + 1] /\ e = s[n + 1]
    OBVIOUS
  <2>4. e \in S /\ a \in Seq(S) /\ Len(a) \in Nat /\ b = IF e \in out THEN a ELSE Append(a, e)
    BY <1>1, <2>1, <2>2, <2>3
  <2>5. /\ \A i \in 1..Len(a) : \E j \in 1..n : s[j] = a[i]
        /\ \A x : Once(s, n, x) => Once(a, Len(a), x)
    BY <2>1, <2>3
  <2>6. \A x : Once(s, n + 1, x) => Once(s, n, x)
    BY DEF Once
  <2>7. CASE e \in out
    <3>1. b = a
      BY <2>4, <2>7
    <3>2. \A i \in 1..n : i \in 1..(n + 1)
      OBVIOUS
    <3>3. \A i \in 1..Len(b) : \E j \in 1..(n + 1) : s[j] = b[i]
      BY <2>5, <3>1, <3>2
    <3> QED
      BY <2>3, <2>4, <2>5, <2>6, <3>1, <3>3
  <2>8. CASE e \notin out
    <3>1. /\ b \in Seq(S) /\ Len(b) = Len(a) + 1 /\ b[Len(a) + 1] = e
          /\ \A i \in 1..Len(a) : b[i] = a[i]
      BY <2>4, <2>8
    <3>2. ASSUME NEW i \in 1..Len(b) PROVE \E j \in 1..(n + 1) : s[j] = b[i]
      <4>1. CASE i = Len(a) + 1
        BY <2>3, <3>1, <4>1
      <4>2. CASE i \in 1..Len(a)
        <5>1. PICK j \in 1..n : s[j] = a[i]
          BY <2>5, <4>2
        <5> QED
          BY <3>1, <4>2, <5>1
      <4> QED
        BY <2>4, <3>1, <4>1, <4>2
    <3>3. ASSUME NEW x, Once(s, n + 1, x) PROVE Once(b, Len(b), x)
      <4>1. CASE x = e
        <5>1. \A j \in 1..n : s[j] # e
          BY <2>3, <3>3, <4>1 DEF Once
        <5>2. \A i \in 1..Len(a) : b[i] # e
          BY <2>5, <3>1, <5>1
        <5> QED
          BY <2>4, <3>1, <4>1, <5>2 DEF Once
      <4>2. CASE x # e
        <5>1. Once(a, Len(a), x)
          BY <2>5, <2>6, <3>3
        <5>2. \A i \in 1..Len(b) : b[i] = x => i \in 1..Len(a) /\ a[i] = x
          BY <2>4, <3>1, <4>2
        <5> QED
          BY <5>1, <5>2 DEF Once
      <4> QED
        BY <4>1, <4>2
    <3> QED
      BY <2>3, <3>1, <3>2, <3>3
  <2> QED
    BY <2>7, <2>8
<1>5. len \in T
  <2> HIDE DEF T
  <2> QED
    BY <1>2, <1>3, <1>4, SetInduction
<1>6. Good(len)
  BY <1>2, <1>5
<1>7. Kept(s, out) = f[len]
  BY <1>1 DEF Kept
<1> QED
  BY <1>1, <1>6, <1>7

(* A set of positions has a first and a last one.                          *)
LEMMA Extremes ==
  ASSUME NEW n \in Nat, NEW at \in SUBSET (1..n), at # {}
  PROVE  /\ \E k \in at : \A j \in at : k <= j
         /\ \E k \in at : \A j \in at : j <= k
<1> DEFINE T == {m \in Nat : \A S \in SUBSET (1..m) : S # {} =>
                    /\ \E k \in S : \A j \in S : k <= j
                    /\ \E k \in S : \A j \in S : j <= k}
<1>1. 0 \in T
  <2>1. \A S \in SUBSET (1..0) : S = {}
    OBVIOUS
  <2> QED
    BY <2>1
<1>2. ASSUME NEW m \in Nat, m \in T PROVE m + 1 \in T
  <2>1. ASSUME NEW S \in SUBSET (1..(m + 1)), S # {}
        PROVE  /\ \E k \in S : \A j \in S : k <= j
               /\ \E k \in S : \A j \in S : j <= k
    <3>1. CASE m + 1 \notin S
      <4>1. S \in SUBSET (1..m)
        BY <3>1
      <4> QED
        BY <1>2, <2>1, <4>1
    <3>2. CASE S = {m + 1}
      BY <3>2
    <3>3. CASE m + 1 \in S /\ S # {m + 1}
      <4>1. PICK R : R = S \ {m + 1}
        OBVIOUS
      <4>2. R \in SUBSET (1..m) /\ R # {}
        BY <2>1, <3>3, <4>1
      <4>3. PICK k \in R : \A j \in R : k <= j
        BY <1>2, <4>2
      <4>4. \A j \in S : j \in R \/ j = m + 1
        BY <4>1
      <4>5. k \in S /\ \A j \in S : k <= j
        BY <4>1, <4>2, <4>3, <4>4
      <4>6. \A j \in S : j <= m + 1
        OBVIOUS
      <4> QED
        BY <3>3, <4>5, <4>6
    <3> QED
      BY <3>1, <3>2, <3>3
  <2> QED
    BY <2>1
<1>3. n \in T
  <2> HIDE DEF T
  <2> QED
    BY <1>1, <1>2, SetInduction
<1> QED
  BY <1>3

-----------------------------------------------------------------------------
(***************************************************************************)
(* The audit-mode bundles.  A device that no stage request named twice has *)
(* at most one row, and the only row of a device shows its last word.      *)
(***************************************************************************)
BundleRow == [device : BundleDevices, status : EndpointStatuses, matched : BOOLEAN]
AuditBundle ==
    [id : 1..MaxBundles, status : {"draft", "staged", "revoked"}, content : BundleContents,
     rows : Seq(BundleRow), matches : Seq(BundleDevices)]
Words == [(1..MaxBundles) \X BundleDevices -> EndpointStatuses \cup {""}]

RowsOK(id, rows, words, twice) ==
    \A d \in BundleDevices :
        /\ <<id, d>> \notin twice => \A j, k \in RowsOf(rows, d) : j = k
        /\ \A k : RowsOf(rows, d) = {k} => rows[k].status = words[<<id, d>>]

BundleTypes ==
    /\ bundles \in Seq(AuditBundle) /\ bundleCount \in 0..MaxBundles /\ lastWord \in Words
    /\ \A i \in DOMAIN bundles : bundles[i].id <= bundleCount
    /\ \A i, j \in DOMAIN bundles : bundles[i].id = bundles[j].id => i = j
BundleInv ==
    /\ BundleTypes
    /\ \A i \in DOMAIN bundles : RowsOK(bundles[i].id, bundles[i].rows, lastWord, doubled)

(* Rows that keep their devices and statuses keep what they show.          *)
LEMMA SameRows ==
  ASSUME NEW id, NEW rows, NEW words, NEW twice, RowsOK(id, rows, words, twice),
         NEW new, DOMAIN new = DOMAIN rows,
         \A k \in DOMAIN rows : new[k].device = rows[k].device /\ new[k].status = rows[k].status
  PROVE  RowsOK(id, new, words, twice)
<1>1. \A d : RowsOf(new, d) = RowsOf(rows, d)
  BY DEF RowsOf
<1>2. \A d : \A k \in RowsOf(rows, d) : new[k].status = rows[k].status
  BY DEF RowsOf
<1> QED
  BY <1>1, <1>2 DEF RowsOK

LEMMA RowsInRange ==
  ASSUME NEW rows \in Seq(BundleRow), NEW d
  PROVE  /\ RowsOf(rows, d) \subseteq 1..Len(rows) /\ Len(rows) \in Nat
         /\ IsFiniteSet(RowsOf(rows, d))
         /\ DOMAIN rows = 1..Len(rows)
<1>1. DOMAIN rows = 1..Len(rows) /\ Len(rows) \in Nat
  OBVIOUS
<1>2. RowsOf(rows, d) \subseteq 1..Len(rows)
  BY <1>1 DEF RowsOf
<1>3. IsFiniteSet(1..Len(rows))
  BY <1>1, FS_Interval
<1>4. IsFiniteSet(RowsOf(rows, d))
  BY <1>2, <1>3, FS_Subset
<1> QED
  BY <1>1, <1>2, <1>4

(* A status that is reported.                                              *)
WordSaid(said, words, id, d, status) == said = [words EXCEPT ![<<id, d>>] = status]

LEMMA ReportedRows ==
  ASSUME NEW id, NEW rows \in Seq(BundleRow), NEW words \in Words, NEW twice,
         RowsOK(id, rows, words, twice), id \in 1..MaxBundles,
         NEW d \in BundleDevices, NEW status \in EndpointStatuses,
         NEW said, WordSaid(said, words, id, d, status)
  PROVE  /\ Reporting(rows, d, status) \in Seq(BundleRow)
         /\ RowsOK(id, Reporting(rows, d, status), said, twice)
<1>1. PICK new, at, n : new = Reporting(rows, d, status) /\ at = RowsOf(rows, d) /\ n = Len(rows)
  OBVIOUS
<1>2. at \subseteq 1..n /\ n \in Nat /\ DOMAIN rows = 1..n
  BY <1>1, RowsInRange
<1>3. said[<<id, d>>] = status /\ \A e \in BundleDevices \ {d} : said[<<id, e>>] = words[<<id, e>>]
  BY DEF Words, WordSaid
<1>4. CASE at = {}
  <2>1. PICK r : r = [device |-> d, status |-> status, matched |-> FALSE]
    OBVIOUS
  <2>2. r \in BundleRow /\ r.device = d /\ r.status = status
    BY <2>1 DEF BundleRow
  <2>3. new = Append(rows, r)
    BY <1>1, <1>4, <2>1 DEF Reporting
  <2>4. /\ new \in Seq(BundleRow) /\ DOMAIN new = 1..(n + 1) /\ new[n + 1] = r
        /\ \A k \in 1..n : new[k] = rows[k]
    BY <1>1, <1>2, <2>2, <2>3
  <2>5. RowsOf(new, d) = {n + 1}
    BY <1>1, <1>2, <1>4, <2>2, <2>4 DEF RowsOf
  <2>6. \A e \in BundleDevices \ {d} : RowsOf(new, e) = RowsOf(rows, e)
    BY <1>2, <2>2, <2>4 DEF RowsOf
  <2>7. ASSUME NEW e \in BundleDevices
        PROVE  /\ <<id, e>> \notin twice => \A j, k \in RowsOf(new, e) : j = k
               /\ \A k : RowsOf(new, e) = {k} => new[k].status = said[<<id, e>>]
    <3>1. CASE e = d
      BY <1>3, <2>2, <2>4, <2>5, <3>1
    <3>2. CASE e # d
      <4>1. RowsOf(new, e) = RowsOf(rows, e) /\ RowsOf(rows, e) \subseteq 1..n
        BY <1>1, <2>6, <3>2, RowsInRange
      <4>2. \A k \in RowsOf(rows, e) : new[k] = rows[k]
        BY <2>4, <4>1
      <4> QED
        BY <1>3, <3>2, <4>1, <4>2 DEF RowsOK
    <3> QED
      BY <3>1, <3>2
  <2> QED
    BY <1>1, <2>4, <2>7 DEF RowsOK
<1>5. CASE at # {}
  <2>1. PICK m : m = CHOOSE k \in at : \A j \in at : k <= j
    OBVIOUS
  <2>2. m \in at
    BY <1>2, <1>5, <2>1, Extremes
  <2>3. new = [rows EXCEPT ![m].status = status]
    BY <1>1, <1>5, <2>1 DEF Reporting
  <2>4. m \in 1..n /\ rows[m] \in BundleRow /\ rows[m].device = d
    BY <1>1, <1>2, <2>2 DEF RowsOf
  <2>5. PICK r : r = [rows[m] EXCEPT !.status = status]
    OBVIOUS
  <2>6. r \in BundleRow /\ r.device = d /\ r.status = status
    BY <2>4, <2>5 DEF BundleRow
  <2>7. new = [rows EXCEPT ![m] = r]
    BY <2>3, <2>5
  <2>8. /\ new \in Seq(BundleRow) /\ DOMAIN new = 1..n /\ new[m] = r
        /\ \A k \in (1..n) \ {m} : new[k] = rows[k]
    BY <1>1, <1>2, <2>4, <2>6, <2>7
  <2>9. \A e : RowsOf(new, e) = RowsOf(rows, e)
    BY <1>2, <2>4, <2>6, <2>8 DEF RowsOf
  <2>10. ASSUME NEW e \in BundleDevices
         PROVE  /\ <<id, e>> \notin twice => \A j, k \in RowsOf(new, e) : j = k
                /\ \A k : RowsOf(new, e) = {k} => new[k].status = said[<<id, e>>]
    <3>1. CASE e = d
      <4>1. \A k : RowsOf(new, e) = {k} => k = m
        BY <1>1, <2>2, <2>9, <3>1
      <4> QED
        BY <1>3, <2>6, <2>8, <2>9, <3>1, <4>1 DEF RowsOK
    <3>2. CASE e # d
      <4>1. RowsOf(new, e) = RowsOf(rows, e) /\ RowsOf(rows, e) \subseteq 1..n /\ m \notin RowsOf(rows, e)
        BY <1>1, <2>4, <2>9, <3>2, RowsInRange DEF RowsOf
      <4>2. \A k \in RowsOf(rows, e) : new[k] = rows[k]
        BY <2>8, <4>1
      <4> QED
        BY <1>3, <3>2, <4>1, <4>2 DEF RowsOK
    <3> QED
      BY <3>1, <3>2
  <2> QED
    BY <1>1, <2>8, <2>10 DEF RowsOK
<1> QED
  BY <1>4, <1>5

(* What one stage request names twice.                                     *)
TwiceIn(ids) ==
    {x \in Elements(ids) : Cardinality({n \in DOMAIN ids : ids[n] = x}) > 1}

LEMMA NamedOnce ==
  ASSUME NEW ids \in Seq(BundleDevices), NEW x \in BundleDevices, x \notin TwiceIn(ids)
  PROVE  Once(ids, Len(ids), x)
<1>1. DOMAIN ids = 1..Len(ids) /\ Len(ids) \in Nat
  OBVIOUS
<1> SUFFICES ASSUME NEW i \in 1..Len(ids), NEW j \in 1..Len(ids),
                    ids[i] = x, ids[j] = x, i # j
             PROVE  FALSE
  BY DEF Once
<1>2. PICK at : at = {n \in DOMAIN ids : ids[n] = x}
  OBVIOUS
<1>3. x \in Elements(ids)
  BY <1>1 DEF Elements
<1>4. IsFiniteSet(1..Len(ids)) /\ at \subseteq 1..Len(ids)
  BY <1>1, <1>2, FS_Interval
<1>5. IsFiniteSet(at)
  BY <1>4, FS_Subset
<1>6. ~ (Cardinality(at) > 1)
  BY <1>2, <1>3 DEF TwiceIn
<1>7. Cardinality(at) \in Nat /\ i \in at /\ j \in at
  BY <1>1, <1>2, <1>5, FS_CardinalityType
<1>8. Cardinality(at) # 0
  BY <1>5, <1>7, FS_EmptySet
<1>9. Cardinality(at) = 1
  BY <1>6, <1>7, <1>8
<1>10. PICK y : at = {y}
  BY <1>5, <1>9, FS_Singleton
<1> QED
  BY <1>7, <1>10

LEMMA JoinedSeq ==
  ASSUME NEW S, NEW a \in Seq(S), NEW b \in Seq(S)
  PROVE  /\ a \o b \in Seq(S) /\ DOMAIN (a \o b) = 1..(Len(a) + Len(b))
         /\ \A k \in 1..Len(a) : (a \o b)[k] = a[k]
         /\ \A k \in 1..Len(b) : (a \o b)[Len(a) + k] = b[k]
<1>1. Len(a \o b) = Len(a) + Len(b)
  OBVIOUS
<1> QED
  BY <1>1

(* What staging writes: rows that were there, and new ones behind them.    *)
StagedAs(new, rows, ids, fresh) ==
    /\ new \in Seq(BundleRow) /\ fresh \in Seq(BundleDevices)
    /\ DOMAIN new = 1..(Len(rows) + Len(fresh))
    /\ \A k \in 1..Len(rows) :
          /\ new[k].device = rows[k].device
          /\ new[k].status = IF \E n \in DOMAIN ids : k \in StageKnown(rows, ids[n])
                             THEN "pending" ELSE rows[k].status
    /\ \A k \in 1..Len(fresh) : /\ new[Len(rows) + k].device = fresh[k]
                                /\ new[Len(rows) + k].status = "pending"

LEMMA StagedShape ==
  ASSUME NEW rows \in Seq(BundleRow), NEW ids \in Seq(BundleDevices),
         NEW fresh, fresh = Kept(ids, {d \in Elements(ids) : StageKnown(rows, d) # {}}),
         NEW new, new = StageRows(rows, ids)
  PROVE  StagedAs(new, rows, ids, fresh)
<1> DEFINE Again(k) == \E n \in DOMAIN ids : k \in StageKnown(rows, ids[n])
<1>1. fresh \in Seq(BundleDevices) /\ DOMAIN fresh = 1..Len(fresh) /\ Len(fresh) \in Nat
  <2>1. fresh \in Seq(BundleDevices)
    BY KeptElements
  <2> QED
    BY <2>1
<1>2. DOMAIN rows = 1..Len(rows) /\ Len(rows) \in Nat
  OBVIOUS
<1>3. PICK a, b :
        /\ a = [k \in DOMAIN rows |-> IF Again(k) THEN [rows[k] EXCEPT !.status = "pending"] ELSE rows[k]]
        /\ b = [n \in DOMAIN fresh |-> [device |-> fresh[n], status |-> "pending", matched |-> FALSE]]
  OBVIOUS
<1>4. new = a \o b
  BY <1>3 DEF StageRows
<1>5. ASSUME NEW k \in 1..Len(rows)
      PROVE  /\ a[k] \in BundleRow /\ a[k].device = rows[k].device
             /\ a[k].status = IF Again(k) THEN "pending" ELSE rows[k].status
  <2> HIDE DEF Again
  <2>1. rows[k] \in BundleRow
    OBVIOUS
  <2>2. PICK r : r = [rows[k] EXCEPT !.status = "pending"]
    OBVIOUS
  <2>3. r \in BundleRow /\ r.device = rows[k].device /\ r.status = "pending"
    BY <2>1, <2>2 DEF BundleRow, EndpointStatuses
  <2>4. a[k] = IF Again(k) THEN r ELSE rows[k]
    BY <1>2, <1>3, <2>2
  <2> QED
    BY <2>1, <2>3, <2>4
<1>6. ASSUME NEW k \in 1..Len(fresh)
      PROVE  b[k] \in BundleRow /\ b[k].device = fresh[k] /\ b[k].status = "pending"
  <2>1. fresh[k] \in BundleDevices
    BY <1>1
  <2>2. b[k] = [device |-> fresh[k], status |-> "pending", matched |-> FALSE]
    BY <1>1, <1>3
  <2> QED
    BY <2>1, <2>2 DEF BundleRow, EndpointStatuses
<1>7. a \in Seq(BundleRow) /\ Len(a) = Len(rows)
  <2>1. a = [k \in 1..Len(rows) |-> a[k]]
    BY <1>2, <1>3
  <2> QED
    BY <1>2, <1>5, <2>1
<1>8. b \in Seq(BundleRow) /\ Len(b) = Len(fresh)
  <2>1. PICK m : m = Len(fresh)
    OBVIOUS
  <2>2. m \in Nat /\ b = [k \in 1..m |-> b[k]]
    BY <1>1, <1>3, <2>1
  <2>3. \A k \in 1..m : b[k] \in BundleRow
    BY <1>6, <2>1
  <2>4. b \in Seq(BundleRow) /\ Len(b) = m
    BY <2>2, <2>3
  <2> QED
    BY <2>1, <2>4
<1>9. /\ new \in Seq(BundleRow) /\ DOMAIN new = 1..(Len(rows) + Len(fresh))
      /\ \A k \in 1..Len(rows) : new[k] = a[k]
      /\ \A k \in 1..Len(fresh) : new[Len(rows) + k] = b[k]
  <2>1. /\ new \in Seq(BundleRow) /\ DOMAIN new = 1..(Len(a) + Len(b))
        /\ \A k \in 1..Len(a) : new[k] = a[k]
        /\ \A k \in 1..Len(b) : new[Len(a) + k] = b[k]
    <3>1. a \in Seq(BundleRow) /\ b \in Seq(BundleRow)
      BY <1>7, <1>8, Zenon
    <3> QED
      BY <1>4, <3>1, JoinedSeq
  <2>2. Len(a) = Len(rows) /\ Len(b) = Len(fresh)
    BY <1>7, <1>8
  <2> QED
    BY <2>1, <2>2, Zenon
<1>10. \A k \in 1..Len(rows) : /\ new[k].device = rows[k].device
                                /\ new[k].status = IF Again(k) THEN "pending" ELSE rows[k].status
  <2> HIDE DEF Again
  <2> QED
    BY <1>5, <1>9
<1>11. \A k \in 1..Len(fresh) : /\ new[Len(rows) + k].device = fresh[k]
                                 /\ new[Len(rows) + k].status = "pending"
  BY <1>6, <1>9
<1> QED
  BY <1>1, <1>9, <1>10, <1>11, Zenon DEF StagedAs

(* Staging again, whatever was reported before.                            *)
WordsStaged(said, words, id, ids) ==
    \A d \in BundleDevices :
        said[<<id, d>>] = IF d \in Elements(ids) THEN "pending" ELSE words[<<id, d>>]
TwiceStaged(after, twice, id, ids) ==
    after = twice \cup {<<id, d>> : d \in TwiceIn(ids)}

LEMMA StagedRows ==
  ASSUME NEW id, NEW rows \in Seq(BundleRow), NEW words, NEW twice,
         RowsOK(id, rows, words, twice), NEW ids \in Seq(BundleDevices),
         NEW said, WordsStaged(said, words, id, ids),
         NEW after, TwiceStaged(after, twice, id, ids)
  PROVE  /\ StageRows(rows, ids) \in Seq(BundleRow)
         /\ RowsOK(id, StageRows(rows, ids), said, after)
<1>1. PICK fresh, out, new, n, m :
        /\ out = {d \in Elements(ids) : StageKnown(rows, d) # {}}
        /\ fresh = Kept(ids, out) /\ new = StageRows(rows, ids)
        /\ n = Len(rows) /\ m = Len(fresh)
  OBVIOUS
<1>2. /\ new \in Seq(BundleRow) /\ fresh \in Seq(BundleDevices)
      /\ DOMAIN new = 1..(n + m)
      /\ \A k \in 1..n :
            /\ new[k].device = rows[k].device
            /\ new[k].status = IF \E j \in DOMAIN ids : k \in StageKnown(rows, ids[j])
                               THEN "pending" ELSE rows[k].status
      /\ \A k \in 1..m : new[n + k].device = fresh[k] /\ new[n + k].status = "pending"
  <2>1. StagedAs(new, rows, ids, fresh)
    BY <1>1, StagedShape
  <2> QED
    BY <1>1, <2>1 DEF StagedAs
<1>3. n \in Nat /\ m \in Nat /\ DOMAIN rows = 1..n
  BY <1>1, <1>2
<1>8. /\ DOMAIN new = 1..(n + m)
      /\ \A k \in 1..n : new[k].device = rows[k].device
      /\ \A k \in 1..m : new[n + k].device = fresh[k] /\ new[n + k].status = "pending"
  BY <1>2
<1>4. \A k \in 1..m : fresh[k] \in Elements(ids) \ out
  <2>1. \A x : Contains(fresh, x) => x \notin out /\ Contains(ids, x)
    BY <1>1, KeptElements
  <2>2. \A x : Contains(ids, x) => x \in Elements(ids)
    BY ElementsOf
  <2> QED
    BY <1>1, <2>1, <2>2 DEF Contains
<1>5. ASSUME NEW d \in BundleDevices, RowsOf(rows, d) # {}
      PROVE  /\ RowsOf(new, d) = RowsOf(rows, d)
             /\ \A k : RowsOf(rows, d) = {k} => new[k].status = said[<<id, d>>]
  <2>1. PICK at : at = RowsOf(rows, d)
    OBVIOUS
  <2>2. at \subseteq 1..n /\ at # {}
    BY <1>1, <1>5, <2>1, RowsInRange
  <2>3. StageKnown(rows, d) # {} /\ StageKnown(rows, d) \subseteq at
    <3>1. \E k \in at : \A j \in at : j <= k
      BY <1>3, <2>2, Extremes
    <3> QED
      BY <2>1, <3>1 DEF StageKnown
  <2>4. \A k \in 1..m : fresh[k] # d
    BY <1>1, <1>4, <2>3
  <2>5. RowsOf(new, d) = at
    <3>1. \A k \in 1..(n + m) : k \in 1..n \/ \E j \in 1..m : k = n + j
      <4>1. \A k \in 1..(n + m) : k \in 1..n \/ (k - n \in 1..m /\ k = n + (k - n))
        BY <1>3
      <4> QED
        BY <4>1
    <3>2. \A k \in 1..(n + m) : new[k].device = d => k \in 1..n
      BY <1>8, <2>4, <3>1
    <3>3. \A k \in 1..n : k \in 1..(n + m)
      BY <1>3
    <3> QED
      BY <1>8, <1>3, <2>1, <3>2, <3>3 DEF RowsOf
  <2>6. ASSUME NEW k, at = {k} PROVE new[k].status = said[<<id, d>>]
    <3>1. k \in 1..n /\ rows[k].device = d /\ rows[k].status = words[<<id, d>>]
      BY <1>3, <2>1, <2>2, <2>6 DEF RowsOK, RowsOf
    <3>2. CASE d \in Elements(ids)
      <4>1. PICK j \in DOMAIN ids : ids[j] = d
        BY <3>2 DEF Elements
      <4>2. k \in StageKnown(rows, ids[j])
        BY <2>3, <2>6, <4>1
      <4> QED
        BY <1>2, <3>1, <3>2, <4>2 DEF WordsStaged
    <3>3. CASE d \notin Elements(ids)
      <4>1. \A j \in DOMAIN ids : ids[j] # d
        BY <3>3 DEF Elements
      <4>2. \A j \in DOMAIN ids : k \notin StageKnown(rows, ids[j])
        BY <3>1, <4>1 DEF StageKnown, RowsOf
      <4> QED
        BY <1>2, <3>1, <3>3, <4>2 DEF WordsStaged
    <3> QED
      BY <3>2, <3>3
  <2> QED
    BY <2>1, <2>5, <2>6
<1>6. ASSUME NEW d \in BundleDevices, RowsOf(rows, d) = {}
      PROVE  /\ <<id, d>> \notin after => \A j, k \in RowsOf(new, d) : j = k
             /\ \A k \in RowsOf(new, d) : new[k].status = said[<<id, d>>]
  <2>1. \A k \in RowsOf(new, d) : k - n \in 1..m /\ fresh[k - n] = d /\ new[k].status = "pending"
    <3>1. ASSUME NEW k \in RowsOf(new, d)
          PROVE  k - n \in 1..m /\ fresh[k - n] = d /\ new[k].status = "pending"
      <4>1. k \in 1..(n + m) /\ new[k].device = d
        BY <1>8 DEF RowsOf
      <4>2. k \notin 1..n
        BY <1>8, <1>3, <1>6, <4>1 DEF RowsOf
      <4>3. PICK j \in 1..m : k = n + j
        <5>1. k - n \in 1..m /\ k = n + (k - n)
          BY <1>3, <4>1, <4>2
        <5> QED
          BY <5>1
      <4>4. k - n = j /\ fresh[j] = d /\ new[k].status = "pending"
        <5>1. k - n = j
          BY <1>3, <4>3
        <5>2. new[n + j].device = fresh[j] /\ new[n + j].status = "pending"
          BY <1>8
        <5> QED
          BY <4>1, <4>3, <5>1, <5>2
      <4> QED
        BY <4>4
    <3> QED
      BY <3>1
  <2>2. ASSUME <<id, d>> \notin after, NEW j \in RowsOf(new, d), NEW k \in RowsOf(new, d)
        PROVE  j = k
    <3>1. d \notin TwiceIn(ids)
      BY <2>2 DEF TwiceStaged
    <3>2. Once(ids, Len(ids), d)
      BY <3>1, NamedOnce
    <3>3. Once(fresh, m, d)
      BY <1>1, <3>2, KeptOnce
    <3>4. j - n = k - n
      BY <2>1, <3>3 DEF Once
    <3>5. j \in 1..(n + m) /\ k \in 1..(n + m)
      BY <1>2 DEF RowsOf
    <3> QED
      BY <1>3, <3>4, <3>5
  <2>3. ASSUME NEW k \in RowsOf(new, d) PROVE new[k].status = said[<<id, d>>]
    <3>1. d \in Elements(ids)
      BY <1>4, <2>1
    <3> QED
      BY <2>1, <3>1 DEF WordsStaged
  <2> QED
    BY <2>2, <2>3
<1>7. ASSUME NEW d \in BundleDevices
      PROVE  /\ <<id, d>> \notin after => \A j, k \in RowsOf(new, d) : j = k
             /\ \A k : RowsOf(new, d) = {k} => new[k].status = said[<<id, d>>]
  <2>1. CASE RowsOf(rows, d) # {}
    <3>1. <<id, d>> \notin after => <<id, d>> \notin twice
      BY DEF TwiceStaged
    <3>2. <<id, d>> \notin twice => \A j, k \in RowsOf(rows, d) : j = k
      BY DEF RowsOK
    <3> QED
      BY <1>5, <2>1, <3>1, <3>2
  <2>2. CASE RowsOf(rows, d) = {}
    BY <1>6, <2>2
  <2> QED
    BY <2>1, <2>2
<1> QED
  BY <1>1, <1>2, <1>7 DEF RowsOK

(* What a step may not take back from a bundle that left the draft.        *)
NoThaw(b, c) ==
    b.status # "draft" =>
        /\ c.content = b.content
        /\ b.status = "revoked" => c.status = "revoked" /\ c.matches = b.matches
FrozenStep ==
    \A i \in DOMAIN bundles : \A j \in DOMAIN bundles' :
        bundles[i].id = bundles'[j].id => NoThaw(bundles[i], bundles'[j])

(* One bundle is written, and the rest of the state concerns it alone.     *)
LEMMA BundleWritten ==
  ASSUME BundleInv, NEW i \in DOMAIN bundles, NEW c \in AuditBundle, c.id = bundles[i].id,
         bundles' = [bundles EXCEPT ![i] = c], bundleCount' = bundleCount, lastWord' \in Words,
         RowsOK(c.id, c.rows, lastWord', doubled'), NoThaw(bundles[i], c),
         \A x \in (1..MaxBundles) \ {c.id} : \A d \in BundleDevices :
            /\ lastWord'[<<x, d>>] = lastWord[<<x, d>>]
            /\ <<x, d>> \in doubled' <=> <<x, d>> \in doubled
  PROVE  BundleInv' /\ FrozenStep
<1>1. /\ bundles \in Seq(AuditBundle) /\ bundleCount \in 0..MaxBundles
      /\ \A j \in DOMAIN bundles : bundles[j].id <= bundleCount
      /\ \A j, k \in DOMAIN bundles : bundles[j].id = bundles[k].id => j = k
  BY DEF BundleInv, BundleTypes
<1>2. /\ bundles' \in Seq(AuditBundle) /\ DOMAIN bundles' = DOMAIN bundles
      /\ bundles'[i] = c /\ \A j \in DOMAIN bundles \ {i} : bundles'[j] = bundles[j]
  BY <1>1
<1>3. \A j \in DOMAIN bundles : bundles'[j].id = bundles[j].id
  BY <1>2
<1>4. BundleTypes'
  BY <1>1, <1>2, <1>3 DEF BundleTypes
<1>5. ASSUME NEW j \in DOMAIN bundles
      PROVE  RowsOK(bundles'[j].id, bundles'[j].rows, lastWord', doubled')
  <2>1. CASE j = i
    BY <1>2, <2>1
  <2>2. CASE j # i
    <3>1. bundles[j].id # c.id /\ bundles'[j] = bundles[j]
      BY <1>1, <1>2, <2>2
    <3>3. bundles[j].id \in 1..MaxBundles
      <4>1. bundles[j] \in AuditBundle
        BY <1>1
      <4> QED
        BY <4>1 DEF AuditBundle
    <3>2. RowsOK(bundles[j].id, bundles[j].rows, lastWord, doubled)
      BY DEF BundleInv
    <3> QED
      BY <3>1, <3>2, <3>3 DEF RowsOK
  <2> QED
    BY <2>1, <2>2
<1>6. BundleInv'
  BY <1>2, <1>4, <1>5 DEF BundleInv
<1>7. FrozenStep
  <2> SUFFICES ASSUME NEW j \in DOMAIN bundles, NEW k \in DOMAIN bundles,
                      bundles[j].id = bundles'[k].id
               PROVE  NoThaw(bundles[j], bundles'[k])
    BY <1>2 DEF FrozenStep
  <2>1. j = k
    BY <1>1, <1>3
  <2>2. CASE j = i
    BY <1>2, <2>1, <2>2
  <2>3. CASE j # i
    BY <1>2, <2>1, <2>3 DEF NoThaw
  <2> QED
    BY <2>2, <2>3
<1> QED
  BY <1>6, <1>7

LEMMA BundleCreated ==
  ASSUME BundleInv, NEW content \in BundleContents, CreateBundle(content)
  PROVE  BundleInv' /\ FrozenStep
<1>1. /\ bundles \in Seq(AuditBundle) /\ bundleCount \in 0..MaxBundles /\ lastWord \in Words
      /\ \A j \in DOMAIN bundles : bundles[j].id <= bundleCount
      /\ \A j, k \in DOMAIN bundles : bundles[j].id = bundles[k].id => j = k
      /\ MaxBundles \in Nat /\ BundleCap \in Nat \ {0}
  BY PlatformBundlesAssumption DEF BundleInv, BundleTypes
<1>2. PICK c, n, a, p : /\ c = [id |-> bundleCount + 1, status |-> "draft", content |-> content,
                                rows |-> << >>, matches |-> << >>]
                        /\ n = Len(bundles) /\ a = Append(bundles, c) /\ p = bundles'
  OBVIOUS
<1>3. /\ bundleCount < MaxBundles /\ bundleCount' = bundleCount + 1
      /\ p = Pushed(bundles, c, BundleCap) /\ lastWord' = lastWord /\ doubled' = doubled
  BY <1>2 DEF CreateBundle
<1>4. /\ c \in AuditBundle /\ c.id = bundleCount + 1 /\ c.rows = << >> /\ c.status = "draft"
  BY <1>1, <1>2, <1>3 DEF AuditBundle
<1>5. p \in Seq(AuditBundle) /\ EndOf(p, a)
  BY <1>1, <1>2, <1>3, <1>4, PushedEnd
<1>6. /\ n \in Nat /\ Len(a) = n + 1 /\ a[n + 1] = c /\ DOMAIN bundles = 1..n
      /\ \A j \in 1..n : a[j] = bundles[j]
  BY <1>1, <1>2, <1>4
<1>7. PICK m : m = n + 1 - Len(p)
  OBVIOUS
<1>8. /\ m \in Nat /\ DOMAIN p = 1..Len(p) /\ Len(p) \in Nat
      /\ \A j \in 1..Len(p) : m + j \in 1..(n + 1) /\ p[j] = a[m + j]
  <2>1. PICK k : k = Len(p)
    OBVIOUS
  <2>2. /\ DOMAIN p = 1..k /\ k \in 1..(n + 1) /\ \A j \in 1..k : p[j] = a[n + 1 - k + j]
    BY <1>5, <1>6, <2>1 DEF EndOf
  <2>3. n \in Nat /\ m = n + 1 - k
    BY <1>6, <1>7, <2>1
  <2>4. /\ k \in Nat /\ m \in Nat
        /\ \A j \in 1..k : m + j \in 1..(n + 1) /\ m + j = n + 1 - k + j
    BY <2>2, <2>3
  <2>5. \A j \in 1..k : p[j] = a[m + j]
    BY <2>2, <2>4
  <2> QED
    BY <2>1, <2>2, <2>4, <2>5, Zenon
<1>9. \A j \in 1..n : a[j].id <= bundleCount /\ a[j].id # bundleCount + 1 /\ a[j].id <= bundleCount + 1
  <2>1. \A j \in 1..n : bundles[j].id \in 1..MaxBundles
    <3>1. \A j \in 1..n : bundles[j] \in AuditBundle
      BY <1>1, <1>6
    <3> QED
      BY <3>1 DEF AuditBundle
  <2> QED
    BY <1>1, <1>6, <2>1
<1>10. \A j, k \in 1..(n + 1) : a[j].id = a[k].id => j = k
  <2>1. \A j \in 1..(n + 1) : j \in 1..n \/ j = n + 1
    BY <1>6
  <2> QED
    BY <1>1, <1>4, <1>6, <1>9, <2>1
<1>11. \A j \in 1..(n + 1) : a[j].id <= bundleCount + 1
  <2>1. \A j \in 1..(n + 1) : j \in 1..n \/ j = n + 1
    BY <1>6
  <2> QED
    BY <1>1, <1>4, <1>6, <1>9, <2>1
<1>12. BundleTypes'
  <2>1. \A j \in DOMAIN p : p[j].id <= bundleCount + 1
    BY <1>8, <1>11
  <2>2. \A j, k \in DOMAIN p : p[j].id = p[k].id => j = k
    <3>1. \A j, k \in 1..Len(p) : p[j].id = p[k].id => m + j = m + k
      BY <1>8, <1>10
    <3> QED
      BY <1>8, <3>1
  <2> QED
    BY <1>1, <1>2, <1>3, <1>5, <2>1, <2>2 DEF BundleTypes
<1>13. ASSUME NEW j \in DOMAIN p PROVE RowsOK(p[j].id, p[j].rows, lastWord, doubled)
  <2>1. m + j \in 1..(n + 1) /\ p[j] = a[m + j]
    BY <1>8
  <2>2. CASE m + j = n + 1
    <3>1. p[j] = c
      BY <1>6, <2>1, <2>2
    <3>2. \A d : RowsOf(c.rows, d) = {}
      BY <1>4 DEF RowsOf
    <3> QED
      BY <3>1, <3>2 DEF RowsOK
  <2>3. CASE m + j # n + 1
    <3>1. m + j \in DOMAIN bundles /\ p[j] = bundles[m + j]
      BY <1>6, <1>8, <2>1, <2>3
    <3> QED
      BY <3>1 DEF BundleInv
  <2> QED
    BY <2>2, <2>3
<1>14. BundleInv'
  BY <1>2, <1>3, <1>12, <1>13 DEF BundleInv
<1>15. FrozenStep
  <2> SUFFICES ASSUME NEW i \in DOMAIN bundles, NEW j \in DOMAIN p, bundles[i].id = p[j].id
               PROVE  NoThaw(bundles[i], p[j])
    BY <1>2 DEF FrozenStep
  <2>1. i \in 1..n /\ i \in 1..(n + 1) /\ a[i] = bundles[i]
    BY <1>6
  <2>2. m + j = i
    BY <1>8, <1>10, <2>1
  <2>3. p[j] = bundles[i]
    BY <1>8, <2>1, <2>2
  <2> QED
    BY <2>3 DEF NoThaw
<1> QED
  BY <1>14, <1>15

(* What is known of the bundle that a request names.                       *)
LEMMA BundleNamed ==
  ASSUME BundleInv, NEW id, NEW i \in FirstBundle(id)
  PROVE  /\ i \in DOMAIN bundles /\ bundles[i] \in AuditBundle /\ bundles[i].id = id
         /\ id \in 1..MaxBundles /\ bundles[i].rows \in Seq(BundleRow)
         /\ bundles[i].matches \in Seq(BundleDevices) /\ lastWord \in Words
         /\ RowsOK(id, bundles[i].rows, lastWord, doubled)
<1>1. i \in DOMAIN bundles /\ bundles[i].id = id
  BY DEF FirstBundle
<1>2. bundles \in Seq(AuditBundle) /\ lastWord \in Words
  BY DEF BundleInv, BundleTypes
<1>3. bundles[i] \in AuditBundle
  BY <1>1, <1>2
<1>4. RowsOK(bundles[i].id, bundles[i].rows, lastWord, doubled)
  BY <1>1 DEF BundleInv
<1> QED
  BY <1>1, <1>2, <1>3, <1>4 DEF AuditBundle

LEMMA BundlePatched ==
  ASSUME BundleInv, NEW id, NEW content \in BundleContents, PatchBundle(id, content)
  PROVE  BundleInv' /\ FrozenStep
<1>1. PICK i \in FirstBundle(id) : /\ Editable(bundles[i])
                                   /\ bundles' = [bundles EXCEPT ![i].content = content]
  BY DEF PatchBundle
<1>2. PICK b, c : b = bundles[i] /\ c = [b EXCEPT !.content = content]
  OBVIOUS
<1>3. /\ i \in DOMAIN bundles /\ b \in AuditBundle /\ b.id = id /\ lastWord \in Words
      /\ RowsOK(id, b.rows, lastWord, doubled)
  BY <1>2, BundleNamed
<1>4. c \in AuditBundle /\ c.id = id /\ c.rows = b.rows
  BY <1>2, <1>3 DEF AuditBundle
<1>5. NoThaw(b, c)
  BY <1>1, <1>2 DEF NoThaw, Editable
<1>6. bundles' = [bundles EXCEPT ![i] = c]
  BY <1>1, <1>2
<1>7. bundleCount' = bundleCount /\ lastWord' = lastWord /\ doubled' = doubled
  BY DEF PatchBundle
<1> QED
  BY <1>2, <1>3, <1>4, <1>5, <1>6, <1>7, BundleWritten

LEMMA BundleRevoked ==
  ASSUME BundleInv, NEW id, RevokeBundle(id)
  PROVE  BundleInv' /\ FrozenStep
<1>1. PICK i \in FirstBundle(id) : bundles' = [bundles EXCEPT ![i].status = "revoked"]
  BY DEF RevokeBundle
<1>2. PICK b, c : b = bundles[i] /\ c = [b EXCEPT !.status = "revoked"]
  OBVIOUS
<1>3. /\ i \in DOMAIN bundles /\ b \in AuditBundle /\ b.id = id /\ lastWord \in Words
      /\ RowsOK(id, b.rows, lastWord, doubled)
  BY <1>2, BundleNamed
<1>4. c \in AuditBundle /\ c.id = id /\ c.rows = b.rows
  BY <1>2, <1>3 DEF AuditBundle
<1>5. NoThaw(b, c)
  BY <1>2, <1>3 DEF NoThaw, AuditBundle
<1>6. bundles' = [bundles EXCEPT ![i] = c]
  BY <1>1, <1>2
<1>7. bundleCount' = bundleCount /\ lastWord' = lastWord /\ doubled' = doubled
  BY DEF RevokeBundle
<1> QED
  BY <1>2, <1>3, <1>4, <1>5, <1>6, <1>7, BundleWritten

LEMMA BundleStaged ==
  ASSUME BundleInv, NEW id, NEW ids \in StageRequests, StageBundle(id, ids)
  PROVE  BundleInv' /\ FrozenStep
<1>1. PICK i \in FirstBundle(id) :
        /\ Stageable(bundles[i])
        /\ bundles' = [bundles EXCEPT ![i] = [bundles[i] EXCEPT !.status = "staged",
                                              !.rows = StageRows(@, ids)]]
  BY DEF StageBundle
<1>2. PICK b, rows : b = bundles[i] /\ rows = StageRows(b.rows, ids)
  OBVIOUS
<1>3. /\ i \in DOMAIN bundles /\ b \in AuditBundle /\ b.id = id /\ lastWord \in Words
      /\ b.rows \in Seq(BundleRow) /\ id \in 1..MaxBundles
      /\ RowsOK(id, b.rows, lastWord, doubled)
  BY <1>2, BundleNamed
<1>4. PICK c : c = [b EXCEPT !.status = "staged", !.rows = rows]
  OBVIOUS
<1>5. ids \in Seq(BundleDevices)
  BY PlatformBundlesAssumption
<1>6. DOMAIN lastWord = (1..MaxBundles) \X BundleDevices
  BY <1>3 DEF Words
<1>7. PICK said, after :
        /\ said = lastWord' /\ after = doubled'
        /\ said = [bd \in DOMAIN lastWord |->
                     IF bd[1] = id /\ bd[2] \in Elements(ids) THEN "pending" ELSE lastWord[bd]]
        /\ after = doubled \cup {<<id, d>> : d \in TwiceIn(ids)}
  BY DEF StageBundle, TwiceIn
<1>8. WordsStaged(said, lastWord, id, ids) /\ TwiceStaged(after, doubled, id, ids)
  BY <1>3, <1>6, <1>7 DEF WordsStaged, TwiceStaged
<1>9. rows \in Seq(BundleRow) /\ RowsOK(id, rows, said, after)
  BY <1>2, <1>3, <1>5, <1>8, StagedRows
<1>10. c \in AuditBundle /\ c.id = id /\ c.rows = rows
  BY <1>3, <1>4, <1>9 DEF AuditBundle
<1>11. NoThaw(b, c)
  BY <1>1, <1>2, <1>4, <1>3 DEF NoThaw, Stageable, AuditBundle
<1>12. bundles' = [bundles EXCEPT ![i] = c]
  <2>1. c = [b EXCEPT !.status = "staged", !.rows = StageRows(@, ids)]
    <3>1. b.rows = b["rows"] /\ StageRows(b.rows, ids) = rows
      BY <1>2
    <3> QED
      BY <1>3, <1>4, <3>1 DEF AuditBundle
  <2>2. bundles' = [bundles EXCEPT ![i] = [bundles[i] EXCEPT !.status = "staged",
                                           !.rows = StageRows(@, ids)]]
    BY <1>1
  <2> QED
    BY <1>2, <2>1, <2>2
<1>13. said \in Words
  <2>1. \A bd \in DOMAIN lastWord : lastWord[bd] \in EndpointStatuses \cup {""}
    BY <1>3 DEF Words
  <2>2. "pending" \in EndpointStatuses
    BY DEF EndpointStatuses
  <2> QED
    BY <1>6, <1>7, <2>1, <2>2 DEF Words
<1>14. ASSUME NEW x \in (1..MaxBundles) \ {id}, NEW d \in BundleDevices
       PROVE  said[<<x, d>>] = lastWord[<<x, d>>] /\ (<<x, d>> \in after <=> <<x, d>> \in doubled)
  BY <1>6, <1>7
<1>15. bundleCount' = bundleCount
  BY DEF StageBundle
<1> QED
  BY <1>2, <1>3, <1>7, <1>9, <1>10, <1>11, <1>12, <1>13, <1>14, <1>15, BundleWritten

LEMMA BundleStatusReported ==
  ASSUME BundleInv, NEW id, NEW d \in BundleDevices, NEW status \in ReportedStatuses,
         ReportBundleStatus(id, d, status)
  PROVE  BundleInv' /\ FrozenStep
<1>1. PICK i \in FirstBundle(id) : bundles' = [bundles EXCEPT ![i].rows = Reporting(@, d, status)]
  BY DEF ReportBundleStatus
<1>2. PICK b, rows, said : /\ b = bundles[i] /\ rows = Reporting(b.rows, d, status)
                           /\ said = lastWord'
  OBVIOUS
<1>3. /\ i \in DOMAIN bundles /\ b \in AuditBundle /\ b.id = id /\ lastWord \in Words
      /\ b.rows \in Seq(BundleRow) /\ id \in 1..MaxBundles
      /\ RowsOK(id, b.rows, lastWord, doubled)
  BY <1>2, BundleNamed
<1>4. PICK c : c = [b EXCEPT !.rows = rows]
  OBVIOUS
<1>5. status \in EndpointStatuses
  BY PlatformBundlesAssumption
<1>6. WordSaid(said, lastWord, id, d, status) /\ bundleCount' = bundleCount /\ doubled' = doubled
  BY <1>2 DEF ReportBundleStatus, WordSaid
<1>7. rows \in Seq(BundleRow) /\ RowsOK(id, rows, said, doubled)
  BY <1>2, <1>3, <1>5, <1>6, ReportedRows
<1>8. c \in AuditBundle /\ c.id = id /\ c.rows = rows
  BY <1>3, <1>4, <1>7 DEF AuditBundle
<1>9. NoThaw(b, c)
  BY <1>3, <1>4 DEF NoThaw, AuditBundle
<1>10. bundles' = [bundles EXCEPT ![i] = c]
  BY <1>1, <1>2, <1>4
<1>11. said \in Words
  BY <1>3, <1>5, <1>6 DEF Words, WordSaid
<1>12. \A x \in (1..MaxBundles) \ {id} : \A e \in BundleDevices : said[<<x, e>>] = lastWord[<<x, e>>]
  BY <1>3, <1>6 DEF Words, WordSaid
<1> QED
  BY <1>2, <1>3, <1>6, <1>7, <1>8, <1>9, <1>10, <1>11, <1>12, BundleWritten

LEMMA BundleMatchReported ==
  ASSUME BundleInv, NEW id, NEW d \in BundleDevices, ReportBundleMatch(id, d)
  PROVE  BundleInv' /\ FrozenStep
<1> DEFINE First(rows, k) == /\ RowsOf(rows, d) # {}
                             /\ k = (CHOOSE n \in RowsOf(rows, d) : \A j \in RowsOf(rows, d) : n <= j)
           Marked(rows) == [k \in DOMAIN rows |-> IF First(rows, k)
                                THEN [rows[k] EXCEPT !.matched = TRUE] ELSE rows[k]]
<1>1. PICK i \in FirstBundle(id) :
        /\ bundles[i].status = "staged"
        /\ bundles' = [bundles EXCEPT ![i] = [bundles[i] EXCEPT
                                              !.matches = Pushed(@, d, MatchCap), !.rows = Marked(@)]]
  BY DEF ReportBundleMatch
<1>2. PICK b, rows, matches : /\ b = bundles[i] /\ rows = Marked(b.rows)
                              /\ matches = Pushed(b.matches, d, MatchCap)
  OBVIOUS
<1>3. /\ i \in DOMAIN bundles /\ b \in AuditBundle /\ b.id = id /\ lastWord \in Words
      /\ b.rows \in Seq(BundleRow) /\ b.matches \in Seq(BundleDevices) /\ id \in 1..MaxBundles
      /\ RowsOK(id, b.rows, lastWord, doubled)
  BY <1>2, BundleNamed
<1>4. PICK c : c = [b EXCEPT !.matches = matches, !.rows = rows]
  OBVIOUS
<1>5. matches \in Seq(BundleDevices)
  BY <1>2, <1>3, PushedEnd, PlatformBundlesAssumption
<1>6. /\ rows \in Seq(BundleRow) /\ DOMAIN rows = DOMAIN b.rows
      /\ \A k \in DOMAIN b.rows : rows[k].device = b.rows[k].device /\ rows[k].status = b.rows[k].status
  <2>1. PICK old, n : old = b.rows /\ n = Len(old)
    OBVIOUS
  <2>2. old \in Seq(BundleRow) /\ n \in Nat /\ DOMAIN old = 1..n
    BY <1>3, <2>1
  <2>3. ASSUME NEW k \in 1..n
        PROVE  /\ rows[k] \in BundleRow
               /\ rows[k].device = old[k].device /\ rows[k].status = old[k].status
    <3>1. old[k] \in BundleRow
      BY <2>2
    <3>2. PICK r : r = [old[k] EXCEPT !.matched = TRUE]
      OBVIOUS
    <3>3. r \in BundleRow /\ r.device = old[k].device /\ r.status = old[k].status
      BY <3>1, <3>2 DEF BundleRow
    <3>4. rows[k] = IF First(old, k) THEN r ELSE old[k]
      <4> HIDE DEF First
      <4> QED
        BY <1>2, <2>1, <2>2, <3>2
    <3> HIDE DEF First
    <3> QED
      BY <3>1, <3>3, <3>4
  <2>4. rows = [k \in 1..n |-> rows[k]]
    <3> HIDE DEF First
    <3> QED
      BY <1>2, <2>1, <2>2
  <2>5. rows \in Seq(BundleRow)
    BY <2>2, <2>3, <2>4
  <2>6. DOMAIN rows = 1..n
    BY <2>4
  <2> QED
    BY <2>1, <2>2, <2>3, <2>5, <2>6
<1>7. RowsOK(id, rows, lastWord, doubled)
  BY <1>3, <1>6, SameRows
<1>8. c \in AuditBundle /\ c.id = id /\ c.rows = rows
  BY <1>3, <1>4, <1>5, <1>6 DEF AuditBundle
<1>9. NoThaw(b, c)
  BY <1>1, <1>2, <1>3, <1>4 DEF NoThaw, AuditBundle
<1>10. bundles' = [bundles EXCEPT ![i] = c]
  <2>1. c = [b EXCEPT !.matches = Pushed(@, d, MatchCap), !.rows = Marked(@)]
    <3> HIDE DEF Marked
    <3> QED
      BY <1>2, <1>3, <1>4 DEF AuditBundle
  <2> HIDE DEF Marked
  <2>2. bundles' = [bundles EXCEPT ![i] = [bundles[i] EXCEPT !.matches = Pushed(@, d, MatchCap),
                                                             !.rows = Marked(@)]]
    BY <1>1
  <2> QED
    BY <1>2, <2>1, <2>2
<1>11. bundleCount' = bundleCount /\ lastWord' = lastWord /\ doubled' = doubled
  BY DEF ReportBundleMatch
<1> QED
  BY <1>2, <1>3, <1>7, <1>8, <1>9, <1>10, <1>11, BundleWritten

LEMMA BundleStep == BundleInv /\ [BundleNext]_bundleVars => BundleInv' /\ [FrozenStep]_bundleVars
<1> SUFFICES ASSUME BundleInv, [BundleNext]_bundleVars PROVE BundleInv' /\ [FrozenStep]_bundleVars
  OBVIOUS
<1>1. CASE UNCHANGED bundleVars
  BY <1>1 DEF bundleVars, BundleInv, BundleTypes
<1>2. CASE BundleNext
  <2>1. ASSUME NEW content \in BundleContents, CreateBundle(content) PROVE BundleInv' /\ FrozenStep
    BY <2>1, BundleCreated
  <2>2. ASSUME NEW id \in 1..bundleCount, NEW content \in BundleContents, PatchBundle(id, content)
        PROVE  BundleInv' /\ FrozenStep
    BY <2>2, BundlePatched
  <2>3. ASSUME NEW id \in 1..bundleCount, NEW ids \in StageRequests, StageBundle(id, ids)
        PROVE  BundleInv' /\ FrozenStep
    BY <2>3, BundleStaged
  <2>4. ASSUME NEW id \in 1..bundleCount, NEW d \in BundleDevices, NEW status \in ReportedStatuses,
               ReportBundleStatus(id, d, status)
        PROVE  BundleInv' /\ FrozenStep
    BY <2>4, BundleStatusReported
  <2>5. ASSUME NEW id \in 1..bundleCount, NEW d \in BundleDevices, ReportBundleMatch(id, d)
        PROVE  BundleInv' /\ FrozenStep
    BY <2>5, BundleMatchReported
  <2>6. ASSUME NEW id \in 1..bundleCount, RevokeBundle(id) PROVE BundleInv' /\ FrozenStep
    BY <2>6, BundleRevoked
  <2> QED
    BY <1>2, <2>1, <2>2, <2>3, <2>4, <2>5, <2>6 DEF BundleNext
<1> QED
  BY <1>1, <1>2

LEMMA BundleShown == BundleInv => RowPerDevice /\ RowShowsLastWord
<1> SUFFICES ASSUME BundleInv, NEW i \in DOMAIN bundles, NEW d \in BundleDevices,
                    NEW id, NEW rows, NEW at, id = bundles[i].id, rows = bundles[i].rows,
                    at = RowsOf(rows, d)
             PROVE  /\ <<id, d>> \notin doubled => Cardinality(at) <= 1
                    /\ Cardinality(at) = 1 =>
                         \A k \in at : rows[k].status = lastWord[<<id, d>>]
  BY DEF RowPerDevice, RowShowsLastWord
<1>1. RowsOK(id, rows, lastWord, doubled)
  BY DEF BundleInv
<1>2. rows \in Seq(BundleRow)
  <2>1. bundles[i] \in AuditBundle
    BY DEF BundleInv, BundleTypes
  <2> QED
    BY <2>1 DEF AuditBundle
<1>3. IsFiniteSet(at)
  BY <1>2, RowsInRange
<1>4. ASSUME <<id, d>> \notin doubled PROVE Cardinality(at) <= 1
  <2>1. \A j, k \in at : j = k
    BY <1>1, <1>4 DEF RowsOK
  <2>2. CASE at = {}
    BY <2>2, FS_EmptySet
  <2>3. CASE at # {}
    <3>1. PICK k : at = {k}
      BY <2>1, <2>3
    <3> QED
      BY <3>1, FS_Singleton
  <2> QED
    BY <2>2, <2>3
<1>5. ASSUME Cardinality(at) = 1 PROVE \A k \in at : rows[k].status = lastWord[<<id, d>>]
  <2>1. PICK k : at = {k}
    BY <1>3, <1>5, FS_Singleton
  <2> QED
    BY <1>1, <2>1 DEF RowsOK
<1> QED
  BY <1>4, <1>5

(* The audit-mode bundles: whatever the console stages and the endpoints   *)
(* report, in any order, a device has one row unless one request named it  *)
(* twice, its only row shows its last word, and what was staged never      *)
(* changes.                                                                *)
THEOREM BundlesAreSound == BundleSpec => BundlesSound
<1>1. BundleInit => BundleInv
  <2> SUFFICES ASSUME BundleInit PROVE BundleInv
    OBVIOUS
  <2>1. bundles = << >> /\ bundleCount = 0 /\ DOMAIN bundles = {}
    <3>1. DOMAIN << >> = {}
      OBVIOUS
    <3> QED
      BY <3>1, Zenon DEF BundleInit
  <2>2. lastWord \in Words
    BY DEF BundleInit, Words
  <2> QED
    BY <2>1, <2>2, PlatformBundlesAssumption DEF BundleInv, BundleTypes
<1>2. [FrozenStep]_bundleVars =>
        [\A i \in DOMAIN bundles : \A j \in DOMAIN bundles' :
          LET b == bundles[i] c == bundles'[j] IN
          (b.id = c.id /\ b.status # "draft") =>
              /\ c.content = b.content
              /\ b.status = "revoked" => c.status = "revoked" /\ c.matches = b.matches]_bundleVars
  BY DEF FrozenStep, NoThaw
<1> QED
  BY <1>1, <1>2, BundleStep, BundleShown, PTL DEF BundleSpec, BundlesSound, StagedContentFrozen

-----------------------------------------------------------------------------
(***************************************************************************)
(* Fleet readiness.  What an answer says is a function of six graded       *)
(* dimensions; the lemmas compare the answers of two such records, and the *)
(* invariant ties the answer in hand to the facts.                         *)
(***************************************************************************)
DimensionNames ==
    {"heartbeat", "event_ingestion", "detection_pack", "agent_version", "collectors",
     "connectivity"}
States == {"good", "warn", "bad", "unknown"}
Graph == [DimensionNames -> States]

(* Data that only gets older moves a dimension this way.                   *)
Wears(a, b) == \/ a = b
               \/ a = "good" /\ b \in {"warn", "bad"}
               \/ a = "warn" /\ b = "bad"

LEMMA NamesAreSix ==
  /\ \A i \in 1..6 : Dimensions[i] \in DimensionNames
  /\ \A d \in DimensionNames : \E i \in 1..6 : Dimensions[i] = d
  /\ Len(Dimensions) = 6 /\ DOMAIN Dimensions = 1..6 /\ "" \notin DimensionNames
<1>1. Len(Dimensions) = 6 /\ DOMAIN Dimensions = 1..6
  BY DEF Dimensions
<1>2. /\ Dimensions[1] = "heartbeat" /\ Dimensions[2] = "event_ingestion"
      /\ Dimensions[3] = "detection_pack" /\ Dimensions[4] = "agent_version"
      /\ Dimensions[5] = "collectors" /\ Dimensions[6] = "connectivity"
  BY DEF Dimensions
<1>3. \A i \in 1..6 : i = 1 \/ i = 2 \/ i = 3 \/ i = 4 \/ i = 5 \/ i = 6
  OBVIOUS
<1>4. \A i \in 1..6 : Dimensions[i] \in DimensionNames
  BY <1>2, <1>3 DEF DimensionNames
<1>5. \A d \in DimensionNames : \E i \in 1..6 : Dimensions[i] = d
  BY <1>2 DEF DimensionNames
<1>6. "" \notin DimensionNames
  BY DEF DimensionNames
<1> QED
  BY <1>1, <1>4, <1>5, <1>6

LEMMA NamesAreFinite == IsFiniteSet(DimensionNames) /\ Cardinality(DimensionNames) = 6
<1> DEFINE A == {"heartbeat"}  B == A \cup {"event_ingestion"}  C == B \cup {"detection_pack"}
           D == C \cup {"agent_version"}  E == D \cup {"collectors"}  F == E \cup {"connectivity"}
<1>1. IsFiniteSet(A) /\ Cardinality(A) = 1
  BY FS_Singleton
<1>2. IsFiniteSet(B) /\ Cardinality(B) = 2
  BY <1>1, FS_AddElement
<1>3. IsFiniteSet(C) /\ Cardinality(C) = 3
  BY <1>2, FS_AddElement
<1>4. IsFiniteSet(D) /\ Cardinality(D) = 4
  BY <1>3, FS_AddElement
<1>5. IsFiniteSet(E) /\ Cardinality(E) = 5
  BY <1>4, FS_AddElement
<1>6. IsFiniteSet(F) /\ Cardinality(F) = 6
  BY <1>5, FS_AddElement
<1>7. DimensionNames = F
  BY DEF DimensionNames
<1> HIDE DEF F
<1> QED
  BY <1>6, <1>7

(* How many dimensions are in a state.                                     *)
In(dims, state) == {d \in DimensionNames : dims[d] = state}

LEMMA CountsAre ==
  ASSUME NEW dims \in Graph, NEW state
  PROVE  /\ Count(dims, state) = Cardinality(In(dims, state)) /\ Count(dims, state) \in 0..6
         /\ IsFiniteSet(In(dims, state))
         /\ Count(dims, state) = 0 <=> In(dims, state) = {}
         /\ Count(dims, state) = 6 <=> In(dims, state) = DimensionNames
<1>1. In(dims, state) \subseteq DimensionNames
  BY DEF In
<1>2. PICK S : S = In(dims, state)
  OBVIOUS
<1>3. DOMAIN dims = DimensionNames
  BY DEF Graph
<1>4. Count(dims, state) = Cardinality(S)
  BY <1>2, <1>3 DEF Count, In
<1>5. IsFiniteSet(S) /\ Cardinality(S) <= 6 /\ Cardinality(S) \in Nat
  BY <1>1, <1>2, NamesAreFinite, FS_Subset, FS_CardinalityType
<1>6. Cardinality(S) = 0 <=> S = {}
  BY <1>5, FS_EmptySet
<1>7. Cardinality(S) = 6 <=> S = DimensionNames
  BY <1>1, <1>2, <1>5, NamesAreFinite, FS_Subset
<1> QED
  BY <1>2, <1>4, <1>5, <1>6, <1>7

(* Where FirstIn finds a dimension in a state.                             *)
LEMMA FirstFound ==
  ASSUME NEW dims \in Graph, NEW state, In(dims, state) # {}
  PROVE  FirstIn(dims, state) # ""
<1>1. PICK at : at = {i \in DOMAIN Dimensions : dims[Dimensions[i]] = state}
  OBVIOUS
<1>2. at \in SUBSET (1..6) /\ at # {}
  <2>1. PICK d \in DimensionNames : dims[d] = state
    BY DEF In
  <2>2. PICK i \in 1..6 : Dimensions[i] = d
    BY NamesAreSix
  <2>3. i \in at /\ DOMAIN Dimensions = 1..6
    BY <1>1, <2>1, <2>2, NamesAreSix
  <2> QED
    BY <1>1, <2>3
<1>3. PICK k : k = CHOOSE i \in at : \A j \in at : i <= j
  OBVIOUS
<1>4. k \in at
  BY <1>2, <1>3, Extremes
<1>5. FirstIn(dims, state) = Dimensions[k]
  BY <1>1, <1>2, <1>3 DEF FirstIn
<1> QED
  BY <1>2, <1>4, <1>5, NamesAreSix

(* The score, dimension by dimension.                                      *)
Points(dims, d, w) == IF dims[d] = "good" THEN w ELSE IF dims[d] = "warn" THEN w \div 2 ELSE 0

LEMMA ScoreAdds ==
  ASSUME NEW dims \in Graph
  PROVE  Score(dims) = Points(dims, "heartbeat", 25) + Points(dims, "event_ingestion", 20)
                       + Points(dims, "detection_pack", 15) + Points(dims, "agent_version", 10)
                       + Points(dims, "collectors", 15) + Points(dims, "connectivity", 15)
<1>1. \A d, w : Credit(dims[d], w) = Points(dims, d, w)
  BY DEF Credit, Points
<1>2. /\ Weight["heartbeat"] = 25 /\ Weight["event_ingestion"] = 20
      /\ Weight["detection_pack"] = 15 /\ Weight["agent_version"] = 10
      /\ Weight["collectors"] = 15 /\ Weight["connectivity"] = 15
  BY DEF Weight
<1> QED
  BY <1>1, <1>2 DEF Score

LEMMA PointsBounded ==
  ASSUME NEW dims \in Graph, NEW d \in DimensionNames, NEW w \in Nat
  PROVE  /\ Points(dims, d, w) \in 0..w
         /\ dims[d] = "good" => Points(dims, d, w) = w
         /\ dims[d] \in {"bad", "unknown"} => Points(dims, d, w) = 0
<1>1. w \div 2 \in 0..w
  OBVIOUS
<1>2. dims[d] \in States
  BY DEF Graph
<1> QED
  BY <1>1, <1>2 DEF Points, States

LEMMA PointsWear ==
  ASSUME NEW old \in Graph, NEW new \in Graph, NEW d \in DimensionNames, NEW w \in Nat,
         Wears(old[d], new[d])
  PROVE  Points(new, d, w) <= Points(old, d, w)
<1>1. w \div 2 \in 0..w
  OBVIOUS
<1>2. CASE old[d] = new[d]
  <2>1. Points(new, d, w) = Points(old, d, w) /\ Points(new, d, w) \in 0..w
    BY <1>2, PointsBounded DEF Points
  <2> QED
    BY <2>1
<1>3. CASE old[d] = "good" /\ new[d] \in {"warn", "bad"}
  BY <1>1, <1>3 DEF Points
<1>4. CASE old[d] = "warn" /\ new[d] = "bad"
  BY <1>1, <1>4 DEF Points
<1> QED
  BY <1>2, <1>3, <1>4 DEF Wears

LEMMA ScoreWears ==
  ASSUME NEW old \in Graph, NEW new \in Graph, \A d \in DimensionNames : Wears(old[d], new[d])
  PROVE  Score(new) <= Score(old) /\ Score(new) \in 0..100 /\ Score(old) \in 0..100
<1> DEFINE P(dims, d, w) == Points(dims, d, w)
<1>1. /\ P(new, "heartbeat", 25) <= P(old, "heartbeat", 25)
      /\ P(new, "event_ingestion", 20) <= P(old, "event_ingestion", 20)
      /\ P(new, "detection_pack", 15) <= P(old, "detection_pack", 15)
      /\ P(new, "agent_version", 10) <= P(old, "agent_version", 10)
      /\ P(new, "collectors", 15) <= P(old, "collectors", 15)
      /\ P(new, "connectivity", 15) <= P(old, "connectivity", 15)
  BY PointsWear DEF DimensionNames
<1>2. ASSUME NEW dims \in Graph
      PROVE  /\ P(dims, "heartbeat", 25) \in 0..25 /\ P(dims, "event_ingestion", 20) \in 0..20
             /\ P(dims, "detection_pack", 15) \in 0..15 /\ P(dims, "agent_version", 10) \in 0..10
             /\ P(dims, "collectors", 15) \in 0..15 /\ P(dims, "connectivity", 15) \in 0..15
  BY PointsBounded DEF DimensionNames
<1>3. /\ Score(new) = P(new, "heartbeat", 25) + P(new, "event_ingestion", 20)
                      + P(new, "detection_pack", 15) + P(new, "agent_version", 10)
                      + P(new, "collectors", 15) + P(new, "connectivity", 15)
      /\ Score(old) = P(old, "heartbeat", 25) + P(old, "event_ingestion", 20)
                      + P(old, "detection_pack", 15) + P(old, "agent_version", 10)
                      + P(old, "collectors", 15) + P(old, "connectivity", 15)
  BY ScoreAdds
<1> HIDE DEF P
<1>4. PICK n1, n2, n3, n4, n5, n6 :
        /\ n1 = P(new, "heartbeat", 25) /\ n2 = P(new, "event_ingestion", 20)
        /\ n3 = P(new, "detection_pack", 15) /\ n4 = P(new, "agent_version", 10)
        /\ n5 = P(new, "collectors", 15) /\ n6 = P(new, "connectivity", 15)
  OBVIOUS
<1>5. PICK o1, o2, o3, o4, o5, o6 :
        /\ o1 = P(old, "heartbeat", 25) /\ o2 = P(old, "event_ingestion", 20)
        /\ o3 = P(old, "detection_pack", 15) /\ o4 = P(old, "agent_version", 10)
        /\ o5 = P(old, "collectors", 15) /\ o6 = P(old, "connectivity", 15)
  OBVIOUS
<1>6. /\ n1 \in 0..25 /\ n2 \in 0..20 /\ n3 \in 0..15
      /\ n4 \in 0..10 /\ n5 \in 0..15 /\ n6 \in 0..15
  BY <1>2, <1>4
<1>7. /\ o1 \in 0..25 /\ o2 \in 0..20 /\ o3 \in 0..15
      /\ o4 \in 0..10 /\ o5 \in 0..15 /\ o6 \in 0..15
  BY <1>2, <1>5
<1>8. n1 <= o1 /\ n2 <= o2 /\ n3 <= o3 /\ n4 <= o4 /\ n5 <= o5 /\ n6 <= o6
  BY <1>1, <1>4, <1>5
<1>9. Score(new) = n1 + n2 + n3 + n4 + n5 + n6 /\ Score(old) = o1 + o2 + o3 + o4 + o5 + o6
  BY <1>3, <1>4, <1>5
<1> QED
  BY <1>6, <1>7, <1>8, <1>9

(* The bucket by which dimensions are bad, warn and unknown.               *)
LEMMA Buckets ==
  ASSUME NEW dims \in Graph
  PROVE  /\ BucketUnscored(dims) =
              IF dims["heartbeat"] = "bad" THEN "stale"
              ELSE IF Count(dims, "bad") >= 2 THEN "degraded"
              ELSE IF In(dims, "bad") # {} \/ In(dims, "warn") # {} THEN "needs_attention"
              ELSE IF In(dims, "unknown") = DimensionNames THEN "unknown" ELSE "ready"
         /\ Bucket(dims) = IF BucketUnscored(dims) = "ready" /\ Score(dims) < 80
                           THEN "needs_attention" ELSE BucketUnscored(dims)
<1>1. PICK b, w, u : b = Count(dims, "bad") /\ w = Count(dims, "warn") /\ u = Count(dims, "unknown")
  OBVIOUS
<1>2. /\ b \in 0..6 /\ w \in 0..6 /\ u \in 0..6
      /\ b = 0 <=> In(dims, "bad") = {}
      /\ w = 0 <=> In(dims, "warn") = {}
      /\ u = 6 <=> In(dims, "unknown") = DimensionNames
  BY <1>1, CountsAre
<1>3. Len(Dimensions) = 6
  BY NamesAreSix
<1>4. b < 2 => ((b = 1 \/ w >= 1) <=> (In(dims, "bad") # {} \/ In(dims, "warn") # {}))
  BY <1>2
<1> QED
  BY <1>1, <1>2, <1>3, <1>4 DEF BucketUnscored, Bucket

(* What the dimensions of one agent have to do with each other.            *)
Related(dims) ==
    /\ dims["connectivity"] # "unknown"
    /\ dims["event_ingestion"] = "unknown" <=> dims["collectors"] = "unknown"

LEMMA ReadyMeansFresh ==
  ASSUME NEW dims \in Graph, Related(dims), Bucket(dims) = "ready"
  PROVE  /\ \A d \in {"heartbeat", "event_ingestion", "collectors", "connectivity"} :
               dims[d] = "good"
         /\ dims["detection_pack"] \in {"good", "unknown"}
         /\ dims["agent_version"] \in {"good", "unknown"}
         /\ {dims["detection_pack"], dims["agent_version"]} # {"unknown"}
<1>1. /\ In(dims, "bad") = {} /\ In(dims, "warn") = {} /\ ~ (Score(dims) < 80)
  BY Buckets
<1>2. \A d \in DimensionNames : dims[d] \in {"good", "unknown"}
  BY <1>1 DEF In, Graph, States
<1>3. PICK h, e, p, v, c, k :
        /\ h = Points(dims, "heartbeat", 25) /\ e = Points(dims, "event_ingestion", 20)
        /\ p = Points(dims, "detection_pack", 15) /\ v = Points(dims, "agent_version", 10)
        /\ c = Points(dims, "collectors", 15) /\ k = Points(dims, "connectivity", 15)
  OBVIOUS
<1>4. h \in 0..25 /\ e \in 0..20 /\ p \in 0..15 /\ v \in 0..10 /\ c \in 0..15 /\ k \in 0..15
  BY <1>3, PointsBounded DEF DimensionNames
<1>5. /\ dims["heartbeat"] = "unknown" => h = 0
      /\ dims["event_ingestion"] = "unknown" => e = 0
      /\ dims["detection_pack"] = "unknown" => p = 0
      /\ dims["agent_version"] = "unknown" => v = 0
      /\ dims["collectors"] = "unknown" => c = 0
  BY <1>3, PointsBounded DEF DimensionNames
<1>6. Score(dims) = h + e + p + v + c + k
  BY <1>3, ScoreAdds
<1>7. dims["heartbeat"] # "unknown" /\ dims["event_ingestion"] # "unknown"
  BY <1>1, <1>4, <1>5, <1>6 DEF Related
<1>8. dims["detection_pack"] # "unknown" \/ dims["agent_version"] # "unknown"
  BY <1>1, <1>4, <1>5, <1>6
<1> QED
  BY <1>2, <1>7, <1>8 DEF Related, DimensionNames

LEMMA FixIsNamed ==
  ASSUME NEW dims \in Graph, Bucket(dims) # "ready"
  PROVE  PickFixFirst(dims) # ""
<1>1. ASSUME \A d \in DimensionNames : dims[d] = "good" PROVE FALSE
  <2>1. In(dims, "bad") = {} /\ In(dims, "warn") = {} /\ In(dims, "unknown") = {}
    BY <1>1 DEF In
  <2>2. DimensionNames # {} /\ dims["heartbeat"] # "bad"
    BY <1>1 DEF DimensionNames
  <2>3. Count(dims, "bad") = 0
    BY <2>1, CountsAre
  <2>4. BucketUnscored(dims) = "ready"
    BY <2>1, <2>2, <2>3, Buckets
  <2>5. /\ Points(dims, "heartbeat", 25) = 25 /\ Points(dims, "event_ingestion", 20) = 20
        /\ Points(dims, "detection_pack", 15) = 15 /\ Points(dims, "agent_version", 10) = 10
        /\ Points(dims, "collectors", 15) = 15 /\ Points(dims, "connectivity", 15) = 15
    BY <1>1 DEF Points, DimensionNames
  <2>6. Score(dims) = 100
    BY <2>5, ScoreAdds
  <2> QED
    BY <2>4, <2>6, Buckets
<1>2. In(dims, "bad") # {} \/ In(dims, "warn") # {} \/ In(dims, "unknown") # {}
  BY <1>1 DEF In, Graph, States
<1> QED
  BY <1>2, FirstFound DEF PickFixFirst

LEMMA BucketWears ==
  ASSUME NEW old \in Graph, NEW new \in Graph, \A d \in DimensionNames : Wears(old[d], new[d])
  PROVE  BucketRank[Bucket(new)] <= BucketRank[Bucket(old)]
<1>1. /\ BucketRank["stale"] = 0 /\ BucketRank["degraded"] = 1 /\ BucketRank["needs_attention"] = 2
      /\ BucketRank["unknown"] = 3 /\ BucketRank["ready"] = 4
  BY DEF BucketRank
<1>2. In(old, "bad") \subseteq In(new, "bad")
  BY DEF In, Wears
<1>3. /\ Count(old, "bad") <= Count(new, "bad")
      /\ Count(old, "bad") \in Nat /\ Count(new, "bad") \in Nat
  BY <1>2, CountsAre, FS_Subset
<1>4. In(old, "warn") \subseteq In(new, "warn") \cup In(new, "bad")
  BY DEF In, Wears
<1>5. In(old, "unknown") = In(new, "unknown")
  BY DEF In, Wears
<1>6. old["heartbeat"] = "bad" => new["heartbeat"] = "bad"
  BY DEF Wears, DimensionNames
<1>7. Score(new) <= Score(old) /\ Score(new) \in Nat /\ Score(old) \in Nat
  BY ScoreWears
<1>8. PICK a, b : a = BucketUnscored(old) /\ b = BucketUnscored(new)
  OBVIOUS
<1>9. /\ a = IF old["heartbeat"] = "bad" THEN "stale"
             ELSE IF Count(old, "bad") >= 2 THEN "degraded"
             ELSE IF In(old, "bad") # {} \/ In(old, "warn") # {} THEN "needs_attention"
             ELSE IF In(old, "unknown") = DimensionNames THEN "unknown" ELSE "ready"
      /\ b = IF new["heartbeat"] = "bad" THEN "stale"
             ELSE IF Count(new, "bad") >= 2 THEN "degraded"
             ELSE IF In(new, "bad") # {} \/ In(new, "warn") # {} THEN "needs_attention"
             ELSE IF In(new, "unknown") = DimensionNames THEN "unknown" ELSE "ready"
  BY <1>8, Buckets
<1>10. /\ Bucket(old) = IF a = "ready" /\ Score(old) < 80 THEN "needs_attention" ELSE a
       /\ Bucket(new) = IF b = "ready" /\ Score(new) < 80 THEN "needs_attention" ELSE b
  BY <1>8, Buckets
<1>11. b \in {"stale", "degraded", "needs_attention", "unknown", "ready"}
  BY <1>9
<1>12. CASE a = "stale"
  BY <1>1, <1>6, <1>9, <1>10, <1>12
<1>13. CASE a = "degraded"
  BY <1>1, <1>3, <1>9, <1>10, <1>13
<1>14. CASE a = "needs_attention"
  BY <1>1, <1>2, <1>4, <1>9, <1>10, <1>14
<1>15. CASE a = "unknown"
  <2>1. b = "unknown" \/ b \in {"stale", "degraded", "needs_attention"}
    BY <1>5, <1>9, <1>15
  <2> QED
    BY <1>1, <1>10, <1>15, <2>1
<1>16. CASE a = "ready"
  <2>1. b # "unknown"
    BY <1>5, <1>9, <1>16
  <2> QED
    BY <1>1, <1>7, <1>10, <1>11, <1>16, <2>1
<1> QED
  BY <1>9, <1>12, <1>13, <1>14, <1>15, <1>16

-----------------------------------------------------------------------------
ReadyTypes ==
    /\ beatAge \in Ages /\ rdVersion \in {"unreported", "current", "drifted"}
    /\ rdEvents \in VisibilityRecord \cup {Never} /\ rdPack \in PackRecord \cup {Never}
ReadyInv == ReadyTypes /\ rdReply = ComputeAgentReadiness(Dims)

LEMMA GradedWears ==
  ASSUME NEW age \in 0..AgeCap, NEW warn \in Nat, NEW bad \in Nat
  PROVE  /\ Graded(age, warn, bad) \in {"good", "warn", "bad"}
         /\ Older(age) \in 0..AgeCap
         /\ Wears(Graded(age, warn, bad), Graded(Older(age), warn, bad))
<1>1. AgeCap \in Nat /\ age # Never
  BY FleetReadinessAssumption, NeverAssumption
<1>2. Older(age) = age \/ Older(age) = age + 1
  BY DEF Older
<1>3. Older(age) \in 0..AgeCap
  BY <1>1 DEF Older
<1> QED
  BY <1>1, <1>2, <1>3 DEF Graded, Wears

(* The six dimensions are graded, and related, whatever the facts are.     *)
LEMMA DimsGraded ==
  ASSUME ReadyTypes
  PROVE  Dims \in Graph /\ Related(Dims)
<1>1. /\ {OnlineFor, HeartbeatWarn, EventsWarn, OfflineAfter, HeartbeatBad, EventsBad} \subseteq Nat
      /\ Never \notin Nat
  BY FleetReadinessAssumption, NeverAssumption
<1>2. beatAge = Never \/ beatAge \in 0..AgeCap
  BY DEF ReadyTypes, Ages
<1>3. DimensionHeartbeat \in States
  BY <1>1, <1>2, GradedWears DEF DimensionHeartbeat, States
<1>4. DimensionConnectivity \in States \ {"unknown"}
  BY <1>1, <1>2, GradedWears DEF DimensionConnectivity, States
<1>5. EventsSeen = Never \/ EventsSeen \in VisibilityRecord
  BY DEF EventsSeen, ReadyTypes
<1>6. DimensionEventIngestion \in States /\ (DimensionEventIngestion = "unknown" <=> EventsSeen = Never)
  <2>1. CASE EventsSeen = Never
    BY <2>1 DEF DimensionEventIngestion, States
  <2>2. CASE EventsSeen # Never
    <3>1. EventsSeen.age = Never \/ EventsSeen.age \in 0..AgeCap
      BY <1>5, <2>2 DEF VisibilityRecord, Ages
    <3> QED
      BY <1>1, <2>2, <3>1, GradedWears DEF DimensionEventIngestion, States
  <2> QED
    BY <2>1, <2>2
<1>7. DimensionCollectorHealth \in States /\ (DimensionCollectorHealth = "unknown" <=> EventsSeen = Never)
  BY DEF DimensionCollectorHealth, States
<1>8. DimensionDetectionPack \in States /\ DimensionAgentVersion \in States
  BY DEF DimensionDetectionPack, DimensionAgentVersion, States
<1>9. /\ Dims["heartbeat"] = DimensionHeartbeat /\ Dims["event_ingestion"] = DimensionEventIngestion
      /\ Dims["detection_pack"] = DimensionDetectionPack /\ Dims["agent_version"] = DimensionAgentVersion
      /\ Dims["collectors"] = DimensionCollectorHealth /\ Dims["connectivity"] = DimensionConnectivity
      /\ DOMAIN Dims = DimensionNames
      /\ Dims = [d \in DimensionNames |-> Dims[d]]
  BY DEF Dims, DimensionNames
<1>10. \A d \in DimensionNames : Dims[d] \in States
  BY <1>3, <1>4, <1>6, <1>7, <1>8, <1>9 DEF DimensionNames
<1>11. Dims \in Graph
  BY <1>9, <1>10 DEF Graph
<1> QED
  BY <1>4, <1>6, <1>7, <1>9, <1>11 DEF Related

LEMMA GraphAlways == ReadyTypes => Dims \in Graph
  BY DimsGraded

(* Time wears every dimension.                                             *)
LEMMA TimeWears ==
  ASSUME ReadyTypes, TimePasses
  PROVE  ReadyTypes' /\ \A d \in DimensionNames : Wears(Dims[d], Dims'[d])
<1>1. /\ {OnlineFor, HeartbeatWarn, EventsWarn, OfflineAfter, HeartbeatBad, EventsBad, PackOld,
          AgeCap} \subseteq Nat
      /\ Never \notin Nat /\ Never \notin VisibilityRecord /\ Never \notin PackRecord
  BY FleetReadinessAssumption, NeverAssumption
<1>2. \A age \in Ages : age = Never \/ age \in 0..AgeCap
  BY DEF Ages
<1>3. \A age \in Ages : Older(age) \in Ages /\ (Older(age) = Never <=> age = Never)
  <2> SUFFICES ASSUME NEW age \in Ages PROVE Older(age) \in Ages /\ (Older(age) = Never <=> age = Never)
    OBVIOUS
  <2>1. CASE age = Never
    BY <2>1 DEF Older
  <2>2. CASE age \in 0..AgeCap
    BY <1>1, <2>2, GradedWears DEF Ages
  <2> QED
    BY <1>2, <2>1, <2>2
<1>4. /\ beatAge' = Older(beatAge) /\ sources' = sources /\ rdVersion' = rdVersion
      /\ rdEvents' = IF rdEvents = Never THEN Never ELSE [rdEvents EXCEPT !.age = Older(@)]
      /\ rdPack' = IF rdPack = Never THEN Never ELSE [rdPack EXCEPT !.age = Older(@)]
  BY DEF TimePasses
<1>5. beatAge' \in Ages /\ (beatAge' = Never <=> beatAge = Never)
  BY <1>3, <1>4 DEF ReadyTypes
<1>6. \/ rdEvents = Never /\ rdEvents' = Never
      \/ /\ rdEvents # Never /\ rdEvents' # Never /\ rdEvents' \in VisibilityRecord
         /\ rdEvents \in VisibilityRecord
         /\ rdEvents'.age = Older(rdEvents.age) /\ rdEvents'.types = rdEvents.types
  <2>1. CASE rdEvents = Never
    BY <1>4, <2>1
  <2>2. CASE rdEvents # Never
    <3>1. rdEvents \in VisibilityRecord /\ rdEvents' = [rdEvents EXCEPT !.age = Older(@)]
      BY <1>4, <2>2 DEF ReadyTypes
    <3>2. rdEvents' \in VisibilityRecord
      BY <1>3, <3>1 DEF VisibilityRecord
    <3> QED
      BY <1>1, <2>2, <3>1, <3>2 DEF VisibilityRecord
  <2> QED
    BY <2>1, <2>2
<1>7. \/ rdPack = Never /\ rdPack' = Never
      \/ /\ rdPack # Never /\ rdPack' # Never /\ rdPack' \in PackRecord
         /\ rdPack \in PackRecord
         /\ rdPack'.age = Older(rdPack.age) /\ rdPack'.state = rdPack.state
  <2>1. CASE rdPack = Never
    BY <1>4, <2>1
  <2>2. CASE rdPack # Never
    <3>1. rdPack \in PackRecord /\ rdPack' = [rdPack EXCEPT !.age = Older(@)]
      BY <1>4, <2>2 DEF ReadyTypes
    <3>2. rdPack' \in PackRecord
      BY <1>3, <3>1 DEF PackRecord
    <3> QED
      BY <1>1, <2>2, <3>1, <3>2 DEF PackRecord
  <2> QED
    BY <2>1, <2>2
<1>8. ReadyTypes'
  BY <1>4, <1>5, <1>6, <1>7 DEF ReadyTypes
<1>9. Wears(DimensionHeartbeat, DimensionHeartbeat')
  <2>1. CASE beatAge = Never
    BY <1>5, <2>1 DEF DimensionHeartbeat, Wears
  <2>2. CASE beatAge # Never
    <3>1. beatAge \in 0..AgeCap
      BY <2>2 DEF ReadyTypes, Ages
    <3>2. Wears(Graded(beatAge, HeartbeatWarn, HeartbeatBad), Graded(Older(beatAge), HeartbeatWarn, HeartbeatBad))
      BY <1>1, <3>1, GradedWears
    <3> QED
      BY <1>4, <1>5, <2>2, <3>2 DEF DimensionHeartbeat
  <2> QED
    BY <2>1, <2>2
<1>10. Wears(DimensionConnectivity, DimensionConnectivity')
  <2>1. CASE beatAge = Never
    BY <1>5, <2>1 DEF DimensionConnectivity, Wears
  <2>2. CASE beatAge # Never
    <3>1. beatAge \in 0..AgeCap
      BY <2>2 DEF ReadyTypes, Ages
    <3>2. Wears(Graded(beatAge, OnlineFor, OfflineAfter), Graded(Older(beatAge), OnlineFor, OfflineAfter))
      BY <1>1, <3>1, GradedWears
    <3> QED
      BY <1>4, <1>5, <2>2, <3>2 DEF DimensionConnectivity
  <2> QED
    BY <2>1, <2>2
<1>11. PICK seen, next : seen = EventsSeen /\ next = EventsSeen'
  OBVIOUS
<1>12. \/ seen = Never /\ next = Never
       \/ /\ seen # Never /\ next # Never /\ seen \in VisibilityRecord
          /\ next.age = Older(seen.age) /\ next.types = seen.types
  BY <1>4, <1>6, <1>11 DEF EventsSeen
<1>13. Wears(DimensionEventIngestion, DimensionEventIngestion')
  <2>1. CASE seen = Never
    BY <1>11, <1>12, <2>1 DEF DimensionEventIngestion, Wears
  <2>2. CASE seen # Never
    <3>1. seen.age \in Ages /\ next # Never /\ next.age = Older(seen.age)
      BY <1>12, <2>2 DEF VisibilityRecord
    <3>2. /\ DimensionEventIngestion = IF seen.age = Never THEN "bad"
                                       ELSE Graded(seen.age, EventsWarn, EventsBad)
          /\ DimensionEventIngestion' = IF next.age = Never THEN "bad"
                                        ELSE Graded(next.age, EventsWarn, EventsBad)
      BY <1>11, <2>2, <3>1 DEF DimensionEventIngestion
    <3>3. CASE seen.age = Never
      BY <1>3, <3>1, <3>2, <3>3 DEF Wears
    <3>4. CASE seen.age # Never
      <4>1. seen.age \in 0..AgeCap
        BY <1>2, <3>1, <3>4
      <4>2. Wears(Graded(seen.age, EventsWarn, EventsBad), Graded(Older(seen.age), EventsWarn, EventsBad))
        BY <1>1, <4>1, GradedWears
      <4> QED
        BY <1>3, <3>1, <3>2, <3>4, <4>2
    <3> QED
      BY <3>3, <3>4
  <2> QED
    BY <2>1, <2>2
<1>14. DimensionCollectorHealth' = DimensionCollectorHealth
  <2>1. CASE seen = Never
    BY <1>11, <1>12, <2>1 DEF DimensionCollectorHealth
  <2>2. CASE seen # Never
    BY <1>11, <1>12, <2>2 DEF DimensionCollectorHealth
  <2> QED
    BY <2>1, <2>2
<1>15. PICK pack, after : pack = PackSeen /\ after = PackSeen'
  OBVIOUS
<1>16. \/ pack = Never /\ after = Never
       \/ /\ pack # Never /\ after # Never /\ pack \in PackRecord
          /\ after.age = Older(pack.age) /\ after.state = pack.state
  BY <1>4, <1>7, <1>15 DEF PackSeen
<1>17. Wears(DimensionDetectionPack, DimensionDetectionPack')
  <2>1. CASE pack = Never
    BY <1>15, <1>16, <2>1 DEF DimensionDetectionPack, Wears
  <2>2. CASE pack # Never
    <3>1. pack.age \in Ages /\ after # Never /\ after.age = Older(pack.age) /\ after.state = pack.state
      BY <1>16, <2>2 DEF PackRecord
    <3>2. /\ DimensionDetectionPack =
               IF pack.state = "rejected" THEN "bad"
               ELSE IF pack.state = "applied" /\ pack.age # Never /\ pack.age <= PackOld
                    THEN "good" ELSE "warn"
          /\ DimensionDetectionPack' =
               IF after.state = "rejected" THEN "bad"
               ELSE IF after.state = "applied" /\ after.age # Never /\ after.age <= PackOld
                    THEN "good" ELSE "warn"
      BY <1>15, <2>2, <3>1 DEF DimensionDetectionPack
    <3>3. after.age # Never /\ after.age <= PackOld => pack.age # Never /\ pack.age <= PackOld
      <4> SUFFICES ASSUME after.age # Never, after.age <= PackOld
                   PROVE  pack.age # Never /\ pack.age <= PackOld
        OBVIOUS
      <4>1. pack.age # Never /\ pack.age \in 0..AgeCap
        BY <1>2, <1>3, <3>1
      <4>2. after.age = pack.age \/ after.age = pack.age + 1
        BY <3>1 DEF Older
      <4> QED
        BY <1>1, <4>1, <4>2
    <3> QED
      BY <3>1, <3>2, <3>3 DEF Wears
  <2> QED
    BY <2>1, <2>2
<1>18. DimensionAgentVersion' = DimensionAgentVersion
  BY <1>4 DEF DimensionAgentVersion
<1>19. ASSUME NEW d \in DimensionNames PROVE Wears(Dims[d], Dims'[d])
  <2>1. \A s : Wears(s, s)
    BY DEF Wears
  <2> QED
    BY <1>9, <1>10, <1>13, <1>14, <1>17, <1>18, <2>1 DEF Dims, DimensionNames
<1> QED
  BY <1>8, <1>19

LEMMA ReadyStep == ReadyInv /\ [ReadyNext]_readyVars => ReadyInv'
<1> SUFFICES ASSUME ReadyInv, [ReadyNext]_readyVars PROVE ReadyInv'
  OBVIOUS
<1>1. CASE UNCHANGED readyVars
  <2>1. UNCHANGED <<beatAge, rdEvents, rdPack, rdVersion, sources, rdReply>>
    BY <1>1 DEF readyVars, factVars
  <2>2. EventsSeen' = EventsSeen /\ PackSeen' = PackSeen
    BY <2>1 DEF EventsSeen, PackSeen
  <2>3. /\ DimensionHeartbeat' = DimensionHeartbeat
        /\ DimensionConnectivity' = DimensionConnectivity
    BY <2>1 DEF DimensionHeartbeat, DimensionConnectivity
  <2>4. /\ DimensionEventIngestion' = DimensionEventIngestion
        /\ DimensionDetectionPack' = DimensionDetectionPack
    BY <2>2 DEF DimensionEventIngestion, DimensionDetectionPack
  <2>5. DimensionCollectorHealth' = DimensionCollectorHealth
    BY <2>2 DEF DimensionCollectorHealth
  <2>6. DimensionAgentVersion' = DimensionAgentVersion
    BY <2>1 DEF DimensionAgentVersion
  <2>7. Dims' = Dims
    BY <2>3, <2>4, <2>5, <2>6 DEF Dims
  <2>8. ReadyTypes'
    BY <2>1 DEF ReadyInv, ReadyTypes
  <2>9. rdReply' = ComputeAgentReadiness(Dims')
    <3>1. rdReply = ComputeAgentReadiness(Dims)
      BY DEF ReadyInv
    <3> QED
      BY <2>1, <2>7, <3>1
  <2> QED
    BY <2>8, <2>9 DEF ReadyInv
<1>2. CASE ReadyNext
  <2>1. rdReply' = ComputeAgentReadiness(Dims')
    BY <1>2 DEF ReadyNext
  <2>2. AgeCap \in Nat /\ 0 \in Ages /\ Never \in Ages
    BY FleetReadinessAssumption DEF Ages
  <2>3. ASSUME TimePasses PROVE ReadyTypes'
    BY <2>3, TimeWears DEF ReadyInv
  <2>4. ASSUME NEW v \in {"unreported", "current", "drifted"}, AgentBeats(v) PROVE ReadyTypes'
    BY <2>2, <2>4 DEF AgentBeats, ReadyInv, ReadyTypes
  <2>5. ASSUME NEW rec \in {<<Never, 0>>, <<0, 1>>, <<0, 2>>}, DeviceRecorded(rec[1], rec[2])
        PROVE  ReadyTypes'
    <3>1. rec[1] \in Ages /\ rec[2] \in 0..2
      BY <2>2
    <3> QED
      BY <2>5, <3>1 DEF DeviceRecorded, ReadyInv, ReadyTypes, VisibilityRecord
  <2>6. ASSUME NEW s \in PackStates, NEW age \in {0, Never}, PackReported(s, age)
        PROVE  ReadyTypes'
    BY <2>2, <2>6 DEF PackReported, ReadyInv, ReadyTypes, PackRecord
  <2>7. ASSUME NEW up, Answering(up) PROVE ReadyTypes'
    BY <2>7 DEF Answering, ReadyInv, ReadyTypes
  <2>8. ReadyTypes'
    BY <1>2, <2>3, <2>4, <2>5, <2>6, <2>7 DEF ReadyNext, FactsChange, ReadyInv
  <2> QED
    BY <2>1, <2>8 DEF ReadyInv
<1> QED
  BY <1>1, <1>2

(* What the answer in hand says.                                           *)
LEMMA ReplyShown == ReadyInv => ReadyIsTrustworthy /\ NotReadyNamesFix
<1> SUFFICES ASSUME ReadyInv PROVE ReadyIsTrustworthy /\ NotReadyNamesFix
  OBVIOUS
<1>1. PICK dims : dims = Dims
  OBVIOUS
<1>2. dims \in Graph /\ Related(dims) /\ rdReply = ComputeAgentReadiness(dims)
  BY <1>1, DimsGraded DEF ReadyInv
<1>3. /\ rdReply.dims = dims /\ rdReply.bucket = Bucket(dims)
      /\ rdReply.fix = IF Bucket(dims) = "ready" THEN "" ELSE PickFixFirst(dims)
  BY <1>2 DEF ComputeAgentReadiness
<1>4. ReadyIsTrustworthy
  <2> SUFFICES ASSUME rdReply.bucket = "ready"
               PROVE  /\ \A d \in {"heartbeat", "event_ingestion", "collectors", "connectivity"} :
                             rdReply.dims[d] = "good"
                      /\ PackSeen # Never => rdReply.dims.detection_pack = "good"
                      /\ rdVersion # "unreported" => rdReply.dims.agent_version = "good"
                      /\ (PackSeen # Never \/ rdVersion # "unreported")
    BY DEF ReadyIsTrustworthy
  <2>1. /\ \A d \in {"heartbeat", "event_ingestion", "collectors", "connectivity"} :
               dims[d] = "good"
        /\ dims["detection_pack"] \in {"good", "unknown"}
        /\ dims["agent_version"] \in {"good", "unknown"}
        /\ {dims["detection_pack"], dims["agent_version"]} # {"unknown"}
    BY <1>2, <1>3, ReadyMeansFresh
  <2>2. /\ dims["detection_pack"] = DimensionDetectionPack
        /\ dims["agent_version"] = DimensionAgentVersion
    BY <1>1 DEF Dims
  <2>3. DimensionDetectionPack = "unknown" <=> PackSeen = Never
    BY DEF DimensionDetectionPack
  <2>4. DimensionAgentVersion = "unknown" <=> rdVersion = "unreported"
    BY DEF DimensionAgentVersion
  <2> QED
    BY <1>3, <2>1, <2>2, <2>3, <2>4
<1>5. NotReadyNamesFix
  BY <1>2, <1>3, FixIsNamed DEF NotReadyNamesFix
<1> QED
  BY <1>4, <1>5

Neglected == TimePasses => /\ rdReply'.score <= rdReply.score
                           /\ BucketRank[rdReply'.bucket] <= BucketRank[rdReply.bucket]

LEMMA NeglectStep == ReadyInv /\ [ReadyNext]_readyVars => [Neglected]_readyVars
<1> SUFFICES ASSUME ReadyInv, ReadyNext, TimePasses
             PROVE  /\ rdReply'.score <= rdReply.score
                    /\ BucketRank[rdReply'.bucket] <= BucketRank[rdReply.bucket]
  BY DEF Neglected
<1>1. PICK old, new : old = Dims /\ new = Dims'
  OBVIOUS
<1>2. rdReply = ComputeAgentReadiness(old) /\ rdReply' = ComputeAgentReadiness(new)
  BY <1>1 DEF ReadyInv, ReadyNext
<1>3. ReadyTypes /\ ReadyTypes' /\ \A d \in DimensionNames : Wears(old[d], new[d])
  BY <1>1, TimeWears DEF ReadyInv
<1>4. old \in Graph
  BY <1>1, <1>3, DimsGraded
<1>5. new \in Graph
  <2>1. (ReadyTypes => Dims \in Graph)'
    BY GraphAlways, PTL
  <2> QED
    BY <1>1, <1>3, <2>1
<1>6. /\ rdReply.score = Score(old) /\ rdReply.bucket = Bucket(old)
      /\ rdReply'.score = Score(new) /\ rdReply'.bucket = Bucket(new)
  BY <1>2 DEF ComputeAgentReadiness
<1> QED
  BY <1>3, <1>4, <1>5, <1>6, ScoreWears, BucketWears

(* Fleet readiness: for any thresholds that are ordered as the code's are, *)
(* an agent is called ready on fresh data only, with a pack and a version  *)
(* that are good where they are known; everything else names what to fix   *)
(* first, and time alone never improves an answer.                         *)
THEOREM ReadinessIsSound == ReadySpec => ReadinessSound
<1>1. ReadyInit => ReadyInv
  BY DEF ReadyInit, ReadyInv, ReadyTypes, Ages
<1> QED
  BY <1>1, ReadyStep, ReplyShown, NeglectStep, PTL
  DEF ReadySpec, ReadinessSound, NeglectNeverImproves, Neglected
=============================================================================
