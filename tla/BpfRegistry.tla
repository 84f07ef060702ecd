----------------------------- MODULE BpfRegistry -----------------------------
(***************************************************************************)
(* The bpf-registry: artifacts in a directory each, artifact.tar.zst and   *)
(* metadata.json, written with os.Create (which truncates) and one Write,  *)
(* no lock, no rename.  HTTP requests run concurrently; a file operation   *)
(* may fail, and the process may be killed between any two of them.        *)
(***************************************************************************)
EXTENDS Naturals, Sequences, FiniteSets, Filtering

CONSTANTS RegWorkers,     \* concurrent requests
          ArtIds,         \* artifact ids (nanosecond timestamps: never reused)
          RegHosts,       \* host ids
          HostLists,      \* host lists a PUT may carry
          MaxRegOps,      \* bound: requests
          MaxRegCrashes,  \* bound: process restarts
          MaxWriteFaults, \* bound: failing file operations
          NoFile,         \* the file does not exist
          NoOp            \* an idle worker

VARIABLES bin,            \* ArtIds -> NoFile, "cut" or "whole": artifact.tar.zst
          meta,           \* ArtIds -> NoFile, or [hosts, whole]: metadata.json
          op,             \* RegWorkers -> the request in progress
          regOps, regCrashes, regFaults,
          expected,       \* ghost: ArtIds -> hosts by the acknowledged requests
          created,        \* ghost: artifacts whose creation was acknowledged
          disturbed,      \* ghost: artifacts with overlapping or killed updates
          failed          \* ghost: artifacts whose metadata a failed write cut

regVars == <<bin, meta, op, regOps, regCrashes, regFaults, expected, created, disturbed, failed>>

(* The file operations of a request, and its answer.                       *)
FileSteps == {"bin0", "bin1", "meta0", "meta1", "ack"}

ASSUME BpfRegistryAssumption ==
    /\ HostLists \subseteq Seq(RegHosts)
    /\ {MaxRegOps, MaxRegCrashes, MaxWriteFaults} \subseteq Nat
    /\ NoFile \notin {"cut", "whole"}
    /\ NoFile \notin [hosts : Seq(RegHosts), whole : BOOLEAN, size : Nat]
    /\ NoOp \notin [art : ArtIds, steps : Seq(FileSteps), hosts : Seq(RegHosts), wish : SUBSET RegHosts]

Members(s) == {s[i] : i \in DOMAIN s}

RegInit ==
    /\ bin = [a \in ArtIds |-> NoFile]
    /\ meta = [a \in ArtIds |-> NoFile]
    /\ op = [w \in RegWorkers |-> NoOp]
    /\ regOps = 0 /\ regCrashes = 0 /\ regFaults = 0
    /\ expected = [a \in ArtIds |-> {}]
    /\ created = {} /\ disturbed = {} /\ failed = {}

(* getMetadata parses the file: an empty or overlapped one is an error.    *)
Readable(a) == meta[a] # NoFile /\ meta[a].whole
(* FSStore.Get needs both files; it does not look into the binary.         *)
Gettable(a) == Readable(a) /\ bin[a] # NoFile
(* GetArtifactsForHost: artifacts it cannot read are skipped.              *)
ForHost(h) == {a \in ArtIds : Gettable(a) /\ h \in Members(meta[a].hosts)}

(* os.Create truncates; writeFile then writes the whole document at offset *)
(* 0, so over a longer document it leaves that one's tail behind.          *)
Truncated == [hosts |-> << >>, whole |-> FALSE, size |-> 0]
Written(file, hosts) == [hosts |-> hosts, size |-> Len(hosts) + 1,
                         whole |-> file.size <= Len(hosts) + 1]
(* A write that fails after n bytes.                                       *)
CutShort(file, n) == [file EXCEPT !.whole = @ /\ n = 0, !.size = IF @ < n THEN n ELSE @]

Inflight(a) == {w \in RegWorkers : op[w] # NoOp /\ op[w].art = a}
-----------------------------------------------------------------------------
(* FSStore.Put: directory and binary file created, binary written, then    *)
(* metadata created and written.                                           *)
MetadataFirst == <<"meta0", "meta1", "bin0", "bin1", "ack">>
PutOrder == <<"bin0", "bin1", "meta0", "meta1", "ack">>

StoreArtifact(w, a) ==
    /\ op[w] = NoOp /\ regOps < MaxRegOps
    /\ bin[a] = NoFile /\ meta[a] = NoFile /\ Inflight(a) = {}
    /\ regOps' = regOps + 1
    /\ op' = [op EXCEPT ![w] = [art |-> a, steps |-> PutOrder, hosts |-> << >>, wish |-> {}]]
    /\ UNCHANGED <<bin, meta, regCrashes, regFaults, expected, created, disturbed, failed>>

(* Assign, unassign and update: the current list is read first.            *)
Assigned(hosts, h) == IF h \in Members(hosts) THEN hosts ELSE Append(hosts, h)
Unassigned(hosts, h) == Kept(hosts, {h})

(* Nothing is written when the list already is what was asked for; a PUT   *)
(* always writes.                                                          *)
BeginUpdate(w, a, hosts, wish, always) ==
    /\ op[w] = NoOp /\ regOps < MaxRegOps
    /\ Gettable(a)
    /\ regOps' = regOps + 1
    /\ op' = [op EXCEPT ![w] = [art |-> a, hosts |-> hosts, wish |-> wish,
                 steps |-> IF always \/ hosts # meta[a].hosts THEN <<"meta0", "meta1", "ack">> ELSE <<"ack">>]]
    /\ disturbed' = IF Inflight(a) # {} THEN disturbed \cup {a} ELSE disturbed
    /\ UNCHANGED <<bin, meta, regCrashes, regFaults, expected, created, failed>>

AssignArtifact(w, a, h) ==
    BeginUpdate(w, a, Assigned(meta[a].hosts, h), expected[a] \cup {h}, FALSE)
UnassignArtifact(w, a, h) ==
    BeginUpdate(w, a, Unassigned(meta[a].hosts, h), expected[a] \ {h}, FALSE)
UpdateHosts(w, a, hosts) == BeginUpdate(w, a, hosts, Members(hosts), TRUE)

(* One file operation of a request, or its answer.                         *)
Step(w) ==
    /\ op[w] # NoOp
    /\ LET r == op[w]
           s == Head(r.steps)
       IN  /\ bin' = CASE s = "bin0" -> [bin EXCEPT ![r.art] = "cut"]
                       [] s = "bin1" -> [bin EXCEPT ![r.art] = "whole"]
                       [] OTHER      -> bin
           /\ meta' = CASE s = "meta0" -> [meta EXCEPT ![r.art] = Truncated]
                        [] s = "meta1" -> [meta EXCEPT ![r.art] = Written(@, r.hosts)]
                        [] OTHER       -> meta
           /\ created' = IF s = "ack" THEN created \cup {r.art} ELSE created
           /\ expected' = IF s = "ack" THEN [expected EXCEPT ![r.art] = r.wish] ELSE expected
           /\ op' = [op EXCEPT ![w] = IF Tail(r.steps) = << >> THEN NoOp ELSE [r EXCEPT !.steps = Tail(@)]]
    /\ UNCHANGED <<regOps, regCrashes, regFaults, disturbed, failed>>

(* A file operation fails and the request is answered with an error: the   *)
(* open leaves the file as it was, the write cuts what the open emptied.   *)
StepFails(w) ==
    /\ op[w] # NoOp /\ regFaults < MaxWriteFaults
    /\ LET r == op[w]
       IN  /\ Head(r.steps) # "ack"
           /\ IF Head(r.steps) = "meta1"
              THEN /\ \E n \in 0..Len(r.hosts) : meta' = [meta EXCEPT ![r.art] = CutShort(@, n)]
                   /\ failed' = failed \cup {r.art}
              ELSE UNCHANGED <<meta, failed>>
    /\ regFaults' = regFaults + 1
    /\ op' = [op EXCEPT ![w] = NoOp]
    /\ UNCHANGED <<bin, regOps, regCrashes, expected, created, disturbed>>

(* The process is killed; the files stay as they are.                      *)
KillRegistry ==
    /\ regCrashes < MaxRegCrashes
    /\ regCrashes' = regCrashes + 1
    /\ disturbed' = disturbed \cup {op[w].art : w \in {x \in RegWorkers : op[x] # NoOp}}
    /\ op' = [w \in RegWorkers |-> NoOp]
    /\ UNCHANGED <<bin, meta, regOps, regFaults, expected, created, failed>>

RegNext ==
    \/ \E w \in RegWorkers, a \in ArtIds :
          \/ StoreArtifact(w, a)
          \/ meta[a] # NoFile /\ \E h \in RegHosts : AssignArtifact(w, a, h) \/ UnassignArtifact(w, a, h)
          \/ \E hosts \in HostLists : UpdateHosts(w, a, hosts)
    \/ \E w \in RegWorkers : Step(w) \/ StepFails(w)
    \/ KillRegistry

RegSpec == RegInit /\ [][RegNext]_regVars
-----------------------------------------------------------------------------
(* What the registry serves is complete: an artifact whose metadata can be *)
(* read has its whole binary, although Get only looks whether the file is  *)
(* there, and the process may be killed between any two file operations.   *)
ServedIsWhole == \A a \in ArtIds : Gettable(a) => bin[a] = "whole"

(* An artifact whose updates came one after the other, none of them        *)
(* killed, is served to exactly the hosts the acknowledged requests left   *)
(* it assigned to (an open that failed changes nothing), or, once the      *)
(* write of an update failed, to none: a failed update loses the artifact  *)
(* for every host, and never leaves it with an old or a partial list.      *)
ForHostExact ==
    \A a \in created \ disturbed : Inflight(a) = {} =>
        \A h \in RegHosts : a \in ForHost(h) <=> a \notin failed /\ h \in expected[a]

(* Whatever is killed, fails or runs at once, the registry serves whole    *)
(* artifacts; and unless updates overlapped or were killed, to exactly the *)
(* hosts they were assigned to, or to none once a write of the metadata    *)
(* failed.                                                                 *)
ArtifactsSound ==
    /\ ServedIsWhole
    /\ ForHostExact
=============================================================================
