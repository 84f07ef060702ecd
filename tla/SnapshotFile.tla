---------------------------- MODULE SnapshotFile ----------------------------
(***************************************************************************)
(* The file protocol of Store.persist and Store.Load of the detection      *)
(* pipeline (backend/detection-pipeline/internal/store/store.go).          *)
(*                                                                         *)
(* Every mutation of the store ends in persist: marshal the maps, write    *)
(* the bytes to <path>.tmp, rename <path>.tmp over <path>.  The lock is    *)
(* released before the marshalling, so several handler goroutines may be   *)
(* in persist at the same time, and all of them use the SAME temporary     *)
(* name.  The module models the directory entries and the inodes behind    *)
(* them, because that is where the writers meet: os.WriteFile truncates an *)
(* existing temporary file in place, and os.Rename moves whatever inode    *)
(* the temporary name denotes at that moment.                              *)
(***************************************************************************)
EXTENDS Naturals, FiniteSets

CONSTANTS
    Writers,    \* the handler goroutines
    Contents,   \* the serialised snapshots
    Inodes,     \* the inodes the file system can allocate
    None,       \* "no such file", "no open file"
    Empty,      \* data of a file just created or truncated
    Torn        \* data that is no complete snapshot: Load fails on it

ASSUME NoneAssumption == None \notin Inodes
ASSUME DataAssumption == Empty \notin Contents /\ Torn \notin Contents /\ Empty # Torn
ASSUME InodesAssumption == IsFiniteSet(Inodes) /\ IsFiniteSet(Writers)

VARIABLES
    path,       \* the inode <path> names
    tmp,        \* the inode <path>.tmp names
    data,       \* the bytes of every inode
    pc,         \* where each writer is in persist
    snap,       \* the bytes a writer has marshalled
    fd,         \* the inode a writer has open
    acked,      \* the snapshot of the last persist that returned nil
    overlap     \* history: two writers were between marshal and rename at once

vars == <<path, tmp, data, pc, snap, fd, acked, overlap>>

Data == Contents \union {Empty, Torn}
Entry == Inodes \union {None}

TypeOK ==
    /\ path \in Entry
    /\ tmp \in Entry
    /\ data \in [Inodes -> Data]
    /\ pc \in [Writers -> {"idle", "open", "write", "rename"}]
    /\ snap \in [Writers -> Data]
    /\ fd \in [Writers -> Entry]
    /\ \A w \in Writers : fd[w] # None <=> pc[w] = "write"
    /\ acked \in Data
    /\ overlap \in BOOLEAN

Init ==
    /\ path = None
    /\ tmp = None
    /\ data = [i \in Inodes |-> Empty]
    /\ pc = [w \in Writers |-> "idle"]
    /\ snap = [w \in Writers |-> Empty]
    /\ fd = [w \in Writers |-> None]
    /\ acked = Empty
    /\ overlap = FALSE

Busy(w) == pc[w] # "idle"

(***************************************************************************)
(* json.MarshalIndent of the maps: the writer holds the bytes c.           *)
(***************************************************************************)
Marshal(w, c) ==
    /\ pc[w] = "idle"
    /\ pc' = [pc EXCEPT ![w] = "open"]
    /\ snap' = [snap EXCEPT ![w] = c]
    /\ overlap' = (overlap \/ \E v \in Writers \ {w} : Busy(v))
    /\ UNCHANGED <<path, tmp, data, fd, acked>>

(***************************************************************************)
(* os.WriteFile, first half: open with O_CREATE and O_TRUNC.  An existing  *)
(* temporary file is truncated in place, another writer's bytes included.  *)
(***************************************************************************)
Free == {i \in Inodes : i # path /\ i # tmp /\ \A w \in Writers : fd[w] # i}

\* Mutant: WriteFile on <path> itself, without the temporary file.
OpenTmp_InPlace(w) ==
    /\ pc[w] = "open"
    /\ \E i \in (IF path = None THEN Free ELSE {path}) :
          /\ tmp' = i
          /\ data' = [data EXCEPT ![i] = Empty]
          /\ fd' = [fd EXCEPT ![w] = i]
    /\ pc' = [pc EXCEPT ![w] = "write"]
    /\ UNCHANGED <<path, snap, acked, overlap>>

OpenTmp(w) ==
    /\ pc[w] = "open"
    /\ \E i \in (IF tmp = None THEN Free ELSE {tmp}) :
          /\ tmp' = i
          /\ data' = [data EXCEPT ![i] = Empty]
          /\ fd' = [fd EXCEPT ![w] = i]
    /\ pc' = [pc EXCEPT ![w] = "write"]
    /\ UNCHANGED <<path, snap, acked, overlap>>

(***************************************************************************)
(* os.WriteFile, second half: write from offset 0 and close.  Over bytes   *)
(* another writer has put there meanwhile the outcome is these bytes, or   *)
(* these bytes followed by the tail of the longer ones.                    *)
(***************************************************************************)
WriteOutcomes(i, c) == IF data[i] \in {Empty, c} THEN {c} ELSE {c, Torn}

WriteTmp(w) ==
    /\ pc[w] = "write"
    /\ \E d \in WriteOutcomes(fd[w], snap[w]) : data' = [data EXCEPT ![fd[w]] = d]
    /\ fd' = [fd EXCEPT ![w] = None]
    /\ pc' = [pc EXCEPT ![w] = "rename"]
    /\ UNCHANGED <<path, tmp, snap, acked, overlap>>

(***************************************************************************)
(* The write fails (disk full): persist returns the error, the temporary   *)
(* file stays behind with a part of the bytes.                             *)
(***************************************************************************)
WriteFails(w) ==
    /\ pc[w] = "write"
    /\ data' = [data EXCEPT ![fd[w]] = Torn]
    /\ fd' = [fd EXCEPT ![w] = None]
    /\ pc' = [pc EXCEPT ![w] = "idle"]
    /\ snap' = [snap EXCEPT ![w] = Empty]
    /\ UNCHANGED <<path, tmp, acked, overlap>>

(***************************************************************************)
(* os.Rename: <path> becomes the inode that <path>.tmp names now; when     *)
(* another writer has renamed it away already the call fails.              *)
(***************************************************************************)
Rename(w) ==
    /\ pc[w] = "rename"
    /\ IF tmp # None
         THEN /\ path' = tmp
              /\ tmp' = None
              /\ acked' = snap[w]
         ELSE UNCHANGED <<path, tmp, acked>>
    /\ pc' = [pc EXCEPT ![w] = "idle"]
    /\ snap' = [snap EXCEPT ![w] = Empty]
    /\ UNCHANGED <<data, fd, overlap>>

(***************************************************************************)
(* The process dies: its goroutines and open files are gone, the directory *)
(* and the inodes stay.                                                    *)
(***************************************************************************)
Crash ==
    /\ pc' = [w \in Writers |-> "idle"]
    /\ snap' = [w \in Writers |-> Empty]
    /\ fd' = [w \in Writers |-> None]
    /\ UNCHANGED <<path, tmp, data, acked, overlap>>

Next ==
    \/ \E w \in Writers :
          \/ \E c \in Contents : Marshal(w, c)
          \/ OpenTmp(w)
          \/ WriteTmp(w)
          \/ WriteFails(w)
          \/ Rename(w)
    \/ Crash

Spec == Init /\ [][Next]_vars

(***************************************************************************)
(* What Load would read now: nothing, a snapshot, or bytes it rejects.     *)
(***************************************************************************)
Load == IF path = None THEN Empty ELSE data[path]

Loadable == path # None => data[path] \in Contents

(***************************************************************************)
(* As long as no two persists have overlapped, the state file is a whole   *)
(* snapshot at every instant, whatever crash or failed write cuts a        *)
(* persist short (store.go:85-110).                                        *)
(***************************************************************************)
SerialPersistIsAtomic == ~overlap => Loadable

(***************************************************************************)
(* As long as no two persists have overlapped, what a restart loads is     *)
(* exactly the snapshot of the last persist that returned nil: nothing     *)
(* acknowledged is lost, nothing older comes back.                         *)
(***************************************************************************)
SerialPersistIsDurable == ~overlap => Load = acked

(***************************************************************************)
(* Without overlap only the writer in persist uses the temporary file.     *)
(***************************************************************************)
SerialExclusive ==
    ~overlap =>
       /\ \A v, w \in Writers : Busy(v) /\ Busy(w) => v = w
       /\ path # None => path # tmp
       /\ \A w \in Writers : Busy(w) => snap[w] \in Contents
       /\ \A w \in Writers : pc[w] = "write" => fd[w] = tmp /\ tmp # None /\ data[tmp] = Empty
       /\ \A w \in Writers : pc[w] = "rename" => tmp # None /\ data[tmp] = snap[w]

\* A writer holds marshalled bytes exactly while it is in persist.
SnapInPersist == \A w \in Writers : Busy(w) <=> snap[w] # Empty

Inv ==
    /\ TypeOK
    /\ SnapInPersist
    /\ SerialExclusive
    /\ SerialPersistIsAtomic
    /\ SerialPersistIsDurable

(***************************************************************************)
(* The store of DurableStore: a restart finds what Load reads, a client is *)
(* a writer, and what it has handed in are the bytes it has marshalled.    *)
(***************************************************************************)
Abstract == INSTANCE DurableStore
        WITH Clients <- Writers, Values <- Contents, Nothing <- Empty,
             stored <- Load, confirmed <- acked, inHand <- snap

(***************************************************************************)
(* As long as no two persists have overlapped, every step of the file      *)
(* protocol is one of the abstract store: nothing but the rename of a      *)
(* persist that succeeds changes what a restart would find, and that one   *)
(* at once with the answer (store.go:85-110).                              *)
(***************************************************************************)
SerialPersistIsAStore ==
    [][~overlap' => Abstract!StoreNext \/ UNCHANGED <<Load, acked, snap>>]_vars

(* What persist promises to the service that calls it: whatever is         *)
(* interrupted, a restart finds a whole snapshot, and the last             *)
(* acknowledged one, which changes as in a store without files.            *)
SerialPersistIsSafe ==
    /\ [](TypeOK /\ SerialPersistIsAtomic /\ SerialPersistIsDurable)
    /\ SerialPersistIsAStore
=============================================================================
