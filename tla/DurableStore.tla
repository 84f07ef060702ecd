---------------------------- MODULE DurableStore ----------------------------
(***************************************************************************)
(* What a caller of Store.persist (backend/detection-pipeline/internal/    *)
(* store/store.go) may rely on, with no file in sight: one stored value    *)
(* that changes in one step, to a value some client has handed in, and     *)
(* that survives whatever befalls the clients.  A client that gives up, or *)
(* dies, leaves the stored value as it was.                                *)
(*                                                                         *)
(* SnapshotFile implements it as long as no two persists overlap.          *)
(***************************************************************************)
CONSTANTS
    Clients,
    Values,
    Nothing         \* no value stored, no value in hand

VARIABLES
    stored,         \* what a restart would find
    confirmed,      \* the value of the last client that was told of success
    inHand          \* the value a client has handed in, while it waits

storeVars == <<stored, confirmed, inHand>>

StoreInit ==
    /\ stored = Nothing
    /\ confirmed = Nothing
    /\ inHand = [c \in Clients |-> Nothing]

HandIn(c, v) ==
    /\ inHand[c] = Nothing
    /\ inHand' = [inHand EXCEPT ![c] = v]
    /\ UNCHANGED <<stored, confirmed>>

\* The value is stored and the client told so.
Commit(c) ==
    /\ inHand[c] # Nothing
    /\ stored' = inHand[c]
    /\ confirmed' = inHand[c]
    /\ inHand' = [inHand EXCEPT ![c] = Nothing]

\* The client is told of a failure.
GiveUp(c) ==
    /\ inHand[c] # Nothing
    /\ inHand' = [inHand EXCEPT ![c] = Nothing]
    /\ UNCHANGED <<stored, confirmed>>

\* The clients are gone at once, nobody is told anything.
Restart ==
    /\ inHand' = [c \in Clients |-> Nothing]
    /\ UNCHANGED <<stored, confirmed>>

StoreNext ==
    \/ \E c \in Clients :
          \/ \E v \in Values : HandIn(c, v)
          \/ Commit(c)
          \/ GiveUp(c)
    \/ Restart

StoreSpec == StoreInit /\ [][StoreNext]_storeVars
=============================================================================
