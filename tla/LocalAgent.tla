----------------------------- MODULE LocalAgent -----------------------------
(***************************************************************************)
(* The life of eBPF programs in the local agent                            *)
(* (agents/local-agent/internal/agent/agent.go over internal/bpf/loader.go *)
(* and internal/rollback/manager.go).  Every poll of the registry starts   *)
(* one goroutine per artifact that loads it; a TTL timer, the minute       *)
(* ticker and the rollback callback each start one that unloads it.        *)
(*                                                                         *)
(* A program is recorded in four places: Agent.loadedPrograms, the map of  *)
(* the loader, the map of the rollback manager, and the TTL timers.  Each  *)
(* has its own lock (the loader's none) and a goroutine updates them one   *)
(* after the other, so a load and an unload of one artifact interleave.    *)
(* Two goroutines in the loader's map at once may make the Go runtime      *)
(* abort the process, which then starts again from Init.                   *)
(***************************************************************************)
EXTENDS Naturals, FiniteSets

CONSTANTS
    Arts,           \* artifact ids
    Workers,        \* goroutines; bounds how many run at once
    MaxPrograms,    \* AGENT_MAX_PROGRAMS
    None

ASSUME LocalAgentAssumption == MaxPrograms \in Nat /\ None \notin Arts
ASSUME WorkersAssumption == IsFiniteSet(Workers)

VARIABLES
    loaded,         \* Agent.loadedPrograms
    inLoader,       \* Loader.programs
    registered,     \* RollbackManager.loadedPrograms
    timer,          \* Agent.ttlTimers: no entry, running, or fired
    at,             \* the next step of each goroutine
    art,            \* the artifact it works on
    overlap         \* history: artifacts two goroutines have worked on at once

maps == <<loaded, inLoader, registered, timer>>
vars == <<maps, at, art, overlap>>

LoadSteps == {"limit", "load", "store", "register", "timer"}
UnloadSteps == {"delete", "unregister", "unload", "cancel"}
Steps == {"idle"} \union LoadSteps \union UnloadSteps

TypeOK ==
    /\ loaded \subseteq Arts
    /\ inLoader \subseteq Arts
    /\ registered \subseteq Arts
    /\ timer \in [Arts -> {"none", "armed", "fired"}]
    /\ at \in [Workers -> Steps]
    /\ art \in [Workers -> Arts \union {None}]
    /\ \A w \in Workers : at[w] = "idle" <=> art[w] = None
    /\ overlap \subseteq Arts

Init ==
    /\ loaded = {}
    /\ inLoader = {}
    /\ registered = {}
    /\ timer = [a \in Arts |-> "none"]
    /\ at = [w \in Workers |-> "idle"]
    /\ art = [w \in Workers |-> None]
    /\ overlap = {}

Working(a) == {w \in Workers : art[w] = a}

(***************************************************************************)
(* Control: a goroutine starts at step n on artifact a, goes on, or ends.  *)
(***************************************************************************)
Start(w, n, a) ==
    /\ at[w] = "idle"
    /\ at' = [at EXCEPT ![w] = n]
    /\ art' = [art EXCEPT ![w] = a]
    /\ overlap' = IF Working(a) # {} THEN overlap \union {a} ELSE overlap

GoOn(w, n) == at' = [at EXCEPT ![w] = n] /\ UNCHANGED <<art, overlap>>

Finish(w) ==
    /\ at' = [at EXCEPT ![w] = "idle"]
    /\ art' = [art EXCEPT ![w] = None]
    /\ UNCHANGED overlap

(***************************************************************************)
(* processArtifact: is it loaded already, is the limit reached; download,  *)
(* verify and load, any of which may fail; then the four records.          *)
(***************************************************************************)
ProcessArtifact(w, a) ==
    /\ a \notin loaded
    /\ Start(w, "limit", a)
    /\ UNCHANGED maps

\* Mutant: one program too many passes.
CheckLimit_OffByOne(w) ==
    /\ at[w] = "limit"
    /\ IF Cardinality(loaded) <= MaxPrograms THEN GoOn(w, "load") ELSE Finish(w)
    /\ UNCHANGED maps

CheckLimit(w) ==
    /\ at[w] = "limit"
    /\ IF Cardinality(loaded) < MaxPrograms THEN GoOn(w, "load") ELSE Finish(w)
    /\ UNCHANGED maps

LoadFails(w) ==
    /\ at[w] = "load"
    /\ Finish(w)
    /\ UNCHANGED maps

LoadProgram(w) ==
    /\ at[w] = "load"
    /\ inLoader' = inLoader \union {art[w]}
    /\ GoOn(w, "store")
    /\ UNCHANGED <<loaded, registered, timer>>

StoreProgram(w) ==
    /\ at[w] = "store"
    /\ loaded' = loaded \union {art[w]}
    /\ GoOn(w, "register")
    /\ UNCHANGED <<inLoader, registered, timer>>

RegisterProgram(w) ==
    /\ at[w] = "register"
    /\ registered' = registered \union {art[w]}
    /\ GoOn(w, "timer")
    /\ UNCHANGED <<loaded, inLoader, timer>>

SetTTLTimer(w) ==
    /\ at[w] = "timer"
    /\ timer' = [timer EXCEPT ![art[w]] = "armed"]
    /\ Finish(w)
    /\ UNCHANGED <<loaded, inLoader, registered>>

(***************************************************************************)
(* What starts an unload: the timer of the artifact, the minute ticker     *)
(* that looks for programs past their TTL, and a rollback event of a       *)
(* program the rollback manager knows (handleRollbackEvent).               *)
(***************************************************************************)
TimerFires(w, a) ==
    /\ timer[a] = "armed"
    /\ Start(w, "delete", a)
    /\ timer' = [timer EXCEPT ![a] = "fired"]
    /\ UNCHANGED <<loaded, inLoader, registered>>

\* Mutant: the ticker looks at the timers instead of the programs.
CheckTTLExpiration_Timers(w, a) ==
    /\ timer[a] = "armed"
    /\ a \in loaded
    /\ Start(w, "delete", a)
    /\ UNCHANGED maps

CheckTTLExpiration(w, a) ==
    /\ a \in loaded
    /\ Start(w, "delete", a)
    /\ UNCHANGED maps

HandleRollbackEvent(w, a) ==
    /\ a \in registered
    /\ Start(w, "delete", a)
    /\ UNCHANGED maps

(***************************************************************************)
(* unloadProgram.  It stops at an artifact that is not recorded as loaded, *)
(* and at one the loader does not know, leaving the timer alone.           *)
(***************************************************************************)
\* Mutant: the agent forgets the program even if it did not know it.
DeleteProgram_Unchecked(w) ==
    /\ at[w] = "delete"
    /\ loaded' = loaded \ {art[w]}
    /\ Finish(w)
    /\ UNCHANGED <<inLoader, registered, timer>>

DeleteProgram(w) ==
    /\ at[w] = "delete"
    /\ loaded' = loaded \ {art[w]}
    /\ IF art[w] \in loaded THEN GoOn(w, "unregister") ELSE Finish(w)
    /\ UNCHANGED <<inLoader, registered, timer>>

UnregisterProgram(w) ==
    /\ at[w] = "unregister"
    /\ registered' = registered \ {art[w]}
    /\ GoOn(w, "unload")
    /\ UNCHANGED <<loaded, inLoader, timer>>

UnloadProgram(w) ==
    /\ at[w] = "unload"
    /\ inLoader' = inLoader \ {art[w]}
    /\ IF art[w] \in inLoader THEN GoOn(w, "cancel") ELSE Finish(w)
    /\ UNCHANGED <<loaded, registered, timer>>

CancelTTLTimer(w) ==
    /\ at[w] = "cancel"
    /\ timer' = [timer EXCEPT ![art[w]] = "none"]
    /\ Finish(w)
    /\ UNCHANGED <<loaded, inLoader, registered>>

Proceed(w) ==
    \/ CheckLimit(w)
    \/ LoadFails(w)
    \/ LoadProgram(w)
    \/ StoreProgram(w)
    \/ RegisterProgram(w)
    \/ SetTTLTimer(w)
    \/ DeleteProgram(w)
    \/ UnregisterProgram(w)
    \/ UnloadProgram(w)
    \/ CancelTTLTimer(w)

Next ==
    \E w \in Workers :
       \/ Proceed(w)
       \/ \E a \in Arts :
             \/ ProcessArtifact(w, a)
             \/ TimerFires(w, a)
             \/ CheckTTLExpiration(w, a)
             \/ HandleRollbackEvent(w, a)

Spec == Init /\ [][Next]_vars

(***************************************************************************)
(* A goroutine that can run does run; the ticker keeps ticking and every   *)
(* TTL ends.  The ticker starts a goroutine whenever it wants one; strong  *)
(* fairness keeps the bound on their number out of the argument.           *)
(***************************************************************************)
Fairness ==
    /\ \A w \in Workers : WF_vars(Proceed(w))
    /\ \A a \in Arts : SF_vars(\E w \in Workers : CheckTTLExpiration(w, a))
FairSpec == Spec /\ Fairness
-----------------------------------------------------------------------------
(***************************************************************************)
(* No program stays in the kernel unknown to the agent: one the loader has *)
(* is recorded as loaded, or a goroutine is about to record it or to       *)
(* unload it, however loads and unloads interleave.                        *)
(***************************************************************************)
NoOrphan ==
    \A a \in inLoader :
       \/ a \in loaded
       \/ \E w \in Workers : art[w] = a /\ at[w] \in {"store", "unregister", "unload"}

(***************************************************************************)
(* As long as no two goroutines have worked on an artifact at once, the    *)
(* four records agree about it whenever none is at work: known to the      *)
(* agent, in the loader, monitored, with a running timer; or none of it.   *)
(***************************************************************************)
SerialConsistent ==
    \A a \in Arts : a \notin overlap /\ Working(a) = {} =>
       /\ a \in loaded <=> a \in inLoader
       /\ a \in loaded <=> a \in registered
       /\ a \in loaded <=> timer[a] = "armed"

(***************************************************************************)
(* Every loaded program is unloaded again, even when a race has lost its   *)
(* timer: the ticker finds it (README.md:11).                              *)
(***************************************************************************)
TTLEnforced == \A a \in Arts : a \in loaded ~> a \notin loaded

(***************************************************************************)
(* The number of loaded programs is tested long before a program is        *)
(* stored, so AGENT_MAX_PROGRAMS (README.md:105) may be exceeded; but only *)
(* by what the other goroutines running at the time had in hand.           *)
(***************************************************************************)
OverrunBounded ==
    MaxPrograms > 0 => Cardinality(loaded) <= MaxPrograms + Cardinality(Workers) - 1

(* However loads, timers and unloads interleave, no program runs unknown   *)
(* to the agent, and the four records of an artifact agree unless two      *)
(* goroutines worked on it at once.                                        *)
ProgramsSound ==
    /\ TypeOK
    /\ NoOrphan
    /\ SerialConsistent
=============================================================================
