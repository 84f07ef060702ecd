---------------------------- MODULE CorrelatorRules ----------------------------
(***************************************************************************)
(* The correlator's rules (src/backend/correlator/internal/rules:          *)
(* loader.go, model.go) and the handlers that change them                  *)
(* (internal/api/http.go).                                                 *)
(*                                                                         *)
(* The directory of rule files is edited from outside.  A watcher polls    *)
(* modification times and signals a one-slot channel; a second goroutine   *)
(* takes the signal and (re)arms a timer; the timer's function, like the   *)
(* HTTP handlers, runs LoadSnapshot in its own goroutine.  A load reads    *)
(* the files without a lock and publishes its result later, so two loads   *)
(* may publish in the wrong order.  A poll or a load that meets an error   *)
(* gives up, and nobody tries it again.                                    *)
(***************************************************************************)
EXTENDS Integers, FiniteSets, Sequences

CONSTANTS RuleFiles,    \* number of rule files; file i sorts before file i+1
          RuleIds,
          RuleSeverities,
          MaxEdits,     \* bound: changes of the directory
          MaxLoads,     \* bound: loads under way
          MaxReadFaults,\* bound: polls and loads that meet an error
          NoRule        \* a file that is absent or does not parse

ASSUME RulesAssumption ==
    RuleFiles \in Nat \ {0} /\ RuleSeverities # {} /\ MaxReadFaults \in Nat

VARIABLES ruleDir,    \* what each file holds
          fileTime,   \* modification time of each file
          edits,      \* number of changes made; the time of the latest
          polled,     \* watcher: latest modification time seen
          signal,     \* the one-slot reload channel
          timer,      \* the debounce timer is armed
          loads,      \* loads that have read the files and not published
          snapshot,   \* the published rules, and the time they were read
          overlapped, \* history: two loads were under way at once
          givenUp,    \* history: modifications up to this time were seen by a
                      \* poll that failed, or by one whose reload failed
          readFaults  \* number of errors met

ruleVars == <<ruleDir, fileTime, edits, polled, signal, timer, loads, snapshot,
              overlapped, givenUp, readFaults>>

Files == 1..RuleFiles

(* A rule that is disabled or does not validate is not fit: skipped. *)
RuleDef == [id: RuleIds, sev: RuleSeverities, fit: BOOLEAN]

Loadable(d) == d # NoRule /\ d.fit

(* LoadSnapshot on what the directory holds: files in name order, rules    *)
(* that are disabled or invalid skipped, a later file replacing an earlier *)
(* rule of the same ID.                                                    *)
Overridden(before, d) ==
    IF ~Loadable(d) THEN before
    ELSE [id \in DOMAIN before \cup {d.id} |-> IF id = d.id THEN d.sev ELSE before[id]]

LoadedUpTo(dir) ==
    LET Step[f \in 0..RuleFiles] ==
            IF f = 0 THEN << >> ELSE Overridden(Step[f - 1], dir[f])
    IN  Step

Loaded(dir) == LoadedUpTo(dir)[RuleFiles]

(* What a load reads; a file it cannot read is skipped like an absent one. *)
Readable(unread) == [f \in Files |-> IF f \in unread THEN NoRule ELSE ruleDir[f]]

Read(unread) == [rules |-> Loaded(Readable(unread)), at |-> edits, unread |-> unread]

(* The loader is created and loads once before anything else starts. *)
RulesInit ==
    /\ ruleDir \in [Files -> {NoRule} \cup [id: RuleIds, sev: {CHOOSE s \in RuleSeverities : TRUE},
                                            fit: {TRUE}]]
    /\ fileTime = [f \in Files |-> 0] /\ edits = 0
    /\ polled = 0 /\ signal = FALSE /\ timer = FALSE
    /\ loads = {} /\ snapshot = Read({}) /\ overlapped = FALSE
    /\ givenUp = 0 /\ readFaults = 0

(* The operator writes a rule file; its modification time is new. *)
WriteFile(f, d) ==
    /\ edits < MaxEdits
    /\ edits' = edits + 1
    /\ ruleDir' = [ruleDir EXCEPT ![f] = d]
    /\ fileTime' = [fileTime EXCEPT ![f] = edits']
    /\ UNCHANGED <<polled, signal, timer, loads, snapshot, overlapped, givenUp, readFaults>>

(* The operator removes a rule file: no modification time is new. *)
DeleteFile(f) ==
    /\ edits < MaxEdits /\ ruleDir[f] # NoRule
    /\ edits' = edits + 1
    /\ ruleDir' = [ruleDir EXCEPT ![f] = NoRule]
    /\ fileTime' = [fileTime EXCEPT ![f] = 0]
    /\ UNCHANGED <<polled, signal, timer, loads, snapshot, overlapped, givenUp, readFaults>>

(* The newest modification time among files, if the watcher has not yet    *)
(* seen a newer one.                                                       *)
SeenAmong(files) ==
    LET times == {polled} \cup {fileTime[f] : f \in files}
    IN  CHOOSE t \in times : \A u \in times : t >= u

(* watchFiles: one poll that finds a file newer than any seen before; the  *)
(* signal is dropped when the channel already holds one.                   *)
WatchFiles ==
    /\ \E f \in Files : fileTime[f] > polled
    /\ polled' = SeenAmong(Files)
    /\ signal' = TRUE
    /\ UNCHANGED <<ruleDir, fileTime, edits, timer, loads, snapshot, overlapped, givenUp, readFaults>>

(* watchFiles, one poll that fails after the files up to f: lastModTime    *)
(* has taken in what the walk had seen, and no signal is sent for it.      *)
WatchFilesFails(f) ==
    /\ readFaults < MaxReadFaults /\ readFaults' = readFaults + 1
    /\ polled' = SeenAmong(1..f)
    /\ givenUp' = IF polled' > polled THEN polled' ELSE givenUp
    /\ UNCHANGED <<ruleDir, fileTime, edits, signal, timer, loads, snapshot, overlapped>>

DebouncedReloadStops ==
    /\ signal
    /\ signal' = FALSE /\ timer' = ~timer
    /\ UNCHANGED <<ruleDir, fileTime, edits, polled, loads, snapshot, overlapped, givenUp, readFaults>>

(* debouncedReload: the signal stops an armed timer and arms a new one. *)
DebouncedReload ==
    /\ signal
    /\ signal' = FALSE /\ timer' = TRUE
    /\ UNCHANGED <<ruleDir, fileTime, edits, polled, loads, snapshot, overlapped, givenUp, readFaults>>

(* LoadSnapshot up to its lock, with the files it fails to read.           *)
StartLoad ==
    \E unread \in SUBSET Files :
        /\ Cardinality(loads) < MaxLoads
        /\ readFaults + Cardinality(unread) <= MaxReadFaults
        /\ readFaults' = readFaults + Cardinality(unread)
        /\ loads' = loads \cup {Read(unread)}
        /\ overlapped' = (overlapped \/ loads # {})

(* The timer fires; handleReloadRules and handleAddRule call LoadSnapshot  *)
(* too (the rule posted to handleAddRule is only validated).               *)
TimerFires ==
    /\ timer /\ timer' = FALSE
    /\ StartLoad
    /\ UNCHANGED <<ruleDir, fileTime, edits, polled, signal, snapshot, givenUp>>

HandleReloadRules ==
    /\ StartLoad
    /\ UNCHANGED <<ruleDir, fileTime, edits, polled, signal, timer, snapshot, givenUp>>

(* The timer's LoadSnapshot cannot list the directory: the error is logged *)
(* and the snapshot stays.  (A request that fails so changes nothing.)     *)
TimerLoadFails ==
    /\ timer /\ timer' = FALSE
    /\ readFaults < MaxReadFaults /\ readFaults' = readFaults + 1
    /\ givenUp' = polled
    /\ UNCHANGED <<ruleDir, fileTime, edits, polled, signal, loads, snapshot, overlapped>>

(* The end of LoadSnapshot: whatever the load read replaces the snapshot. *)
PublishSnapshot(l) ==
    /\ l \in loads
    /\ loads' = loads \ {l}
    /\ snapshot' = l
    /\ UNCHANGED <<ruleDir, fileTime, edits, polled, signal, timer, overlapped, givenUp, readFaults>>

RulesNext ==
    \/ \E f \in Files, d \in RuleDef \cup {NoRule} : WriteFile(f, d)
    \/ \E f \in Files : DeleteFile(f) \/ WatchFilesFails(f)
    \/ WatchFiles \/ DebouncedReload \/ TimerFires \/ TimerLoadFails \/ HandleReloadRules
    \/ \E l \in loads : PublishSnapshot(l)

RulesSpec == RulesInit /\ [][RulesNext]_ruleVars

(* The watcher's ticker, the reload goroutine, the timer and every load    *)
(* run.  MaxLoads may hold the timer up again and again where the code     *)
(* does not: it fires if it can infinitely often.                          *)
RulesFairness ==
    /\ WF_ruleVars(WatchFiles) /\ WF_ruleVars(DebouncedReload) /\ SF_ruleVars(TimerFires)
    /\ WF_ruleVars(\E l \in loads : PublishSnapshot(l))

-----------------------------------------------------------------------------

(* LoadSnapshot's "filename override wins": in every snapshot a rule ID    *)
(* has the severity of the last file, by name, that held it enabled and    *)
(* valid when the load read the directory, and an ID without such a file   *)
(* is absent; files the load could not read count for nothing.             *)
LastFileWins ==
    \A l \in loads \cup {snapshot} : l.at = edits =>
        LET good == {f \in Files \ l.unread : Loadable(ruleDir[f])}
        IN  /\ DOMAIN l.rules = {ruleDir[f].id : f \in good}
            /\ \A f \in good :
                  (\A g \in good : g > f => ruleDir[g].id # ruleDir[f].id)
                     => l.rules[ruleDir[f].id] = ruleDir[f].sev

(* The poll, the channel that drops signals and the timer that is stopped  *)
(* and armed again lose no change: when all of them are at rest and loads  *)
(* never overlapped, the snapshot was read after the newest modification   *)
(* the watcher saw, unless the last poll or the last reload failed.        *)
NoticedIsLoaded ==
    (~signal /\ ~timer /\ loads = {} /\ ~overlapped) => snapshot.at >= polled \/ givenUp = polled

(* Once the operator stops editing, the rules in force were read after     *)
(* every file was last written, through the poll, the one-slot channel,    *)
(* the debounce timer and reloads by request; only loads that overlapped   *)
(* may leave an older snapshot behind, and an edit that a failing poll or  *)
(* reload took up stays out until a later edit is noticed, as the rules of *)
(* a file that the load could not read do (watchFiles, debouncedReload).   *)
EditsAreLoaded ==
    <>[](overlapped \/ \A f \in Files : snapshot.at >= fileTime[f] \/ fileTime[f] <= givenUp)

(* The rules in force are those of the files: the later file wins, what    *)
(* the watcher noticed is not forgotten, and every edit it can notice      *)
(* after an error is loaded in the end.                                    *)
RulesFollowFiles ==
    /\ [](LastFileWins /\ NoticedIsLoaded)
    /\ EditsAreLoaded
=============================================================================
