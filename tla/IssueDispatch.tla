--------------------------- MODULE IssueDispatch ----------------------------
(* Fresh dispatch of one repository's issues: the claim protocol of
   orchestration/dispatch_state.py (filter, claim, launch, record), the guards
   create_worktree puts in front of a launch (worktree.py), the sidecar and
   marker a launch leaves behind (claude_code.py), and what moves the same
   entries meanwhile: the dead-worker reclaim, reconcile's stale-claim fix and
   the operator's claim.

   A pass holds the fleet launch lock from its permit to the end of its launches
   when the fleet cap is enabled (Locked; FleetLaunch models that lock), and
   state_lock around each read-modify-write of state.json only.  The filter and
   the claim are two separate holds; so are the claim and the record.  Re-arming
   an escalated issue and repairing its label are left out.  Pull requests do
   not merge here, so what the filter's hold also does for merged ones
   (finalization, mention flags, dispatch_state.py 692-826) has nothing to do. *)
EXTENDS Naturals, FiniteSets

CONSTANTS
    Issues,       \* open issues of the repository
    Passes,       \* processes running dispatch over the repository
    Sessions,     \* identities (pid + start time) of worker processes
    Locked,       \* the fleet cap is enabled, so the fleet launch lock exists
    MayCrash,     \* passes that may die at any instruction
    Cap,          \* watchdog.max_auto_redispatch
    MaxReaps,     \* watchdog.max_foreign_writer_reaps
    Slots,        \* bound: launches a permit grants at most
    Claimable,    \* bound: issues an operator claims
    NoPass, NoIssue, NoSession,
    Operator      \* the session named by an operator's worktree marker

ASSUME DispatchAssumption ==
    /\ Locked \in BOOLEAN /\ MayCrash \subseteq Passes /\ Claimable \subseteq Issues
    /\ Cap \in Nat /\ MaxReaps \in Nat /\ Slots \in Nat \ {0}
    /\ NoPass \notin Passes /\ NoIssue \notin Issues
    /\ NoSession \notin Sessions /\ Operator \notin Sessions \cup {NoSession}

VARIABLES
    (* state.json, one entry per issue *)
    status,      \* "none" stands for a missing entry or status
    aged,        \* dispatch_pending claims older than 30 minutes
    pid,         \* worker_pid + worker_process_start_time
    failed,      \* dispatch_failed_at, the attempts inside the window
    blocked,     \* blocked_environment_at, likewise
    reaps,       \* foreign_writer_reaps, likewise
    redispatched,\* redispatch_at, likewise
    claimed,     \* issues with operator_claimed_at
    (* GitHub *)
    ready,       \* issues carrying the ready label
    active,      \* issues carrying an active label (in-progress)
    parked,      \* issues carrying a terminal label (operator-queue)
    hasPR,       \* issues whose worker opened a pull request
    (* the disk *)
    sidecar,     \* live pid the session sidecar of the issue records
    renamed,     \* issues whose sidecar was rewritten by a launch that failed
    marker,      \* session the worktree's writer marker names
    tree,        \* the issue's worktree
    (* processes *)
    runs,        \* the issue a worker process is working on
    command,     \* what `charlie claim` is in the middle of, per issue
    owed,        \* reclaims whose relabel is still to be written
    fleetLock, stateLock,
    pc,
    batch,       \* the pass's issues: listed, then candidates, then claimed
    liveSeen,    \* live_worker_issues
    prSeen,      \* pr_by_issue
    recovers,    \* claimed issues whose previous entry was "dispatched"
    todo,        \* claimed issues not launched yet, then not recorded yet
    current,     \* the issue being launched or recorded
    result,      \* dispatch_results, by issue
    got,         \* the session a result names
    (* history, which no program reads *)
    lost         \* workers no entry came to name: their pass died before it wrote
                 \* the sidecar, or their claim went stale before it was recorded

vars == <<status, aged, pid, failed, blocked, reaps, redispatched, claimed,
          ready, active, parked, hasPR, sidecar, renamed, marker, tree, runs, command,
          owed, fleetLock, stateLock, pc, batch, liveSeen, prSeen, recovers,
          todo, current, result, got, lost>>

entryVars  == <<status, aged, pid, failed, blocked, reaps, redispatched, claimed>>
githubVars == <<ready, active, parked, hasPR>>
diskVars   == <<sidecar, renamed, marker, tree>>
lockVars   == <<fleetLock, stateLock>>
passVars   == <<pc, batch, liveSeen, prSeen, recovers, todo, current, result, got>>
otherVars  == <<command, owed, lost>>

Statuses == {"none", "dispatch_pending", "dispatched", "dispatch_failed",
             "escalated", "passive"}
Results  == {"none", "ok", "averted", "live", "phantom", "blocked", "unsafe",
             "failed", "gated"}
Locations == {"idle", "listed", "permitted", "scanned", "filtered", "claimed",
              "launching", "spawned", "marked", "record", "label"}

\* The entries, the labels and what each pass holds of them are well formed.
TypeOK ==
    /\ status \in [Issues -> Statuses]
    /\ aged \in SUBSET Issues /\ claimed \in SUBSET Issues
    /\ pid \in [Issues -> Sessions \cup {NoSession}]
    /\ failed \in [Issues -> Nat] /\ blocked \in [Issues -> Nat]
    /\ reaps \in [Issues -> Nat] /\ redispatched \in [Issues -> Nat]
    /\ ready \in SUBSET Issues /\ active \in SUBSET Issues
    /\ parked \in SUBSET Issues /\ hasPR \in SUBSET Issues
    /\ sidecar \in [Issues -> Sessions \cup {NoSession}]
    /\ renamed \in SUBSET Issues
    /\ marker \in [Issues -> Sessions \cup {NoSession, Operator}]
    /\ tree \in [Issues -> {"absent", "pristine", "work"}]
    /\ runs \in [Sessions -> Issues \cup {NoIssue}]
    /\ command \in [Issues -> {"none", "claim", "release"}]
    /\ owed \in SUBSET Issues /\ lost \in SUBSET Sessions
    /\ fleetLock \in Passes \cup {NoPass} /\ stateLock \in Passes \cup {NoPass}
    /\ pc \in [Passes -> Locations]
    /\ batch \in [Passes -> SUBSET Issues] /\ liveSeen \in [Passes -> SUBSET Issues]
    /\ prSeen \in [Passes -> SUBSET Issues] /\ recovers \in [Passes -> SUBSET Issues]
    /\ todo \in [Passes -> SUBSET Issues]
    /\ current \in [Passes -> Issues \cup {NoIssue}]
    /\ result \in [Passes -> [Issues -> Results]]
    /\ got \in [Passes -> [Issues -> Sessions \cup {NoSession}]]

Init ==
    /\ status = [i \in Issues |-> "none"] /\ aged = {} /\ claimed = {}
    /\ pid = [i \in Issues |-> NoSession]
    /\ failed = [i \in Issues |-> 0] /\ blocked = [i \in Issues |-> 0]
    /\ reaps = [i \in Issues |-> 0] /\ redispatched = [i \in Issues |-> 0]
    /\ ready = Issues /\ active = {} /\ parked = {} /\ hasPR = {}
    /\ sidecar = [i \in Issues |-> NoSession] /\ renamed = {}
    /\ marker = [i \in Issues |-> NoSession]
    /\ tree = [i \in Issues |-> "absent"]
    /\ runs = [s \in Sessions |-> NoIssue]
    /\ command = [i \in Issues |-> "none"] /\ owed = {} /\ lost = {}
    /\ fleetLock = NoPass /\ stateLock = NoPass
    /\ pc = [p \in Passes |-> "idle"]
    /\ batch = [p \in Passes |-> {}] /\ liveSeen = [p \in Passes |-> {}]
    /\ prSeen = [p \in Passes |-> {}] /\ recovers = [p \in Passes |-> {}]
    /\ todo = [p \in Passes |-> {}] /\ current = [p \in Passes |-> NoIssue]
    /\ result = [p \in Passes |-> [i \in Issues |-> "none"]]
    /\ got = [p \in Passes |-> [i \in Issues |-> NoSession]]

-----------------------------------------------------------------------------
Alive(s) == s \in Sessions /\ runs[s] # NoIssue

(* Sidecars and state.json read the same pid + start-time identity. *)
SidecarLive(i) == Alive(sidecar[i])
GhostAlive(i)  == Alive(pid[i])

StateFree == stateLock = NoPass

(* One more attempt in a window.  Bound: attempts beyond the first one over the
   cap are not told apart, no code does. *)
OneMore(n) == IF n > Cap THEN n ELSE n + 1

Goto(p, l) == pc' = [pc EXCEPT ![p] = l]

(* The pass is over, returned or dead, and its Python locals with it. *)
Over(p) ==
    /\ Goto(p, "idle")
    /\ batch' = [batch EXCEPT ![p] = {}] /\ liveSeen' = [liveSeen EXCEPT ![p] = {}]
    /\ prSeen' = [prSeen EXCEPT ![p] = {}] /\ recovers' = [recovers EXCEPT ![p] = {}]
    /\ todo' = [todo EXCEPT ![p] = {}] /\ current' = [current EXCEPT ![p] = NoIssue]
    /\ result' = [result EXCEPT ![p] = [i \in Issues |-> "none"]]
    /\ got' = [got EXCEPT ![p] = [i \in Issues |-> NoSession]]

(* A lock a process holds is released when it dies or lets go of it. *)
DropFleet(p) == fleetLock' = IF fleetLock = p THEN NoPass ELSE fleetLock
DropState(p) == stateLock' = IF stateLock = p THEN NoPass ELSE stateLock

-----------------------------------------------------------------------------
(* One pass. *)

(* issue_list of the ready label, before any lock: its labels may be stale by
   the time the pass filters them. *)
List(p) ==
    /\ pc[p] = "idle"
    /\ batch' = [batch EXCEPT ![p] = ready \ (active \cup parked)]
    /\ Goto(p, "listed")
    /\ UNCHANGED <<entryVars, githubVars, diskVars, runs, otherVars, lockVars,
                   liveSeen, prSeen, recovers, todo, current, result, got>>

(* The worker-launch permit; without a fleet cap its lock is a no-op handle. *)
Permit(p) ==
    /\ pc[p] = "listed"
    /\ Locked => fleetLock = NoPass
    /\ fleetLock' = IF Locked THEN p ELSE fleetLock
    /\ Goto(p, "permitted")
    /\ UNCHANGED <<entryVars, githubVars, diskVars, runs, otherVars, stateLock,
                   batch, liveSeen, prSeen, recovers, todo, current, result, got>>

(* The permit is deferred: throttled, paused, at the cap, or the lock is held. *)
Defer(p) ==
    /\ pc[p] = "listed"
    /\ Over(p)
    /\ UNCHANGED <<entryVars, githubVars, diskVars, runs, otherVars, lockVars>>

(* live_issue_numbers and pr_list. *)
Scan(p) ==
    /\ pc[p] = "permitted"
    /\ liveSeen' = [liveSeen EXCEPT ![p] = {i \in Issues : SidecarLive(i)}]
    /\ prSeen' = [prSeen EXCEPT ![p] = hasPR]
    /\ Goto(p, "scanned")
    /\ UNCHANGED <<entryVars, githubVars, diskVars, runs, otherVars, lockVars,
                   batch, recovers, todo, current, result, got>>

(* Mutant: the filter forgets that a fresh claim is live. *)
LiveWithoutClaims(p) ==
    {i \in Issues : status[i] = "dispatched" /\ (i \in liveSeen[p] \cup prSeen[p] \/ GhostAlive(i))}

(* live_dispatched: a fresh claim, or a launch whose worker lives or whose pull
   request is open. *)
LiveDispatched(p) ==
    {i \in Issues :
        \/ status[i] = "dispatch_pending" /\ i \notin aged
        \/ status[i] = "dispatched" /\ (i \in liveSeen[p] \cup prSeen[p] \/ GhostAlive(i))}

(* dispatch_blocked: escalated, or out of retries. *)
DispatchBlocked ==
    {i \in Issues : \/ status[i] = "escalated"
                    \/ status[i] = "dispatch_failed" /\ failed[i] > Cap}

(* Sessions that stalled and issues that wait for others only make the set
   smaller; Selections, which may pick any part of it, covers both. *)
Candidates(p) == batch[p] \ (LiveDispatched(p) \cup DispatchBlocked \cup claimed \cup prSeen[p])

(* First hold of state_lock: the candidate filter, the last to read what the scan
   saw. *)
Filter(p) ==
    /\ pc[p] = "scanned" /\ StateFree
    /\ batch' = [batch EXCEPT ![p] = Candidates(p)]
    /\ liveSeen' = [liveSeen EXCEPT ![p] = {}] /\ prSeen' = [prSeen EXCEPT ![p] = {}]
    /\ Goto(p, "filtered")
    /\ UNCHANGED <<entryVars, githubVars, diskVars, runs, otherVars, lockVars,
                   recovers, todo, current, result, got>>

(* _select_dispatch_candidates over whatever the blocker filter leaves of C:
   fresh candidates fill the slots, a recovery retry takes one left over. *)
Selections(C) ==
    {S \in SUBSET C : /\ Cardinality(S) <= Slots
                      /\ Cardinality({i \in S : status[i] = "dispatched"}) <= 1}

(* Second hold of state_lock: the entries are reloaded, the selection made and
   claimed.  Nothing the filter read is checked again. *)
Claim(p) ==
    /\ pc[p] = "filtered" /\ StateFree
    /\ \E S \in Selections(batch[p]) :
        /\ batch' = [batch EXCEPT ![p] = S]
        /\ todo' = [todo EXCEPT ![p] = S]
        /\ recovers' = [recovers EXCEPT ![p] = {i \in S : status[i] = "dispatched"}]
        /\ status' = [i \in Issues |-> IF i \in S THEN "dispatch_pending" ELSE status[i]]
        /\ aged' = aged \ S
    /\ Goto(p, "claimed")
    /\ UNCHANGED <<pid, failed, blocked, reaps, redispatched, claimed, githubVars,
                   diskVars, runs, otherVars, lockVars, liveSeen, prSeen,
                   current, result, got>>

(* The cross-repository gates, outside every lock. *)
Gate(p) ==
    /\ pc[p] = "claimed"
    /\ \E stopped \in SUBSET batch[p] :
        /\ result' = [result EXCEPT ![p] = [i \in Issues |-> IF i \in stopped THEN "gated" ELSE "none"]]
        /\ todo' = [todo EXCEPT ![p] = @ \ stopped]
    /\ Goto(p, "launching")
    /\ UNCHANGED <<entryVars, githubVars, diskVars, runs, otherVars, lockVars,
                   batch, liveSeen, prSeen, recovers, current, got>>

-----------------------------------------------------------------------------
(* Launching: create_worktree and its guards, Popen, the marker, the sidecar. *)

(* The marker names a live process that no sidecar of ours records under it. *)
ForeignWriter(i) == Alive(marker[i]) /\ ~(sidecar[i] = marker[i] /\ i \notin renamed)

OperatorHolds(i) == marker[i] = Operator /\ i \in claimed

(* _check_worktree_writer_marker lets the launch in and sweeps a stale marker. *)
MayEnter(i) == ~ForeignWriter(i) /\ ~OperatorHolds(i)
Swept(i)    == IF Alive(marker[i]) THEN marker[i] ELSE NoSession

(* Local work in the tree of a writer that is alive. *)
BusyTree(i) == tree[i] = "work" /\ Alive(marker[i])

Launching(p, i) == pc[p] = "launching" /\ i \in todo[p]

(* A launch that does not start a worker rewrites the issue's sidecar, under
   a session id of its own, with the pid it found or with none. *)
NoLaunch(p, i, r, s) ==
    /\ result' = [result EXCEPT ![p][i] = r]
    /\ got' = [got EXCEPT ![p][i] = s]
    /\ sidecar' = [sidecar EXCEPT ![i] = s]
    /\ renamed' = renamed \cup {i}
    /\ todo' = [todo EXCEPT ![p] = @ \ {i}]
    /\ UNCHANGED <<entryVars, githubVars, tree, runs, otherVars, lockVars, pc,
                   batch, liveSeen, prSeen, recovers, current>>

(* Mutant: whatever the marker names is reported as a live worker. *)
LaunchBlockedByAnyone(p, i) ==
    /\ Launching(p, i) /\ ~MayEnter(i)
    /\ NoLaunch(p, i, "blocked", marker[i])
    /\ UNCHANGED marker

LaunchBlocked(p, i) ==
    /\ Launching(p, i)
    /\ ~MayEnter(i)
    /\ NoLaunch(p, i, "blocked", IF ForeignWriter(i) THEN marker[i] ELSE NoSession)
    /\ UNCHANGED marker

(* _reap_idle_foreign_writer: alive but silent past the stall threshold. *)
ReapIdleWriter(p, i) ==
    /\ Launching(p, i)
    /\ ForeignWriter(i)
    /\ runs' = [runs EXCEPT ![marker[i]] = NoIssue]
    /\ marker' = [marker EXCEPT ![i] = NoSession]
    /\ UNCHANGED <<entryVars, githubVars, sidecar, renamed, tree, otherVars,
                   lockVars, passVars>>

(* LiveWorkerRedispatchError: the recovery probe finds the recorded worker, or
   cannot tell; or a fresh launch finds local work under a live marker. *)
LaunchAverted(p, i) ==
    /\ Launching(p, i)
    /\ MayEnter(i)
    /\ \/ i \in recovers[p] /\ NoLaunch(p, i, "averted", pid[i])
       \/ i \notin recovers[p] /\ BusyTree(i) /\ NoLaunch(p, i, "averted", marker[i])
    /\ marker' = [marker EXCEPT ![i] = Swept(i)]

(* Any other error: git, the probe, Popen; or local work nobody is writing. *)
LaunchFailed(p, i) ==
    /\ Launching(p, i)
    /\ MayEnter(i)
    /\ \/ NoLaunch(p, i, "failed", NoSession)
       \/ /\ i \notin recovers[p] /\ tree[i] = "work" /\ ~BusyTree(i)
          /\ NoLaunch(p, i, "unsafe", NoSession)
    /\ marker' = [marker EXCEPT ![i] = Swept(i)]

(* An identity no record on disk or in a pass names. *)
Fresh(s) ==
    /\ runs[s] = NoIssue
    /\ \A i \in Issues : s \notin {pid[i], sidecar[i], marker[i]}
    /\ \A p \in Passes, i \in Issues : got[p][i] # s

(* The tree is reused, reset or, with local work captured, recreated; recovery
   reattaches to the work it finds.  Then Popen. *)
Spawn(p, i, s) ==
    /\ Launching(p, i)
    /\ MayEnter(i)
    /\ IF i \in recovers[p] THEN ~GhostAlive(i) ELSE ~BusyTree(i)
    /\ Fresh(s)
    /\ runs' = [runs EXCEPT ![s] = i]
    /\ tree' = [tree EXCEPT ![i] = IF i \in recovers[p] /\ @ = "work" THEN @ ELSE "pristine"]
    /\ marker' = [marker EXCEPT ![i] = Swept(i)]
    /\ current' = [current EXCEPT ![p] = i]
    /\ got' = [got EXCEPT ![p][i] = s]
    /\ Goto(p, "spawned")
    /\ lost' = lost \ {s}
    /\ UNCHANGED <<entryVars, githubVars, sidecar, renamed, command, owed, lockVars,
                   batch, liveSeen, prSeen, recovers, todo, result>>

(* write_worktree_marker, best-effort. *)
Mark(p) ==
    /\ pc[p] = "spawned"
    /\ LET i == current[p]
       IN \E m \in {got[p][i], marker[i]} : marker' = [marker EXCEPT ![i] = m]
    /\ Goto(p, "marked")
    /\ UNCHANGED <<entryVars, githubVars, sidecar, renamed, tree, runs, otherVars,
                   lockVars, batch, liveSeen, prSeen, recovers, todo, current,
                   result, got>>

(* Mutant: the launch is reported without a sidecar. *)
RegisterNothing(p) ==
    /\ pc[p] = "marked"
    /\ result' = [result EXCEPT ![p][current[p]] = "ok"]
    /\ todo' = [todo EXCEPT ![p] = @ \ {current[p]}]
    /\ current' = [current EXCEPT ![p] = NoIssue]
    /\ Goto(p, "launching")
    /\ UNCHANGED <<entryVars, githubVars, diskVars, runs, otherVars, lockVars,
                   batch, liveSeen, prSeen, recovers, got>>

(* _write_record: the session sidecar. *)
Register(p) ==
    /\ pc[p] = "marked"
    /\ LET i == current[p]
       IN /\ sidecar' = [sidecar EXCEPT ![i] = got[p][i]]
          /\ renamed' = renamed \ {i}
          /\ result' = [result EXCEPT ![p][i] = "ok"]
          /\ todo' = [todo EXCEPT ![p] = @ \ {i}]
    /\ current' = [current EXCEPT ![p] = NoIssue]
    /\ Goto(p, "launching")
    /\ UNCHANGED <<entryVars, githubVars, marker, tree, runs, otherVars, lockVars,
                   batch, liveSeen, prSeen, recovers, got>>

(* Every request handled: the fleet lock goes before the bookkeeping, and an
   averted launch is checked against the operating system. *)
Release(p) ==
    /\ pc[p] = "launching" /\ todo[p] = {}
    /\ DropFleet(p)
    /\ todo' = [todo EXCEPT ![p] = batch[p]]
    /\ result' = [result EXCEPT ![p] = [i \in Issues |->
                    IF @[i] # "averted" THEN @[i]
                    ELSE IF Alive(got[p][i]) THEN "live" ELSE "phantom"]]
    /\ recovers' = [recovers EXCEPT ![p] = {}]
    /\ Goto(p, "record")
    /\ UNCHANGED <<entryVars, githubVars, diskVars, runs, otherVars, stateLock,
                   batch, liveSeen, prSeen, current, got>>

-----------------------------------------------------------------------------
(* Third hold of state_lock: each result goes to its entry, is saved, and then
   to the issue's labels. *)

(* The entry of i as the record leaves it; the claim's timestamp is dropped. *)
Entry(i, st, s, f, b, r) ==
    /\ status' = [status EXCEPT ![i] = st]
    /\ pid' = [pid EXCEPT ![i] = s]
    /\ failed' = [failed EXCEPT ![i] = f]
    /\ blocked' = [blocked EXCEPT ![i] = b]
    /\ reaps' = [reaps EXCEPT ![i] = r]
    /\ aged' = aged \ {i}
    /\ UNCHANGED <<redispatched, claimed>>

Unlabelled == UNCHANGED <<githubVars, diskVars, runs>>

RecordOk(p, i) ==
    /\ result[p][i] = "ok"
    /\ Entry(i, "dispatched", got[p][i], 0, blocked[i], reaps[i])
    /\ Unlabelled

(* A worker launched before is still alive: its pid is not stamped again. *)
RecordLive(p, i) ==
    /\ result[p][i] = "live"
    /\ Entry(i, "dispatched", pid[i], 0, blocked[i], reaps[i])
    /\ Unlabelled

(* _route_phantom_live_worker: the worker a launch deferred to is dead.  Its
   commits are published, kept for the sweep, or there is nothing to keep.  The
   salvage precheck, an earlier hold of state_lock, is folded in. *)
RecordPhantom(p, i) ==
    /\ result[p][i] = "phantom"
    /\ \/ /\ tree[i] = "work"
          /\ Entry(i, "passive", NoSession, 0, blocked[i], reaps[i])
          /\ hasPR' = hasPR \cup {i}
          /\ sidecar' = [sidecar EXCEPT ![i] = NoSession]
          /\ UNCHANGED <<ready, active, parked, renamed, marker, tree, runs>>
       \/ /\ tree[i] = "work"
          /\ Entry(i, "dispatch_failed", NoSession, 0, blocked[i], reaps[i])
          /\ Unlabelled
       \/ /\ tree[i] = "work"
          /\ Entry(i, "dispatched", NoSession, 0, blocked[i], reaps[i])
          /\ ready' = ready \ {i}
          /\ UNCHANGED <<active, parked, hasPR, diskVars, runs>>
       \/ /\ Entry(i, "dispatch_failed", NoSession, 0, blocked[i], reaps[i])
          /\ sidecar' = [sidecar EXCEPT ![i] = NoSession]
          /\ active' \in {active, active \ {i}}
          /\ ready' = IF i \in active /\ i \notin active' THEN ready \cup {i} ELSE ready
          /\ UNCHANGED <<parked, hasPR, renamed, marker, tree, runs>>

(* A pre-launch environment block counts apart from failed launches: beyond the
   cap an idle writer is reaped, a bounded number of times, else a human called. *)
RecordBlocked(p, i) ==
    /\ result[p][i] = "blocked"
    /\ \/ /\ blocked[i] < Cap
          /\ Entry(i, "dispatch_failed", pid[i], failed[i], OneMore(blocked[i]), reaps[i])
          /\ Unlabelled
       \/ /\ blocked[i] >= Cap /\ reaps[i] < MaxReaps
          /\ marker[i] \in Sessions /\ (Alive(marker[i]) => ForeignWriter(i))
          /\ Entry(i, "dispatch_failed", pid[i], failed[i], 0, reaps[i] + 1)
          /\ runs' = [runs EXCEPT ![marker[i]] = NoIssue]
          /\ marker' = [marker EXCEPT ![i] = NoSession]
          /\ UNCHANGED <<githubVars, sidecar, renamed, tree>>
       \/ /\ blocked[i] >= Cap
          /\ ~(reaps[i] < MaxReaps /\ marker[i] \in Sessions /\ ~Alive(marker[i]))
          /\ Entry(i, "escalated", pid[i], failed[i], OneMore(blocked[i]), reaps[i])
          /\ Unlabelled

(* Mutant: one retry too many. *)
RecordFailedLate(p, i) ==
    /\ \/ /\ result[p][i] = "failed" /\ failed[i] <= Cap
          /\ Entry(i, "dispatch_failed", pid[i], OneMore(failed[i]), blocked[i], reaps[i])
       \/ /\ result[p][i] \in {"unsafe", "gated"}
          /\ Entry(i, "escalated", pid[i], OneMore(failed[i]), blocked[i], reaps[i])
    /\ Unlabelled

(* A failed launch is retried up to the cap; local work nobody is writing and a
   cross-repository issue go to a human at once. *)
RecordFailed(p, i) ==
    /\ \/ /\ result[p][i] = "failed" /\ failed[i] < Cap
          /\ Entry(i, "dispatch_failed", pid[i], OneMore(failed[i]), blocked[i], reaps[i])
       \/ /\ \/ result[p][i] = "failed" /\ failed[i] >= Cap
             \/ result[p][i] = "unsafe"
          /\ Entry(i, "escalated", pid[i], OneMore(failed[i]), blocked[i], reaps[i])
       \/ /\ result[p][i] = "gated"
          /\ Entry(i, "escalated", pid[i], failed[i], blocked[i], reaps[i])
    /\ Unlabelled

Record(p, i) ==
    /\ pc[p] = "record" /\ i \in todo[p]
    /\ stateLock \in {NoPass, p}
    /\ stateLock' = p
    /\ \/ RecordOk(p, i) \/ RecordLive(p, i) \/ RecordPhantom(p, i)
       \/ RecordBlocked(p, i) \/ RecordFailed(p, i)
    /\ current' = [current EXCEPT ![p] = i]
    /\ todo' = [todo EXCEPT ![p] = @ \ {i}]
    /\ Goto(p, "label")
    /\ UNCHANGED <<otherVars, fleetLock, batch, liveSeen, prSeen, recovers, result, got>>

(* The transition to in-progress or to operator-queue: the add and the removes
   succeed or fail apart; the failure is noted on the entry. *)
Label(p) ==
    /\ pc[p] = "label"
    /\ LET i == current[p]
       IN IF result[p][i] \in {"ok", "live"}
          THEN /\ active' \in {active, active \cup {i}}
               /\ parked' \in {parked, parked \ {i}}
          ELSE IF status[i] = "escalated"
          THEN /\ parked' \in {parked, parked \cup {i}}
               /\ active' \in {active, active \ {i}}
          ELSE UNCHANGED <<active, parked>>
    /\ current' = [current EXCEPT ![p] = NoIssue]
    /\ Goto(p, "record")
    /\ UNCHANGED <<entryVars, ready, hasPR, diskVars, runs, otherVars, lockVars,
                   batch, liveSeen, prSeen, recovers, todo, result, got>>

Return(p) ==
    /\ pc[p] = "record" /\ todo[p] = {}
    /\ DropState(p)
    /\ Over(p)
    /\ UNCHANGED <<entryVars, githubVars, diskVars, runs, otherVars, fleetLock>>

(* The pass is gone before it returned; its locks go with it, its workers live on. *)
Leaves(p) ==
    /\ DropFleet(p) /\ DropState(p)
    /\ Over(p)
    /\ UNCHANGED <<entryVars, githubVars, diskVars, runs, command, owed>>

(* The workers only the pass's own locals name. *)
InHand(p) == {s \in Sessions : pc[p] \in {"spawned", "marked"} /\ s = got[p][current[p]]}

Crash(p) ==
    /\ p \in MayCrash /\ pc[p] # "idle"
    /\ Leaves(p)
    /\ lost' = lost \cup InHand(p)

(* StateLockBusy: somebody, reconcile over its GitHub calls say, held state_lock
   for all of the 30 seconds the pass polls it.  dispatch() catches it and
   returns; before the record that leaves the claims to their age. *)
StateBusy(p) ==
    /\ \/ pc[p] \in {"scanned", "filtered"}
       \/ pc[p] = "record" /\ stateLock # p
    /\ Leaves(p)
    /\ UNCHANGED lost

-----------------------------------------------------------------------------
(* Workers. *)
Work(s) ==
    /\ Alive(s)
    /\ tree' = [tree EXCEPT ![runs[s]] = "work"]
    /\ UNCHANGED <<entryVars, githubVars, sidecar, renamed, marker, runs,
                   otherVars, lockVars, passVars>>

(* It pushes its branch and opens the pull request, or just ends. *)
Deliver(s) ==
    /\ Alive(s) /\ tree[runs[s]] = "work"
    /\ hasPR' = hasPR \cup {runs[s]}
    /\ UNCHANGED <<entryVars, ready, active, parked, diskVars, runs, otherVars,
                   lockVars, passVars>>

Exit(s) ==
    /\ Alive(s)
    /\ runs' = [runs EXCEPT ![s] = NoIssue]
    /\ lost' = lost \ {s}
    /\ UNCHANGED <<entryVars, githubVars, diskVars, command, owed, lockVars, passVars>>

(* The dead-worker sweep's reclaim of an issue without a pull request and with
   an active label: it counts a redispatch, whatever the entry has become, or
   calls a human at the cap or on a deterministic failure; the sidecar goes. *)
Reclaim(i) ==
    /\ StateFree
    /\ sidecar[i] \in Sessions /\ ~SidecarLive(i)
    /\ i \notin hasPR /\ i \in active /\ i \notin owed
    /\ \E deterministic \in BOOLEAN :
        IF deterministic \/ redispatched[i] >= Cap
        THEN /\ status' = [status EXCEPT ![i] = "escalated"]
             /\ parked' \in {parked, parked \cup {i}}
             /\ active' \in {active, active \ {i}}
             /\ UNCHANGED owed
        ELSE /\ owed' = owed \cup {i}
             /\ UNCHANGED <<status, active, parked>>
    /\ redispatched' = [redispatched EXCEPT ![i] = OneMore(@)]
    /\ sidecar' = [sidecar EXCEPT ![i] = NoSession]
    /\ UNCHANGED <<aged, pid, failed, blocked, reaps, claimed, ready, hasPR, renamed,
                   marker, tree, runs, command, lost, lockVars, passVars>>

(* The relabel to ready, after state_lock is released; a failed one is finished
   by the orphan sweep. *)
Relabel(i) ==
    /\ i \in owed
    /\ owed' = owed \ {i}
    /\ active' = active \ {i} /\ ready' = ready \cup {i}
    /\ UNCHANGED <<entryVars, parked, hasPR, diskVars, runs, command, lost, lockVars, passVars>>

(* 30 minutes pass over a claim.  Bound: only over one whose pass is gone. *)
Owned(p) == IF pc[p] \in {"claimed", "launching", "spawned", "marked"} THEN batch[p]
            ELSE IF pc[p] \in {"record", "label"} THEN todo[p] ELSE {}

Age(i) ==
    /\ status[i] = "dispatch_pending" /\ i \notin aged
    /\ \A p \in Passes : i \notin Owned(p)
    /\ aged' = aged \cup {i}
    /\ lost' = lost \cup {s \in Sessions : runs[s] = i}
    /\ UNCHANGED <<status, pid, failed, blocked, reaps, redispatched, claimed,
                   githubVars, diskVars, runs, command, owed, lockVars, passVars>>

(* The redispatch window passes over the counted attempts. *)
Forget(i) ==
    /\ StateFree
    /\ failed' = [failed EXCEPT ![i] = 0] /\ blocked' = [blocked EXCEPT ![i] = 0]
    /\ reaps' = [reaps EXCEPT ![i] = 0]
    /\ redispatched' = [redispatched EXCEPT ![i] = 0]
    /\ UNCHANGED <<status, aged, pid, claimed, githubVars, diskVars, runs,
                   otherVars, lockVars, passVars>>

(* Mutant: the age is compared the wrong way round. *)
ClearFreshClaim(i) ==
    /\ StateFree
    /\ status[i] = "dispatch_pending" /\ i \notin aged
    /\ status' = [status EXCEPT ![i] = "none"]
    /\ UNCHANGED <<aged, pid, failed, blocked, reaps, redispatched, claimed,
                   githubVars, diskVars, runs, otherVars, lockVars, passVars>>

(* reconcile: a stale claim is cleared by removing the whole entry. *)
ClearStaleClaim(i) ==
    /\ StateFree
    /\ status[i] = "dispatch_pending" /\ i \in aged
    /\ status' = [status EXCEPT ![i] = "none"]
    /\ pid' = [pid EXCEPT ![i] = NoSession]
    /\ failed' = [failed EXCEPT ![i] = 0] /\ blocked' = [blocked EXCEPT ![i] = 0]
    /\ reaps' = [reaps EXCEPT ![i] = 0]
    /\ redispatched' = [redispatched EXCEPT ![i] = 0]
    /\ aged' = aged \ {i} /\ claimed' = claimed \ {i}
    /\ UNCHANGED <<githubVars, diskVars, runs, otherVars, lockVars, passVars>>

(* `charlie claim N` and `--release`: the marker first, if the worktree is there
   (a release removes only an operator's), then the entry. *)
ClaimMarker(i) ==
    /\ i \in Claimable /\ command[i] = "none"
    /\ \/ /\ command' = [command EXCEPT ![i] = "claim"]
          /\ marker' = [marker EXCEPT ![i] = IF tree[i] = "absent" THEN @ ELSE Operator]
       \/ /\ i \in claimed
          /\ command' = [command EXCEPT ![i] = "release"]
          /\ marker' = [marker EXCEPT ![i] = IF @ = Operator THEN NoSession ELSE @]
    /\ UNCHANGED <<entryVars, githubVars, sidecar, renamed, tree, runs, owed, lost,
                   lockVars, passVars>>

ClaimRecord(i) ==
    /\ command[i] # "none" /\ StateFree
    /\ claimed' = IF command[i] = "claim" THEN claimed \cup {i} ELSE claimed \ {i}
    /\ command' = [command EXCEPT ![i] = "none"]
    /\ UNCHANGED <<status, aged, pid, failed, blocked, reaps, redispatched,
                   githubVars, diskVars, runs, owed, lost, lockVars, passVars>>

(* StateLockBusy ends the command between the two. *)
ClaimBusy(i) ==
    /\ command[i] # "none"
    /\ command' = [command EXCEPT ![i] = "none"]
    /\ UNCHANGED <<entryVars, githubVars, diskVars, runs, owed, lost, lockVars, passVars>>

-----------------------------------------------------------------------------
PassStep(p) ==
    \/ List(p) \/ Permit(p) \/ Defer(p) \/ Scan(p) \/ Filter(p) \/ Claim(p) \/ Gate(p)
    \/ \E i \in Issues : \/ LaunchBlocked(p, i) \/ ReapIdleWriter(p, i)
                         \/ LaunchAverted(p, i) \/ LaunchFailed(p, i)
                         \/ \E s \in Sessions : Spawn(p, i, s)
                         \/ Record(p, i)
    \/ Mark(p) \/ Register(p) \/ Release(p) \/ Label(p) \/ Return(p)

Operate(i) == ClaimMarker(i) \/ ClaimRecord(i) \/ ClaimBusy(i)

Next ==
    \/ \E p \in Passes : PassStep(p) \/ Crash(p) \/ StateBusy(p)
    \/ \E s \in Sessions : Work(s) \/ Deliver(s) \/ Exit(s)
    \/ \E i \in Issues : \/ Reclaim(i) \/ Relabel(i) \/ Age(i) \/ Forget(i)
                         \/ ClearStaleClaim(i) \/ Operate(i)

Spec == Init /\ [][Next]_vars

-----------------------------------------------------------------------------
(* Two passes never both hold the claim on an issue: what is between a pass's
   claim and its record belongs to it alone. *)
SoleClaimant == \A p, q \in Passes : p # q => Owned(p) \cap Owned(q) = {}

(* An issue never has two workers, unless one outlived the claim it was launched
   under, or its pass died before it wrote the sidecar: crashed passes and passes
   that gave up on state_lock included, a second launch takes the staleness window
   or a worker no file names. *)
OneWorker ==
    \A s, t \in Sessions \ lost : Alive(s) /\ Alive(t) /\ runs[s] = runs[t] => s = t

(* A running worker can be found: by its sidecar, by the pid state.json has, or
   it is in the hands of the pass that launched it.  A pass that gave up before
   the record leaves the sidecar, which no reclaim and no other launch takes away
   while the claim is fresh. *)
NoStrayWorker ==
    \A s \in Sessions \ lost : Alive(s) =>
        \/ \E i \in Issues : s \in {sidecar[i], pid[i]}
        \/ \E p \in Passes : s \in InHand(p)

(* Local work is never reset under the worker writing it; under a lost worker it
   is not as long as the marker in the tree names a live process. *)
LiveWorkKept ==
    [][\A s \in Sessions :
         /\ Alive(s) /\ tree[runs[s]] = "work"
         /\ s \notin lost \/ Alive(marker[runs[s]])
         => tree'[runs[s]] = "work"]_vars

(* An issue that used up its launches inside the window is a human's: dispatch
   does not hold it for another try. *)
RetriesCapped ==
    \A i \in Issues : failed[i] > Cap \/ blocked[i] > Cap => status[i] = "escalated"

(* Dispatch never takes an escalated issue back; only re-arming does, which is
   not part of this module. *)
EscalationSticks ==
    [][\A i \in Issues : status[i] = "escalated" => status'[i] = "escalated"]_vars

(* _check_worktree_writer_marker leaves the live worker its marker names to the
   dispatch guards: no launch enters that worktree. *)
GuardsPreventDouble ==
    [][\A s \in Sessions : Alive(s)' /\ ~Alive(s) => ~Alive(marker[runs'[s]])]_vars

-----------------------------------------------------------------------------
(* Fairness: a pass that was listed goes on and gets its turn at state_lock,
   which is polled; time passes over an orphaned claim; reconcile runs again. *)
FairSpec ==
    /\ Spec
    /\ \A p \in Passes : SF_vars(pc[p] # "idle" /\ PassStep(p))
    /\ \A i \in Issues : WF_vars(Age(i)) /\ SF_vars(ClearStaleClaim(i))

(* A claim whose pass died does not wedge the issue: it is dropped, or another
   pass takes it over. *)
Orphaned(i) == status[i] = "dispatch_pending" /\ \A p \in Passes : i \notin Owned(p)
OrphanRecovers == \A i \in Issues : Orphaned(i) ~> ~Orphaned(i)
=============================================================================
