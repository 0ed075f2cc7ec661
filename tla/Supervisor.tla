----------------------------- MODULE Supervisor -----------------------------
(* The life of the fleet supervisor: run_fleet_supervise (fleet_dispatch.py),
   the wrapper that relaunches it (supervise_loop.py), the watchdog thread of
   that wrapper (wedge_watchdog.py), the heartbeat sidecar and its events
   (supervisor_lifecycle.py), and the two operator files, the one-shot stop
   marker (fleet_stop.py), the pause flag (fleet_pause.py), and the deploy of
   its own code: self_deploy (supervise.py), which holds back a change of the
   dependencies while workers live (pending_sync.py), and the boot's repair.

   A wrapper (supervise-loop) spawns one child at a time and waits for it.  A
   wrapper of the scheduled task is started again by the task's tick whenever
   none is running; the others are an operator's.  Children of two wrappers
   meet at the fleet supervisor lock and at the heartbeat file.

   A child may crash, and may stall at any instruction, for a while or for
   good.  Time advances in ticks; a child that never stalled writes its first
   beat within the grace window and the next ones within the threshold.

   Not modelled: the wrapper's and the doctor's diagnoses (cap_cause, wedge-kill
   loop), which only report; an operator's own pull of the checkout. *)
EXTENDS Naturals, FiniteSets

CONSTANTS
    Wrappers,      \* supervise-loop processes that may run side by side
    Scheduled,     \* those the scheduled task starts (fleet-pass.ps1)
    MaxRelaunches, \* --max-relaunches
    Grace,         \* WEDGE_KILL_FIRST_BEAT_GRACE_SECONDS, in ticks
    Threshold,     \* WEDGE_KILL_STALE_MULTIPLIER x pass timeout, in ticks
    Starve,        \* dependency_sync_starvation_seconds, in ticks
    MaxMoves,      \* bound: changes of origin/main, runs that run out
    MaxRequests,   \* bound: stop, drain and pause commands
    MaxFaults,     \* bound: crashes, stalls, failed fetches, merges and syncs
    NoOne          \* "nobody"

ASSUME SupervisorAssumption ==
    /\ Scheduled \subseteq Wrappers
    /\ NoOne \notin Wrappers
    /\ {MaxRelaunches, MaxMoves, MaxRequests, MaxFaults} \subseteq Nat
    /\ {Grace, Threshold, Starve} \subseteq Nat \ {0}
    /\ Grace <= Threshold

VARIABLES
    \* wrapper process
    wrap,       \* "idle", "spawn" (about to), or "wait" (on its child)
    launches,   \* launches of this wrapper run
    watch,      \* its watchdog: "off", "look", or "kill" (has decided)
    \* child process
    pc,         \* where it is
    code,       \* the exit code it is leaving with
    age,        \* ticks since its spawn
    draining,   \* FleetStopState._draining
    lag,        \* "no", "stalled", "recovered" (stalled earlier)
    \* shared
    lock,       \* holder of the fleet supervisor lock, or NoOne
    hb,         \* supervisor-heartbeat.json, and whose it is by its time
    marker,     \* fleet-stop-request.json: "none", "stop" or "drain"
    paused,     \* fleet-pause.json exists
    workers,    \* a worker of the fleet is live
    main,       \* what origin/main has that HEAD lacks: "same", "code" or "deps"
    sync,       \* the pending-sync marker, its age, and whether HEAD needs more
                \* than is installed
    \* environment budgets and history
    moves, requests, faults,
    late        \* dispatching passes begun since the pending request

wrapVars == <<wrap, launches>>
childVars == <<pc, code, age, draining, lag>>
fileVars == <<hb, marker, paused>>
deployVars == <<main, sync>>
budgets == <<moves, requests, faults>>
vars == <<wrapVars, watch, childVars, lock, fileVars, workers, deployVars,
          budgets, late>>

AgeCap == (IF Grace > Threshold THEN Grace ELSE Threshold) + 1

Gone == {"none", "dead"}
Starting == {"boot", "locked", "healed", "inspected"}
Looping == {"top", "beaten", "clearing", "polled", "merged", "pass", "quiet"}
Ending == {"leaving", "released", "stamped"}
Alive(w) == pc[w] \notin Gone
Running(w) == Alive(w) /\ lag[w] # "stalled"

Init ==
    /\ wrap = [w \in Wrappers |-> "idle"]
    /\ launches = [w \in Wrappers |-> 0]
    /\ watch = [w \in Wrappers |-> "off"]
    /\ pc = [w \in Wrappers |-> "none"]
    /\ code = [w \in Wrappers |-> 0]
    /\ age = [w \in Wrappers |-> 0]
    /\ draining = [w \in Wrappers |-> FALSE]
    /\ lag = [w \in Wrappers |-> "no"]
    /\ lock = NoOne
    /\ hb = [age |-> 0, exited |-> FALSE, since |-> {}]
    /\ marker = "none"
    /\ paused = FALSE
    /\ workers = FALSE
    /\ main = "same"
    /\ sync = [marker |-> "none", age |-> 0, skew |-> FALSE]
    /\ moves = 0
    /\ requests = 0
    /\ faults = 0
    /\ late = 0

-----------------------------------------------------------------------------
(* The wrapper. *)

\* fleet-pass.ps1 refuses while the pause flag exists; an operator's own
\* supervise-loop starts all the same.  IgnoreNew: one instance at a time.
\* (Bound: an operator's wrapper is started once.)
StartWrapper(w) ==
    /\ wrap[w] = "idle"
    /\ IF w \in Scheduled THEN ~paused ELSE launches[w] = 0
    /\ wrap' = [wrap EXCEPT ![w] = "spawn"]
    /\ launches' = [launches EXCEPT ![w] = 0]
    /\ UNCHANGED <<watch, childVars, lock, fileVars, workers, deployVars,
                   budgets, late>>

\* The spawn anchor has whole seconds: a beat of the same instant may pass
\* for the new child's own.
Spawn(w) ==
    /\ wrap[w] = "spawn"
    /\ wrap' = [wrap EXCEPT ![w] = "wait"]
    /\ launches' = [launches EXCEPT ![w] = @ + 1]
    /\ watch' = [watch EXCEPT ![w] = "look"]
    /\ pc' = [pc EXCEPT ![w] = "boot"]
    /\ code' = [code EXCEPT ![w] = 0]
    /\ age' = [age EXCEPT ![w] = 0]
    /\ draining' = [draining EXCEPT ![w] = FALSE]
    /\ lag' = [lag EXCEPT ![w] = "no"]
    /\ \/ hb' = [hb EXCEPT !.since = @ \ {w}]
       \/ hb.age = 0 /\ hb' = hb
    /\ UNCHANGED <<lock, marker, paused, workers, deployVars, budgets,
                   late>>

StopRequested == marker # "none" \/ paused

\* Mutant: the relaunch bound is one too large.
ReapUnbounded(w) ==
    /\ wrap[w] = "wait" /\ pc[w] = "dead"
    /\ watch' = [watch EXCEPT ![w] = "off"]
    /\ pc' = [pc EXCEPT ![w] = "none"]
    /\ wrap' = [wrap EXCEPT ![w] =
                  IF code[w] = 3 /\ ~StopRequested /\ launches[w] <= MaxRelaunches + 1
                  THEN "spawn" ELSE "idle"]
    /\ UNCHANGED <<launches, code, age, draining, lag, lock, fileVars, workers,
                   deployVars, budgets, late>>

\* process.wait returns: relaunch, or hand authority back to the tick.
Reap(w) ==
    /\ wrap[w] = "wait" /\ pc[w] = "dead"
    /\ watch' = [watch EXCEPT ![w] = "off"]
    /\ pc' = [pc EXCEPT ![w] = "none"]
    /\ wrap' = [wrap EXCEPT ![w] =
                  IF code[w] = 3 /\ ~StopRequested /\ launches[w] <= MaxRelaunches
                  THEN "spawn" ELSE "idle"]
    /\ UNCHANGED <<launches, code, age, draining, lag, lock, fileVars, workers,
                   deployVars, budgets, late>>

-----------------------------------------------------------------------------
(* The supervisor process. *)

Goto(w, label) == pc' = [pc EXCEPT ![w] = label]
Exit(w, n) == code' = [code EXCEPT ![w] = n]
Fault == faults < MaxFaults /\ faults' = faults + 1

\* The venv's anchor is violated, or another supervisor holds the lock.
BootRefused(w) ==
    /\ Running(w) /\ pc[w] = "boot"
    /\ Fault \/ (lock # NoOne /\ UNCHANGED faults)
    /\ Goto(w, "dead") /\ Exit(w, 1)
    /\ UNCHANGED <<wrapVars, watch, age, draining, lag, lock, fileVars,
                   workers, deployVars, moves, requests, late>>

Acquire(w) ==
    /\ Running(w) /\ pc[w] = "boot"
    /\ lock = NoOne
    /\ lock' = w
    /\ Goto(w, "locked")
    /\ UNCHANGED <<wrapVars, watch, code, age, draining, lag, fileVars,
                   workers, deployVars, budgets, late>>

\* heal_pending_sync_at_boot, before the config load: skew is known from a marker
\* whose merge was made, or else from a probe of the installed packages.
Detected == sync.marker = "replays" \/ sync.skew
Synced == sync' = [marker |-> "none", age |-> 0, skew |-> FALSE]

\* Mutant: the boot restart forgets the lock.
BootSyncKeepsLock(w) ==
    /\ Running(w) /\ pc[w] = "locked"
    /\ Detected /\ ~workers /\ Synced
    /\ Goto(w, "dead") /\ Exit(w, 3)
    /\ UNCHANGED <<wrapVars, watch, age, draining, lag, lock, fileVars, workers,
                   main, budgets, late>>

\* The repair restarts before anything is stamped: the heartbeat stays as it was.
BootSync(w) ==
    /\ Running(w) /\ pc[w] = "locked"
    /\ Detected /\ ~workers /\ Synced
    /\ lock' = NoOne
    /\ Goto(w, "dead") /\ Exit(w, 3)
    /\ UNCHANGED <<wrapVars, watch, age, draining, lag, fileVars, workers,
                   main, budgets, late>>

\* Nothing to repair, workers are live, the probe or the sync failed, or the sync
\* succeeded and did not converge: no restart then, but the marker is gone.
BootGoesOn(w) ==
    /\ Running(w) /\ pc[w] = "locked"
    /\ \/ (~Detected \/ workers) /\ UNCHANGED <<sync, faults>>
       \/ Detected /\ Fault /\ UNCHANGED sync
       \/ Detected /\ ~workers /\ Fault
          /\ sync' = [marker |-> "none", age |-> 0, skew |-> TRUE]
    /\ Goto(w, "healed")
    /\ UNCHANGED <<wrapVars, watch, code, age, draining, lag, lock, fileVars,
                   workers, main, moves, requests, late>>

\* A fatal preflight failure: exit 4, or an exception before the loop: exit 1.
\* On packages that are not those of HEAD the config load may fail any time.
BootFails(w) ==
    /\ Running(w) /\ pc[w] \in {"healed", "inspected"}
    /\ Fault \/ (pc[w] = "healed" /\ sync.skew /\ UNCHANGED faults)
    /\ lock' = NoOne
    /\ Goto(w, "dead")
    /\ Exit(w, 1) \/ (pc[w] = "healed" /\ Exit(w, 4))
    /\ UNCHANGED <<wrapVars, watch, age, draining, lag, fileVars, workers,
                   deployVars, moves, requests, late>>

\* detect_prior_abnormal_exit, then detect_wedge_kill_loop: they only report.
Inspect(w) ==
    /\ Running(w) /\ pc[w] = "healed"
    /\ Goto(w, "inspected")
    /\ UNCHANGED <<wrapVars, watch, code, age, draining, lag, lock, fileVars,
                   workers, deployVars, budgets, late>>

RecordStarted(w) ==
    /\ Running(w) /\ pc[w] = "inspected"
    /\ hb' = [age |-> 0, exited |-> FALSE, since |-> Wrappers]
    /\ Goto(w, "top")
    /\ UNCHANGED <<wrapVars, watch, code, age, draining, lag, lock, marker,
                   paused, workers, deployVars, budgets, late>>

\* Merge in place: pid, exited_at and exit_code of the file are kept.
(* Mutant: a due pass skips the marker. *)
BeatSkipsPoll(w) ==
    /\ Running(w) /\ pc[w] = "top"
    /\ hb' = [hb EXCEPT !.age = 0, !.since = Wrappers]
    /\ (Goto(w, "beaten") \/ Goto(w, "polled"))
    /\ UNCHANGED <<wrapVars, watch, code, age, draining, lag, lock, marker,
                   paused, workers, deployVars, budgets, late>>

Beat(w) ==
    /\ Running(w) /\ pc[w] = "top"
    /\ hb' = [hb EXCEPT !.age = 0, !.since = Wrappers]
    /\ Goto(w, "beaten")
    /\ UNCHANGED <<wrapVars, watch, code, age, draining, lag, lock, marker,
                   paused, workers, deployVars, budgets, late>>

\* --max-runtime or --max-passes is reached, which is looked at first.
RunsOut(w) ==
    /\ Running(w) /\ pc[w] = "beaten"
    /\ moves < MaxMoves
    /\ moves' = moves + 1
    /\ Goto(w, "leaving") /\ Exit(w, 0)
    /\ UNCHANGED <<wrapVars, watch, age, draining, lag, lock, fileVars,
                   workers, deployVars, requests, faults, late>>

\* FleetStopState.poll_stop_marker: the read.
Poll(w) ==
    /\ Running(w) /\ pc[w] = "beaten"
    /\ Goto(w, IF marker = "stop" THEN "clearing" ELSE "polled")
    /\ draining' = [draining EXCEPT ![w] = @ \/ marker = "drain"]
    /\ UNCHANGED <<wrapVars, watch, code, age, lag, lock, fileVars, workers,
                   deployVars, budgets, late>>

\* ... and the unlink, of whatever marker is there by then.
Consume == marker' = "none" /\ late' = 0

(* Mutant: the marker is not consumed. *)
HonourStopKeepsMarker(w) ==
    /\ Running(w) /\ pc[w] = "clearing"
    /\ Goto(w, "leaving") /\ Exit(w, 0)
    /\ UNCHANGED <<wrapVars, watch, age, draining, lag, lock, fileVars,
                   workers, deployVars, budgets, late>>

HonourStop(w) ==
    /\ Running(w) /\ pc[w] = "clearing"
    /\ Consume
    /\ Goto(w, "leaving") /\ Exit(w, 0)
    /\ UNCHANGED <<wrapVars, watch, age, draining, lag, lock, hb, paused,
                   workers, deployVars, budgets>>

HonourPause(w) ==
    /\ Running(w) /\ pc[w] = "polled"
    /\ paused
    /\ Goto(w, "leaving") /\ Exit(w, 5)
    /\ UNCHANGED <<wrapVars, watch, age, draining, lag, lock, fileVars,
                   workers, deployVars, budgets, late>>

\* drain_tick: nothing live and no pass due.
DrainDone(w) ==
    /\ Running(w) /\ pc[w] = "polled"
    /\ ~paused /\ draining[w] /\ ~workers
    /\ Consume
    /\ Goto(w, "leaving") /\ Exit(w, 0)
    /\ UNCHANGED <<wrapVars, watch, age, draining, lag, lock, hb, paused,
                   workers, deployVars, budgets>>

\* No pass is due: sleep and poll again.
Idle(w) ==
    /\ Running(w) /\ pc[w] = "polled"
    /\ ~paused /\ ~(draining[w] /\ ~workers)
    /\ Goto(w, "top")
    /\ UNCHANGED <<wrapVars, watch, code, age, draining, lag, lock, fileVars,
                   workers, deployVars, budgets, late>>

-----------------------------------------------------------------------------
(* A due pass, self_deploy first; a draining supervisor does not deploy.  The
   merge and the sync of a change of the dependencies wait until no worker
   lives; once they have waited Starve ticks the pass launches nothing. *)

\* A quiet pass reaps, reviews and merges, and launches nothing.
Passing == {"pass", "quiet"}
BeginPass(w, quiet) ==
    /\ Goto(w, IF quiet THEN "quiet" ELSE "pass")
    /\ late' = IF marker # "none" /\ ~quiet THEN late + 1 ELSE late

Due(w) == Running(w) /\ pc[w] = "polled" /\ ~paused
DepPending == main = "deps" \/ sync.marker # "none"

DrainPass(w) ==
    /\ Due(w) /\ draining[w] /\ BeginPass(w, TRUE)
    /\ UNCHANGED <<wrapVars, watch, code, age, draining, lag, lock, fileVars,
                   workers, deployVars, budgets>>

\* Up to date, or the check of the venv, the fetch or the merge failed.
NoDeploy(w) ==
    /\ Due(w) /\ ~draining[w] /\ BeginPass(w, FALSE)
    /\ \/ main = "same" /\ sync.marker = "none" /\ UNCHANGED faults
       \/ Fault
    /\ UNCHANGED <<wrapVars, watch, code, age, draining, lag, lock, fileVars,
                   workers, deployVars, moves, requests>>

\* Mutant: the marker is dated by its last rewrite.
DeferAnew(w) ==
    /\ Due(w) /\ ~draining[w] /\ DepPending /\ workers
    /\ sync' = [sync EXCEPT !.marker = IF main = "same" THEN "replays" ELSE "held",
                            !.age = 0]
    /\ BeginPass(w, sync.marker # "none" /\ sync.age >= Starve)
    /\ UNCHANGED <<wrapVars, watch, code, age, draining, lag, lock, fileVars,
                   workers, main, budgets>>

\* The marker keeps the date of the first deferral, and names what HEAD is to be.
Defer(w) ==
    /\ Due(w) /\ ~draining[w] /\ DepPending /\ workers
    /\ sync' = [sync EXCEPT !.marker = IF main = "same" THEN "replays" ELSE "held"]
    /\ BeginPass(w, sync.marker # "none" /\ sync.age >= Starve)
    /\ UNCHANGED <<wrapVars, watch, code, age, draining, lag, lock, fileVars,
                   workers, main, budgets>>

\* HEAD moves here: the process restarts on the new code, after the sync if it
\* needs one.
Merge(w) ==
    /\ Due(w) /\ ~draining[w] /\ main # "same" /\ ~(DepPending /\ workers)
    /\ main' = "same"
    /\ sync' = [sync EXCEPT !.skew = @ \/ main = "deps"]
    /\ IF DepPending THEN Goto(w, "merged") /\ UNCHANGED code
                     ELSE Goto(w, "leaving") /\ Exit(w, 3)
    /\ UNCHANGED <<wrapVars, watch, age, draining, lag, lock, fileVars,
                   workers, budgets, late>>

\* The marker is written before the sync and cleared after it.  If the sync fails
\* a merge restarts all the same (HEAD drift).
Sync(w) ==
    /\ \/ Running(w) /\ pc[w] = "merged"
       \/ Due(w) /\ ~draining[w] /\ main = "same" /\ sync.marker # "none" /\ ~workers
    /\ \/ Synced /\ Goto(w, "leaving") /\ Exit(w, 3) /\ UNCHANGED <<late, faults>>
       \/ /\ Fault /\ sync' = [sync EXCEPT !.marker = "replays"]
          /\ IF pc[w] = "merged"
             THEN Goto(w, "leaving") /\ Exit(w, 3) /\ UNCHANGED late
             ELSE BeginPass(w, FALSE) /\ UNCHANGED code
    /\ UNCHANGED <<wrapVars, watch, age, draining, lag, lock, fileVars, workers,
                   main, moves, requests>>

Deploy(w) == DrainPass(w) \/ NoDeploy(w) \/ Defer(w) \/ Merge(w) \/ Sync(w)

\* Every launch of the pass reads the pause flag afresh.
Dispatch(w) ==
    /\ Running(w) /\ pc[w] = "pass"
    /\ ~paused /\ ~workers
    /\ workers' = TRUE
    /\ UNCHANGED <<wrapVars, watch, childVars, lock, fileVars, deployVars,
                   budgets, late>>

\* fleet_loop returned; drain_complete_if_empty, else sleep.
EndPass(w) ==
    /\ Running(w) /\ pc[w] \in Passing
    /\ IF draining[w] /\ ~workers
       THEN Consume /\ Goto(w, "leaving") /\ Exit(w, 0)
       ELSE Goto(w, "top") /\ UNCHANGED <<marker, late, code>>
    /\ UNCHANGED <<wrapVars, watch, age, draining, lag, lock, hb, paused,
                   workers, deployVars, budgets>>

\* An exception in the loop body.
PassRaises(w) ==
    /\ Running(w) /\ pc[w] \in Looping \ {"merged"}
    /\ Fault
    /\ Goto(w, "leaving") /\ Exit(w, 1)
    /\ UNCHANGED <<wrapVars, watch, age, draining, lag, lock, fileVars,
                   workers, deployVars, moves, requests, late>>

\* The finally block: the lock goes first, the exit is stamped afterwards,
\* merged into whatever heartbeat is there.
ReleaseLock(w) ==
    /\ Running(w) /\ pc[w] = "leaving"
    /\ lock' = NoOne
    /\ Goto(w, "released")
    /\ UNCHANGED <<wrapVars, watch, code, age, draining, lag, fileVars,
                   workers, deployVars, budgets, late>>

RecordExit(w) ==
    /\ Running(w) /\ pc[w] = "released"
    /\ hb' = [hb EXCEPT !.exited = TRUE]
    /\ Goto(w, "stamped")
    /\ UNCHANGED <<wrapVars, watch, code, age, draining, lag, lock, marker,
                   paused, workers, deployVars, budgets, late>>

ProcessEnds(w) ==
    /\ Running(w) /\ pc[w] = "stamped"
    /\ Goto(w, "dead")
    /\ UNCHANGED <<wrapVars, watch, code, age, draining, lag, lock, fileVars,
                   workers, deployVars, budgets, late>>

-----------------------------------------------------------------------------
(* The watchdog thread, the faults and the environment. *)

\* _is_wedged: the heartbeat is this child's only from its spawn on.
Fresh(w) == w \in hb.since
(* Mutants: no correlation with the spawn; no first-beat grace. *)
IsWedgedByAge(w) == ~hb.exited /\ hb.age > Threshold
IsWedgedByBeat(w) == Fresh(w) /\ ~hb.exited /\ hb.age > Threshold

IsWedged(w) ==
    IF Fresh(w) THEN ~hb.exited /\ hb.age > Threshold ELSE age[w] > Grace

Judge(w) ==
    /\ watch[w] = "look"
    /\ Alive(w)
    /\ IsWedged(w)
    /\ watch' = [watch EXCEPT ![w] = "kill"]
    /\ UNCHANGED <<wrapVars, childVars, lock, fileVars, workers, deployVars,
                   budgets, late>>

Dies(w, n) ==
    /\ Goto(w, "dead")
    /\ Exit(w, n)
    /\ lock' = IF lock = w THEN NoOne ELSE lock

\* Popen.kill of a child that ended meanwhile does nothing and does not raise:
\* the kill event is written all the same.
Kill(w) ==
    /\ watch[w] = "kill"
    /\ watch' = [watch EXCEPT ![w] = "off"]
    /\ IF Alive(w) THEN Dies(w, 1) ELSE UNCHANGED <<pc, code, lock>>
    /\ UNCHANGED <<wrapVars, age, draining, lag, fileVars, workers, deployVars,
                   budgets, late>>

\* Popen.kill raised: the watchdog goes on looking.
KillFails(w) ==
    /\ watch[w] = "kill" /\ Alive(w)
    /\ Fault
    /\ watch' = [watch EXCEPT ![w] = "look"]
    /\ UNCHANGED <<wrapVars, childVars, lock, fileVars, workers, deployVars,
                   moves, requests, late>>

Crash(w) ==
    /\ Alive(w)
    /\ Fault
    /\ Dies(w, 1)
    /\ UNCHANGED <<wrapVars, watch, age, draining, lag, fileVars, workers,
                   deployVars, moves, requests, late>>

Stall(w) ==
    /\ Running(w)
    /\ Fault
    /\ lag' = [lag EXCEPT ![w] = "stalled"]
    /\ UNCHANGED <<wrapVars, watch, pc, code, age, draining, lock, fileVars,
                   workers, deployVars, moves, requests, late>>

Recover(w) ==
    /\ Alive(w) /\ lag[w] = "stalled"
    /\ lag' = [lag EXCEPT ![w] = "recovered"]
    /\ UNCHANGED <<wrapVars, watch, pc, code, age, draining, lock, fileVars,
                   workers, deployVars, budgets, late>>

\* A child that never stalled beats in time.
InTime(w) ==
    Alive(w) /\ lag[w] = "no" =>
        IF pc[w] \in Starting THEN age[w] < Grace ELSE hb.age < Threshold

Older(n) == IF n < AgeCap THEN n + 1 ELSE n

Tick ==
    /\ \A w \in Wrappers : InTime(w)
    /\ age' = [w \in Wrappers |-> IF Alive(w) THEN Older(age[w]) ELSE age[w]]
    /\ hb' = [hb EXCEPT !.age = Older(@)]
    /\ sync' = IF sync.marker # "none" /\ sync.age < Starve THEN [sync EXCEPT !.age = @ + 1]
                                                         ELSE sync
    /\ UNCHANGED <<wrapVars, watch, pc, code, draining, lag, lock, marker,
                   paused, workers, main, budgets, late>>

WorkerEnds ==
    /\ workers
    /\ workers' = FALSE
    /\ UNCHANGED <<wrapVars, watch, childVars, lock, fileVars, deployVars,
                   budgets, late>>

\* origin/main moves on; kind: whether the change touches the dependencies.
MainMoves(kind) ==
    /\ moves < MaxMoves
    /\ moves' = moves + 1
    /\ main' = IF main = "deps" THEN "deps" ELSE kind
    /\ UNCHANGED <<wrapVars, watch, childVars, lock, fileVars, workers, sync,
                   requests, faults, late>>

Request(kind) ==
    /\ requests < MaxRequests
    /\ requests' = requests + 1
    /\ marker' = kind
    /\ late' = 0
    /\ UNCHANGED <<wrapVars, watch, childVars, lock, hb, paused, workers,
                   deployVars, moves, faults>>

Pause ==
    /\ ~paused
    /\ requests < MaxRequests
    /\ requests' = requests + 1
    /\ paused' = TRUE
    /\ UNCHANGED <<wrapVars, watch, childVars, lock, hb, marker, workers,
                   deployVars, moves, faults, late>>

Resume ==
    /\ paused
    /\ paused' = FALSE
    /\ UNCHANGED <<wrapVars, watch, childVars, lock, hb, marker, workers,
                   deployVars, budgets, late>>

-----------------------------------------------------------------------------
Boot(w) == BootRefused(w) \/ Acquire(w) \/ BootSync(w) \/ BootFails(w)
           \/ BootGoesOn(w) \/ Inspect(w) \/ RecordStarted(w)
Loop(w) == Beat(w) \/ RunsOut(w) \/ Poll(w) \/ HonourStop(w) \/ HonourPause(w)
           \/ DrainDone(w) \/ Idle(w) \/ Deploy(w) \/ EndPass(w)
           \/ PassRaises(w)
Finally(w) == ReleaseLock(w) \/ RecordExit(w) \/ ProcessEnds(w)

Next ==
    \/ \E w \in Wrappers :
         \/ StartWrapper(w) \/ Spawn(w) \/ Reap(w)
         \/ Boot(w) \/ Loop(w) \/ Dispatch(w) \/ Finally(w)
         \/ Judge(w) \/ Kill(w) \/ KillFails(w)
         \/ Crash(w) \/ Stall(w) \/ Recover(w)
    \/ Tick
    \/ WorkerEnds
    \/ \E kind \in {"code", "deps"} : MainMoves(kind)
    \/ \E kind \in {"stop", "drain"} : Request(kind)
    \/ Pause
    \/ Resume

Spec == Init /\ [][Next]_vars

\* A runnable process runs, the watchdog polls, the task ticks, a due pass is
\* not put off for ever, workers end.  Nobody has to recover from a stall.
FairSpec ==
    /\ Spec
    /\ \A w \in Wrappers :
         /\ WF_vars(Spawn(w)) /\ WF_vars(Reap(w))
         /\ WF_vars(Boot(w) \/ Loop(w) \/ Finally(w))
         /\ SF_vars(Deploy(w))
         /\ WF_vars(Judge(w)) /\ WF_vars(Kill(w))
    /\ \A w \in Scheduled : WF_vars(StartWrapper(w))
    /\ WF_vars(Tick)
    /\ WF_vars(WorkerEnds)

-----------------------------------------------------------------------------
(* Properties. *)

\* Types of the wrapper, child, heartbeat and request variables.
TypeOK ==
    /\ wrap \in [Wrappers -> {"idle", "spawn", "wait"}]
    /\ launches \in [Wrappers -> 0..MaxRelaunches + 1]
    /\ watch \in [Wrappers -> {"off", "look", "kill"}]
    /\ pc \in [Wrappers -> Gone \cup Starting \cup Looping \cup Ending]
    /\ code \in [Wrappers -> {0, 1, 3, 4, 5}]
    /\ age \in [Wrappers -> 0..AgeCap]
    /\ draining \in [Wrappers -> BOOLEAN]
    /\ lag \in [Wrappers -> {"no", "stalled", "recovered"}]
    /\ lock \in Wrappers \cup {NoOne}
    /\ hb \in [age : 0..AgeCap, exited : BOOLEAN, since : SUBSET Wrappers]
    /\ main \in {"same", "code", "deps"}
    /\ sync \in [marker : {"none", "held", "replays"}, age : 0..Starve, skew : BOOLEAN]
    /\ marker \in {"none", "stop", "drain"}
    /\ {paused, workers} \subseteq BOOLEAN
    /\ {moves, requests, faults, late} \subseteq Nat

\* Every exit path of a supervisor gives the lock back, and none gives back
\* a lock another holds: the lock names exactly the process inside.
Inside == {"locked", "healed", "inspected", "leaving"} \cup Looping
LockIsInside == \A w \in Wrappers : pc[w] \in Inside <=> lock = w

\* The watchdog never condemns a child that has kept its pace, whatever
\* heartbeat an earlier or a concurrent supervisor left in the file.
HealthySpared == \A w \in Wrappers : watch[w] = "kill" => lag[w] # "no"

\* A stop or drain request outlives crashes, kills, self-deploy restarts and
\* relaunches: while it is pending at most the one pass that had already
\* polled begins to dispatch.
AskedOnce == late <= 1

\* The exit stamp in the heartbeat can hide a stalled child for good.
Blind ==
    \E w \in Wrappers :
        Alive(w) /\ lag[w] = "stalled" /\ Fresh(w) /\ hb.exited

\* Once nothing pauses the fleet, passes run again and again: after crashes,
\* stalls, kills, refused starts, restarts and a wrapper that retired.
Resupervised ==
    <>[](~paused /\ ~Blind) => []<>(\E w \in Wrappers : pc[w] \in Passing)

\* A request is not forgotten: unless paused, it is honoured and consumed.
RequestHonoured == <>[](~paused /\ ~Blind) => []<>(marker = "none")

\* Packages that are not those of HEAD, and neither a marker nor a pass that is
\* about to write one says so: only a boot's probe can tell.
Unmarked ==
    sync.skew /\ sync.marker = "none" /\ \A w \in Wrappers : pc[w] # "merged"

\* What main brings is deployed: a change of the dependencies that was held back
\* while workers lived does not starve behind ever new workers, and whatever
\* merges, syncs, boots and processes fail, its marker is worked off (issues
\* #1855, #2312).  Packages that stay behind HEAD for good are unmarked, and only
\* a death between merge and marker or a boot's own sync leaves them so.
Deployed ==
    /\ <>[](~paused /\ ~Blind) =>
          /\ []<>(main = "same" /\ sync.marker = "none")
          /\ []<>(~sync.skew) \/ <>[]Unmarked
    /\ [][Unmarked' => \/ Unmarked
                       \/ \E w \in Wrappers : pc[w] = "merged" /\ pc'[w] = "dead"
                       \/ \E w \in Wrappers : pc[w] = "locked" /\ pc'[w] = "healed"]_vars
=============================================================================
