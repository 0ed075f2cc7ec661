---------------------------- MODULE FleetLaunch ----------------------------
(* The fleet-wide worker-launch gate: worker_launch_gate.py with the OS lock
   of file_lock.py / fleet_registry.py, the live counter of
   live_session_count.py / fleet_live_counts.py, and the three lanes that
   launch through it (fresh dispatch, remote rework, local rework).

   Every pass is one process (a supervised loop, or an operator's one-shot)
   running one lane over one repository.  Passes share the byte-range lock
   file, the holder sidecar beside it, fleet-pause.json, each repository's
   throttle window, and the session sidecars / state.json entries by which a
   running worker is counted.  A pass may die at any instruction.

   A worker process is counted through a live session sidecar or, failing
   that, through a state.json entry "dispatched" carrying its pid (a "ghost").
   The count is a walk, one file at a time, over repositories whose workers
   finish, lose their sidecar and get recorded meanwhile. *)
EXTENDS Naturals, FiniteSets

CONSTANTS
    Repos,        \* repositories of the fleet registry
    Passes,       \* processes that run a lane over a repository
    RepoOf,       \* the repository a pass works on
    LaneOf,       \* the lane it runs
    IgnorePause,  \* passes started with --ignore-pause
    Sessions,     \* identities (pid + start time) of worker processes
    FleetMax,     \* fleet.global_max_concurrent_sessions, enabled (> 0)
    MaxRequested, \* bound: workers one pass asks for
    NoPass,       \* "nobody holds it"
    NoRepo        \* "not running"

ASSUME FleetAssumption ==
    /\ RepoOf \in [Passes -> Repos]
    /\ LaneOf \in [Passes -> {"dispatch", "rework", "local"}]
    /\ IsFiniteSet(Sessions)
    /\ FleetMax \in Nat \ {0}
    /\ MaxRequested \in Nat
    /\ NoPass \notin Passes
    /\ NoRepo \notin Repos

VARIABLES
    fleetLock,   \* the pass holding the byte-range lock, or NoPass
    holder,      \* fleet lock holder sidecar: the pass it names, or NoPass
    paused,      \* fleet-pause.json exists
    throttled,   \* repositories inside a provider-throttle window
    inFleet,     \* repositories the registry walk resolves and counts
    home,        \* the repository a worker process runs for, or NoRepo
    sidecar,     \* running workers with a session sidecar
    recorded,    \* running workers that state.json has as dispatched, with pid
    pc,          \* where a pass is
    wrote,       \* FleetLaunchLock._wrote_holder
    todo,        \* registry walk: repositories not read yet
    half,        \* registry walk: sidecars read, state.json not yet
    seen,        \* registry walk: sessions counted
    maxLaunches, \* WorkerLaunchPermit.max_launches
    launched,    \* _LaunchLedger.launched
    calls,       \* _launch_workers calls the lane has left
    batch,       \* requests of the current call not handled yet
    fresh,       \* spawned by the pass, sidecar not written yet
    mine         \* launched by the pass and reported ok

vars == <<fleetLock, holder, paused, throttled, inFleet, home, sidecar,
          recorded, pc, wrote, todo, half, seen, maxLaunches, launched,
          calls, batch, fresh, mine>>

lockVars   == <<fleetLock, holder, wrote>>
envVars    == <<paused, throttled, inFleet>>
workerVars == <<home, sidecar, recorded>>
walkVars   == <<todo, half, seen>>
permitVars == <<maxLaunches, launched, calls, batch, fresh, mine>>

Locations == {"idle", "pauseGate", "precheck", "acquire", "writeHolder",
              "walk", "throttleGate", "permitted", "launching", "spawned",
              "record", "clear", "unlock"}

\* The lock, the permit and every pass's own state are well formed.
TypeOK ==
    /\ fleetLock \in Passes \cup {NoPass}
    /\ holder \in Passes \cup {NoPass}
    /\ paused \in BOOLEAN
    /\ throttled \in SUBSET Repos
    /\ inFleet \in SUBSET Repos
    /\ home \in [Sessions -> Repos \cup {NoRepo}]
    /\ sidecar \in SUBSET Sessions
    /\ recorded \in SUBSET Sessions
    /\ pc \in [Passes -> Locations]
    /\ wrote \in [Passes -> BOOLEAN]
    /\ todo \in [Passes -> SUBSET Repos]
    /\ half \in [Passes -> SUBSET Repos]
    /\ seen \in [Passes -> SUBSET Sessions]
    /\ maxLaunches \in [Passes -> Nat]
    /\ launched \in [Passes -> Nat]
    /\ calls \in [Passes -> 0 .. 2]
    /\ batch \in [Passes -> Nat]
    /\ fresh \in [Passes -> SUBSET Sessions]
    /\ mine \in [Passes -> SUBSET Sessions]

Init ==
    /\ fleetLock = NoPass /\ holder = NoPass
    /\ paused = FALSE /\ throttled = {} /\ inFleet = Repos
    /\ home = [s \in Sessions |-> NoRepo] /\ sidecar = {} /\ recorded = {}
    /\ pc = [p \in Passes |-> "idle"]
    /\ wrote = [p \in Passes |-> FALSE]
    /\ todo = [p \in Passes |-> {}]
    /\ half = [p \in Passes |-> {}]
    /\ seen = [p \in Passes |-> {}]
    /\ maxLaunches = [p \in Passes |-> 0]
    /\ launched = [p \in Passes |-> 0]
    /\ calls = [p \in Passes |-> 0]
    /\ batch = [p \in Passes |-> 0]
    /\ fresh = [p \in Passes |-> {}]
    /\ mine = [p \in Passes |-> {}]

-----------------------------------------------------------------------------
(* Running workers, and those the counter can find: by sidecar, by state.json
   entry, or about to be written to disk by the pass that spawned them. *)
Running == {s \in Sessions : home[s] # NoRepo}

Visible == {s \in Running : /\ home[s] \in inFleet
                            /\ \/ s \in sidecar \cup recorded
                               \/ \E p \in Passes : s \in fresh[p]}

Goto(p, l) == pc' = [pc EXCEPT ![p] = l]

(* The pass is over, returned or dead, and its Python locals with it. *)
Over(p) ==
    /\ Goto(p, "idle")
    /\ todo' = [todo EXCEPT ![p] = {}]
    /\ half' = [half EXCEPT ![p] = {}]
    /\ seen' = [seen EXCEPT ![p] = {}]
    /\ maxLaunches' = [maxLaunches EXCEPT ![p] = 0]
    /\ launched' = [launched EXCEPT ![p] = 0]
    /\ calls' = [calls EXCEPT ![p] = 0]
    /\ batch' = [batch EXCEPT ![p] = 0]
    /\ fresh' = [fresh EXCEPT ![p] = {}]
    /\ mine' = [mine EXCEPT ![p] = {}]

(* It goes on to l with what it knows. *)
Continue(p, l) ==
    Goto(p, l) /\ UNCHANGED <<walkVars, permitVars>>

(* It stops launching and goes to l: only what it launched is used again. *)
Leave(p, l) ==
    /\ Goto(p, l)
    /\ todo' = [todo EXCEPT ![p] = {}]
    /\ half' = [half EXCEPT ![p] = {}]
    /\ seen' = [seen EXCEPT ![p] = {}]
    /\ maxLaunches' = [maxLaunches EXCEPT ![p] = 0]
    /\ launched' = [launched EXCEPT ![p] = 0]
    /\ calls' = [calls EXCEPT ![p] = 0]
    /\ UNCHANGED <<batch, fresh>>

-----------------------------------------------------------------------------
(* Faulty forms of the actions below, each a slip this code could have made.
   They are part of no specification: they show which property notices. *)

(* try_acquire without the exclusion of msvcrt.locking / flock. *)
AcquireAnyway(p) ==
    /\ pc[p] = "acquire"
    /\ fleetLock' = p
    /\ Continue(p, "writeHolder")
    /\ UNCHANGED <<holder, wrote, envVars, workerVars>>

(* Gate P reads the pause file and ignores it. *)
PauseGateOpen(p) ==
    /\ pc[p] = "pauseGate"
    /\ Continue(p, "precheck")
    /\ UNCHANGED <<lockVars, envVars, workerVars>>

(* The state.json half of the count is missing: sidecars only (issue #343). *)
WalkWithoutGhosts(p, r) ==
    /\ pc[p] = "walk" /\ r \in half[p]
    /\ half' = [half EXCEPT ![p] = {}]
    /\ todo' = [todo EXCEPT ![p] = @ \ {r}]
    /\ UNCHANGED <<pc, lockVars, envVars, workerVars, seen, permitVars>>

(* Gate 4 refuses and returns without releasing the lock. *)
ThrottleGateLeaks(p) ==
    /\ pc[p] = "throttleGate"
    /\ IF RepoOf[p] \in throttled
       THEN Over(p)
       ELSE /\ Goto(p, "permitted")
            /\ calls' = [calls EXCEPT ![p] = IF LaneOf[p] = "rework" THEN 2 ELSE 1]
            /\ UNCHANGED <<walkVars, maxLaunches, launched, batch, fresh, mine>>
    /\ UNCHANGED <<lockVars, envVars, workerVars>>

(* Each call is held to the whole permit, not to what is left of it. *)
CallLaunchUndebited(p) ==
    /\ pc[p] = "permitted" /\ calls[p] > 0
    /\ \E n \in 1 .. MaxRequested :
          /\ n <= maxLaunches[p]
          /\ batch' = [batch EXCEPT ![p] = n]
          /\ launched' = [launched EXCEPT ![p] = @ + n]
    /\ calls' = [calls EXCEPT ![p] = @ - 1]
    /\ Goto(p, "launching")
    /\ UNCHANGED <<lockVars, envVars, workerVars, walkVars, maxLaunches,
                   fresh, mine>>

(* One failure too many is counted for a batch. *)
LaunchFailsTwice(p) ==
    /\ pc[p] = "launching"
    /\ batch' = [batch EXCEPT ![p] = @ - 1]
    /\ UNCHANGED <<pc, lockVars, envVars, workerVars, walkVars, maxLaunches,
                   launched, calls, fresh, mine>>

(* The OS lock is given back before the holder sidecar is dropped. *)
UnlockBeforeClear(p) ==
    /\ pc[p] = "clear"
    /\ fleetLock' = NoPass
    /\ Continue(p, "unlock")
    /\ UNCHANGED <<holder, wrote, envVars, workerVars>>

-----------------------------------------------------------------------------
(* A lane starts: its launch-lock handle is minted, the OS lock is not taken. *)
Start(p) ==
    /\ pc[p] = "idle"
    /\ Goto(p, "pauseGate")
    /\ UNCHANGED <<lockVars, envVars, workerVars, walkVars, permitVars>>

(* Gate P: fleet-pause.json, read without a lock. *)
PauseGate(p) ==
    /\ pc[p] = "pauseGate"
    /\ IF paused /\ p \notin IgnorePause THEN Over(p) ELSE Continue(p, "precheck")
    /\ UNCHANGED <<lockVars, envVars, workerVars>>

(* Gate 0: the repository's throttle window, read without a lock. *)
PreCheck(p) ==
    /\ pc[p] = "precheck"
    /\ IF RepoOf[p] \in throttled THEN Over(p) ELSE Continue(p, "acquire")
    /\ UNCHANGED <<lockVars, envVars, workerVars>>

(* Gate 1: one of the jittered attempts of ensure_acquired takes the lock. *)
Acquire(p) ==
    /\ pc[p] = "acquire"
    /\ fleetLock = NoPass
    /\ fleetLock' = p
    /\ Continue(p, "writeHolder")
    /\ UNCHANGED <<holder, wrote, envVars, workerVars>>

(* The wait budget is spent and the last attempt came back None: somebody
   holds the lock (or the lock file could not be opened).  The handle is dead. *)
AcquireTimesOut(p) ==
    /\ pc[p] = "acquire"
    /\ Over(p)
    /\ UNCHANGED <<lockVars, envVars, workerVars>>

(* _write_holder, best effort, then the registry is read and the walk begins. *)
WriteHolder(p) ==
    /\ pc[p] = "writeHolder"
    /\ \/ holder' = p /\ wrote' = [wrote EXCEPT ![p] = TRUE]
       \/ UNCHANGED <<holder, wrote>>
    /\ todo' = [todo EXCEPT ![p] = Repos]
    /\ Goto(p, "walk")
    /\ UNCHANGED <<fleetLock, envVars, workerVars, half, seen, permitVars>>

(* The walk skips a repository that is retired or cannot be resolved. *)
WalkSkips(p, r) ==
    /\ pc[p] = "walk" /\ half[p] = {}
    /\ r \in todo[p] /\ r \notin inFleet
    /\ todo' = [todo EXCEPT ![p] = @ \ {r}]
    /\ UNCHANGED <<pc, lockVars, envVars, workerVars, half, seen, permitVars>>

(* First half of counting a repository: its live sidecars. *)
WalkSidecars(p, r) ==
    /\ pc[p] = "walk" /\ half[p] = {}
    /\ r \in todo[p] /\ r \in inFleet
    /\ seen' = [seen EXCEPT ![p] = @ \cup {s \in sidecar : home[s] = r}]
    /\ half' = [half EXCEPT ![p] = {r}]
    /\ UNCHANGED <<pc, lockVars, envVars, workerVars, todo, permitVars>>

(* Second half: dispatched entries of its state.json whose pid is alive and
   that had no live sidecar a moment ago. *)
WalkGhosts(p, r) ==
    /\ pc[p] = "walk" /\ r \in half[p]
    /\ seen' = [seen EXCEPT ![p] = @ \cup {s \in recorded : home[s] = r}]
    /\ half' = [half EXCEPT ![p] = {}]
    /\ todo' = [todo EXCEPT ![p] = @ \ {r}]
    /\ UNCHANGED <<pc, lockVars, envVars, workerVars, permitVars>>

(* The governor: the fleet cap bounds the request, and the per-repository,
   backpressure, host-load and per-harness terms can only tighten it more. *)
Headroom(p) == {n \in 0 .. MaxRequested : n + Cardinality(seen[p]) <= FleetMax}

Govern(p) ==
    /\ pc[p] = "walk" /\ todo[p] = {} /\ half[p] = {}
    /\ \E n \in Headroom(p) \cup {0} :
          maxLaunches' = [maxLaunches EXCEPT ![p] = n]
    /\ Goto(p, "throttleGate")
    /\ UNCHANGED <<lockVars, envVars, workerVars, walkVars, launched,
                   calls, batch, fresh, mine>>

(* Gate 4: the throttle window again, under the state lock.  Refused, the lane
   goes to its release; otherwise the permit is minted.  The fresh and local
   lanes launch in one call, remote rework in two (normal, then rescue). *)
ThrottleGate(p) ==
    /\ pc[p] = "throttleGate"
    /\ IF RepoOf[p] \in throttled
       THEN Leave(p, "clear")
       ELSE /\ Goto(p, "permitted")
            /\ calls' = [calls EXCEPT ![p] = IF LaneOf[p] = "rework" THEN 2 ELSE 1]
            /\ UNCHANGED <<walkVars, maxLaunches, launched, batch, fresh>>
    /\ UNCHANGED <<mine, lockVars, envVars, workerVars>>

(* _launch_workers accepts a batch: the ledger is debited before any launch. *)
CallLaunch(p) ==
    /\ pc[p] = "permitted" /\ calls[p] > 0
    /\ \E n \in 1 .. MaxRequested :
          /\ n + launched[p] <= maxLaunches[p]
          /\ batch' = [batch EXCEPT ![p] = n]
          /\ launched' = [launched EXCEPT ![p] = @ + n]
    /\ calls' = [calls EXCEPT ![p] = @ - 1]
    /\ Goto(p, "launching")
    /\ UNCHANGED <<lockVars, envVars, workerVars, walkVars, maxLaunches,
                   fresh, mine>>

(* A batch over the permit's remaining budget is refused as a whole. *)
CallRefused(p) ==
    /\ pc[p] = "permitted" /\ calls[p] > 0
    /\ \E n \in 1 .. MaxRequested : n + launched[p] > maxLaunches[p]
    /\ calls' = [calls EXCEPT ![p] = @ - 1]
    /\ UNCHANGED <<pc, lockVars, envVars, workerVars, walkVars,
                   maxLaunches, launched, batch, fresh, mine>>

(* Popen: from here the worker process exists, on disk it does not. *)
Spawn(p, s) ==
    /\ pc[p] = "launching" /\ batch[p] > 0
    /\ home[s] = NoRepo
    /\ home' = [home EXCEPT ![s] = RepoOf[p]]
    /\ batch' = [batch EXCEPT ![p] = @ - 1]
    /\ fresh' = [fresh EXCEPT ![p] = {s}]
    /\ Goto(p, "spawned")
    /\ UNCHANGED <<lockVars, envVars, sidecar, recorded, walkVars,
                   maxLaunches, launched, calls, mine>>

(* The session sidecar is written (of a worker that may have exited already). *)
WriteSidecar(p) ==
    /\ pc[p] = "spawned"
    /\ sidecar' = sidecar \cup fresh[p]
    /\ mine' = [mine EXCEPT ![p] = @ \cup fresh[p]]
    /\ fresh' = [fresh EXCEPT ![p] = {}]
    /\ Goto(p, "launching")
    /\ UNCHANGED <<lockVars, envVars, home, recorded, walkVars,
                   maxLaunches, launched, calls, batch>>

(* Writing it raises: the request comes back failed, the process lives on. *)
SidecarWriteFails(p) ==
    /\ pc[p] = "spawned"
    /\ fresh' = [fresh EXCEPT ![p] = {}]
    /\ Goto(p, "launching")
    /\ UNCHANGED <<lockVars, envVars, workerVars, walkVars, maxLaunches,
                   launched, calls, batch, mine>>

(* A launch that fails before Popen is a failed result; the debit stays. *)
LaunchFails(p) ==
    /\ pc[p] = "launching" /\ batch[p] > 0
    /\ batch' = [batch EXCEPT ![p] = @ - 1]
    /\ UNCHANGED <<pc, lockVars, envVars, workerVars, walkVars,
                   maxLaunches, launched, calls, fresh, mine>>

CallReturns(p) ==
    /\ pc[p] = "launching" /\ batch[p] = 0
    /\ Continue(p, "permitted")
    /\ UNCHANGED <<lockVars, envVars, workerVars>>

(* The lane is done launching (it may have had nothing to launch).  The remote
   lanes release the fleet lock and then record the results in state.json; the
   local lane records inside its `with permit` block. *)
LaunchesDone(p) ==
    /\ pc[p] = "permitted"
    /\ Leave(p, IF LaneOf[p] = "local" THEN "record" ELSE "clear")
    /\ UNCHANGED <<mine, lockVars, envVars, workerVars>>

(* The results reach state.json: launched workers become dispatched entries. *)
Record(p) ==
    /\ pc[p] = "record"
    /\ recorded' = recorded \cup mine[p]
    /\ IF LaneOf[p] = "local" THEN Continue(p, "clear") ELSE Over(p)
    /\ UNCHANGED <<lockVars, envVars, home, sidecar>>

(* An exception inside the window unwinds to the `finally` / __exit__ release;
   nothing that was launched gets recorded. *)
Raise(p) ==
    /\ pc[p] \in {"walk", "throttleGate", "permitted", "record"}
    /\ IF fleetLock = p
       THEN Leave(p, "clear") /\ mine' = [mine EXCEPT ![p] = {}]
       ELSE Over(p)
    /\ UNCHANGED <<lockVars, envVars, workerVars>>

(* FleetLaunchLock.release drops the holder sidecar first ... *)
ClearHolder(p) ==
    /\ pc[p] = "clear"
    /\ holder' = IF wrote[p] THEN NoPass ELSE holder
    /\ wrote' = [wrote EXCEPT ![p] = FALSE]
    /\ Continue(p, "unlock")
    /\ UNCHANGED <<fleetLock, envVars, workerVars>>

(* ... and the OS lock second. *)
Unlock(p) ==
    /\ pc[p] = "unlock"
    /\ fleetLock' = NoPass
    /\ IF LaneOf[p] = "local" \/ mine[p] = {} THEN Over(p) ELSE Continue(p, "record")
    /\ UNCHANGED <<holder, wrote, envVars, workerVars>>

(* The process dies: the OS drops its lock, its files stay as they are. *)
Crash(p) ==
    /\ pc[p] # "idle"
    /\ fleetLock' = IF fleetLock = p THEN NoPass ELSE fleetLock
    /\ wrote' = [wrote EXCEPT ![p] = FALSE]
    /\ Over(p)
    /\ UNCHANGED <<holder, envVars, workerVars>>

-----------------------------------------------------------------------------
(* Workers and operator. *)

(* A worker process ends; its dead sidecar and entry no longer count. *)
WorkerExits(s) ==
    /\ home[s] # NoRepo
    /\ home' = [home EXCEPT ![s] = NoRepo]
    /\ sidecar' = sidecar \ {s}
    /\ recorded' = recorded \ {s}
    /\ fresh' = [p \in Passes |-> fresh[p] \ {s}]
    /\ mine' = [p \in Passes |-> mine[p] \ {s}]
    /\ UNCHANGED <<pc, lockVars, envVars, walkVars, maxLaunches,
                   launched, calls, batch>>

(* A sidecar goes missing under a live, recorded worker (issue #343). *)
SidecarLost(s) ==
    /\ s \in sidecar \cap recorded
    /\ sidecar' = sidecar \ {s}
    /\ UNCHANGED <<pc, lockVars, envVars, home, recorded, walkVars, permitVars>>

(* charlie fleet pause / resume. *)
TogglePause ==
    /\ paused' = ~paused
    /\ UNCHANGED <<pc, lockVars, throttled, inFleet, workerVars, walkVars, permitVars>>

(* A throttle window opens or expires. *)
ToggleThrottle(r) ==
    /\ throttled' = IF r \in throttled THEN throttled \ {r} ELSE throttled \cup {r}
    /\ UNCHANGED <<pc, lockVars, paused, inFleet, workerVars, walkVars, permitVars>>

(* A repository retires, or its root or state directory vanishes. *)
RepoLeaves(r) ==
    /\ r \in inFleet
    /\ inFleet' = inFleet \ {r}
    /\ UNCHANGED <<pc, lockVars, paused, throttled, workerVars, walkVars, permitVars>>

(* Everything a pass does once started, except dying. *)
PassStep(p) ==
    \/ PauseGate(p) \/ PreCheck(p) \/ Acquire(p) \/ AcquireTimesOut(p)
    \/ WriteHolder(p)
    \/ \E r \in Repos : WalkSkips(p, r) \/ WalkSidecars(p, r) \/ WalkGhosts(p, r)
    \/ Govern(p) \/ ThrottleGate(p) \/ CallLaunch(p) \/ CallRefused(p)
    \/ \E s \in Sessions : Spawn(p, s)
    \/ WriteSidecar(p) \/ SidecarWriteFails(p) \/ LaunchFails(p)
    \/ CallReturns(p) \/ LaunchesDone(p) \/ Record(p) \/ Raise(p)
    \/ ClearHolder(p) \/ Unlock(p)

Environment ==
    \/ \E s \in Sessions : WorkerExits(s) \/ SidecarLost(s)
    \/ TogglePause
    \/ \E r \in Repos : ToggleThrottle(r) \/ RepoLeaves(r)

Next ==
    \/ \E p \in Passes : Start(p) \/ PassStep(p) \/ Crash(p)
    \/ Environment

Spec == Init /\ [][Next]_vars

(* A live process keeps executing; that it dies or starts again is not owed. *)
FairSpec == Spec /\ \A p \in Passes : WF_vars(PassStep(p))

-----------------------------------------------------------------------------
(* Properties. *)

(* Locations between taking the OS lock and giving it back. *)
Window == {"writeHolder", "walk", "throttleGate", "permitted", "launching",
           "spawned", "clear", "unlock"}

(* The governor -> claim -> launch window is exclusive: whoever is inside it
   holds the one OS lock, so two passes never count and launch against the same
   stale total, whatever dies or times out (worker_launch_gate gates 1-4). *)
WindowExclusive ==
    \A p \in Passes : pc[p] \in Window => fleetLock = p

(* The fleet cap, which the gate exists for: however passes interleave, die
   between Popen and sidecar, lose sidecars or launch in two calls, the workers
   the fleet can see never exceed fleet.global_max_concurrent_sessions. *)
FleetCap == Cardinality(Visible) <= FleetMax

(* The sidecar that tells a starved waiter who holds the lock is not clobbered
   or unlinked by a predecessor still releasing (FleetLaunchLock.release). *)
HolderTruthful == \A p \in Passes : wrote[p] => (holder = p /\ fleetLock = p)

(* The normal and the rescue tier of remote rework share one budget: however the
   two calls are sized and whatever fails, the launches stay within the permit. *)
LaunchUnderPermit ==
    \A p \in Passes : pc[p] \in {"permitted", "launching", "spawned"} =>
        /\ Cardinality(mine[p]) + Cardinality(fresh[p]) + batch[p] <= launched[p]
        /\ launched[p] <= maxLaunches[p]

(* The inductive invariant behind FleetCap.  Inside the window the count stays
   an upper bound although it was not taken at once: every visible worker of a
   repository already read was counted, and of the one being read it was
   counted or is recorded (state.json is read after the sidecars, and a worker
   loses its sidecar only once recorded); afterwards whatever is visible was
   counted or launched under this very permit, which fits beside the count. *)
InWindow(p) == pc[p] \in Window \/ (pc[p] = "record" /\ LaneOf[p] = "local")

Exclusive == \A p \in Passes : InWindow(p) => fleetLock = p

Holders == \A p \in Passes : wrote[p] =>
    holder = p /\ InWindow(p) /\ pc[p] \notin {"writeHolder", "unlock"}

OnDisk ==
    /\ sidecar \subseteq Running /\ recorded \subseteq Running
    /\ \A p \in Passes : /\ fresh[p] \subseteq Running
                         /\ mine[p] \subseteq sidecar \cup recorded
                         /\ fresh[p] \cap (sidecar \cup recorded) = {}
                         /\ pc[p] # "spawned" => fresh[p] = {}

Walked == \A p \in Passes : IF pc[p] # "walk" THEN half[p] = {} ELSE
    /\ half[p] \subseteq todo[p]
    /\ \A s \in Visible : home[s] \notin todo[p] => s \in seen[p]
    /\ \A s \in Visible : home[s] \in half[p] => s \in seen[p] \cup recorded

Counting == {"throttleGate", "permitted", "launching", "spawned"}

Covered == \A p \in Passes : pc[p] \in Counting =>
    Visible \subseteq seen[p] \cup mine[p] \cup fresh[p]

Fits == \A p \in Passes : pc[p] \in Counting /\ maxLaunches[p] # 0 =>
    Cardinality(seen[p]) + maxLaunches[p] <= FleetMax

SpentBy(p) ==
    /\ pc[p] \notin {"record", "clear", "unlock"} =>
          Cardinality(mine[p]) + Cardinality(fresh[p]) + batch[p] <= launched[p]
    /\ launched[p] <= maxLaunches[p]
    /\ pc[p] \notin {"permitted", "launching", "spawned"} => launched[p] = 0
    /\ pc[p] \notin {"launching", "spawned"} => batch[p] = 0

Spent == \A p \in Passes : SpentBy(p)

LaunchInv == Exclusive /\ Holders /\ OnDisk /\ Walked /\ Covered /\ Fits /\ Spent

(* Every hold of the fleet lock ends: a crash frees it through the OS, every
   refusal between the acquisition and the launches through its own release,
   every other exit through `finally`. *)
LockFreed == \A p \in Passes : fleetLock = p ~> fleetLock # p

(* A pause that stays quiesces the fleet without killing anything: after the
   passes already beyond gate P have ended, nobody but an --ignore-pause pass
   launches (issue #2766). *)
PauseQuiesces ==
    (<>[]paused) =>
        <>[](\A p \in Passes \ IgnorePause :
                pc[p] \in {"idle", "pauseGate"})

(* What the fleet as a whole promises (FleetBudget), with the visible workers
   as its members. *)
Budget == INSTANCE FleetBudget WITH
    Ids <- Sessions, Max <- FleetMax, Size <- Cardinality, members <- Visible

BudgetKept == Budget!Spec

=============================================================================
