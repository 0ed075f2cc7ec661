------------------------- MODULE FleetLaunchProofs --------------------------
(* Theorems about FleetLaunch, for every set of repositories, passes and worker
   identities and every cap: type correctness, exclusion of the launch window,
   the holder sidecar, the fleet cap, that the gate implements FleetBudget, and
   that every hold of the lock runs out. *)
EXTENDS FleetLaunch, FiniteSetTheorems, TLAPS

(* The part of the type invariant about a pass's location and locals. *)
LocalsOK ==
    /\ pc \in [Passes -> Locations]
    /\ todo \in [Passes -> SUBSET Repos]
    /\ half \in [Passes -> SUBSET Repos]
    /\ seen \in [Passes -> SUBSET Sessions]
    /\ maxLaunches \in [Passes -> Nat]
    /\ launched \in [Passes -> Nat]
    /\ calls \in [Passes -> 0 .. 2]
    /\ batch \in [Passes -> Nat]
    /\ fresh \in [Passes -> SUBSET Sessions]
    /\ mine \in [Passes -> SUBSET Sessions]

(* Ending a pass, or moving it on, keeps its locals well typed. *)
LEMMA OverType ==
    ASSUME LocalsOK, NEW p \in Passes, Over(p) PROVE LocalsOK'
BY DEF LocalsOK, Locations, Over, Goto

(* A pass that moves on to another location keeps its locals well typed. *)
LEMMA ContinueType ==
    ASSUME LocalsOK, NEW p \in Passes, NEW l \in Locations, Continue(p, l)
    PROVE  LocalsOK'
BY DEF LocalsOK, Continue, Goto, walkVars, permitVars

(* So does a pass that leaves the window. *)
LEMMA LeaveType ==
    ASSUME LocalsOK, NEW p \in Passes, NEW l \in Locations, Leave(p, l),
           mine' \in [Passes -> SUBSET Sessions]
    PROVE  LocalsOK'
<1>1. /\ pc' \in [Passes -> Locations]
      /\ todo' \in [Passes -> SUBSET Repos]
      /\ half' \in [Passes -> SUBSET Repos]
      /\ seen' \in [Passes -> SUBSET Sessions]
  BY DEF LocalsOK, Leave, Goto
<1>2. /\ maxLaunches' \in [Passes -> Nat]
      /\ launched' \in [Passes -> Nat]
      /\ calls' \in [Passes -> 0 .. 2]
  BY DEF LocalsOK, Leave
<1>3. UNCHANGED <<batch, fresh>>
  BY DEF Leave
<1> QED
  BY <1>1, <1>2, <1>3 DEF LocalsOK

(* The steps that end the pass in one case and go on in another. *)
LEMMA PreCheckType ==
    ASSUME TypeOK, NEW p \in Passes, PreCheck(p) PROVE TypeOK'
<1>1. LocalsOK'
  <2>1. LocalsOK /\ "acquire" \in Locations
    BY DEF TypeOK, LocalsOK, Locations
  <2> QED
    BY <2>1, OverType, ContinueType DEF PreCheck
<1> QED
  BY <1>1 DEF PreCheck, TypeOK, LocalsOK, lockVars, envVars, workerVars

(* So is the pause gate, which does the same. *)
LEMMA PauseGateType ==
    ASSUME TypeOK, NEW p \in Passes, PauseGate(p) PROVE TypeOK'
<1>1. LocalsOK'
  <2>1. LocalsOK /\ "precheck" \in Locations
    BY DEF TypeOK, LocalsOK, Locations
  <2> QED
    BY <2>1, OverType, ContinueType DEF PauseGate
<1> QED
  BY <1>1 DEF PauseGate, TypeOK, LocalsOK, lockVars, envVars, workerVars

(* The second look at the throttle window mints a permit or leaves. *)
LEMMA ThrottleGateType ==
    ASSUME TypeOK, NEW p \in Passes, ThrottleGate(p) PROVE TypeOK'
<1>1. LocalsOK'
  <2>1. LocalsOK /\ "clear" \in Locations /\ "permitted" \in Locations
    BY DEF TypeOK, LocalsOK, Locations
  <2>2. CASE RepoOf[p] \in throttled
    <3>1. Leave(p, "clear") /\ mine' \in [Passes -> SUBSET Sessions]
      BY <2>2 DEF ThrottleGate, TypeOK, permitVars
    <3> QED
      BY <2>1, <3>1, LeaveType
  <2>3. CASE RepoOf[p] \notin throttled
    BY <2>1, <2>3 DEF ThrottleGate, LocalsOK, Goto, walkVars
  <2> QED
    BY <2>2, <2>3
<1> QED
  BY <1>1 DEF ThrottleGate, TypeOK, LocalsOK, lockVars, envVars, workerVars

(* Recording the launches is type correct, whether the pass ends there or not. *)
LEMMA RecordType ==
    ASSUME TypeOK, NEW p \in Passes, Record(p) PROVE TypeOK'
<1>1. LocalsOK'
  <2>1. LocalsOK /\ "clear" \in Locations
    BY DEF TypeOK, LocalsOK, Locations
  <2> QED
    BY <2>1, OverType, ContinueType DEF Record
<1> QED
  BY <1>1 DEF Record, TypeOK, LocalsOK, lockVars, envVars

(* An exception inside the window leads to the release, outside it to the end. *)
LEMMA RaiseType ==
    ASSUME TypeOK, NEW p \in Passes, Raise(p) PROVE TypeOK'
<1>1. LocalsOK'
  <2>1. LocalsOK /\ "clear" \in Locations
    BY DEF TypeOK, LocalsOK, Locations
  <2>2. CASE fleetLock = p
    <3>1. Leave(p, "clear") /\ mine' \in [Passes -> SUBSET Sessions]
      BY <2>2 DEF Raise, TypeOK
    <3> QED
      BY <2>1, <3>1, LeaveType
  <2>3. CASE fleetLock # p
    BY <2>1, <2>3, OverType DEF Raise
  <2> QED
    BY <2>2, <2>3
<1> QED
  BY <1>1 DEF Raise, TypeOK, LocalsOK, lockVars, envVars, workerVars

(* The release of the OS lock is type correct. *)
LEMMA UnlockType ==
    ASSUME TypeOK, NEW p \in Passes, Unlock(p) PROVE TypeOK'
<1>1. LocalsOK'
  <2>1. LocalsOK /\ "record" \in Locations
    BY DEF TypeOK, LocalsOK, Locations
  <2> QED
    BY <2>1, OverType, ContinueType DEF Unlock
<1> QED
  BY <1>1 DEF Unlock, TypeOK, LocalsOK, envVars, workerVars

(* Type correctness is preserved by every step. *)
LEMMA TypeStep == TypeOK /\ [Next]_vars => TypeOK'
<1> SUFFICES ASSUME TypeOK, [Next]_vars PROVE TypeOK'
  OBVIOUS
<1> USE FleetAssumption DEF TypeOK, Locations, Goto, Over, Continue, Leave,
        lockVars, envVars, workerVars, walkVars, permitVars
<1>1. ASSUME NEW p \in Passes, Start(p) PROVE TypeOK'
  BY <1>1 DEF Start
<1>2. ASSUME NEW p \in Passes, PauseGate(p) PROVE TypeOK'
  BY <1>2, PauseGateType
<1>3. ASSUME NEW p \in Passes, PreCheck(p) PROVE TypeOK'
  BY <1>3, PreCheckType
<1>4. ASSUME NEW p \in Passes, Acquire(p) PROVE TypeOK'
  BY <1>4 DEF Acquire
<1>5. ASSUME NEW p \in Passes, AcquireTimesOut(p) PROVE TypeOK'
  BY <1>5 DEF AcquireTimesOut
<1>6. ASSUME NEW p \in Passes, WriteHolder(p) PROVE TypeOK'
  BY <1>6 DEF WriteHolder
<1>7. ASSUME NEW p \in Passes, NEW r \in Repos, WalkSkips(p, r) PROVE TypeOK'
  BY <1>7 DEF WalkSkips
<1>8. ASSUME NEW p \in Passes, NEW r \in Repos, WalkSidecars(p, r) PROVE TypeOK'
  BY <1>8 DEF WalkSidecars
<1>9. ASSUME NEW p \in Passes, NEW r \in Repos, WalkGhosts(p, r) PROVE TypeOK'
  BY <1>9 DEF WalkGhosts
<1>10. ASSUME NEW p \in Passes, Govern(p) PROVE TypeOK'
  BY <1>10 DEF Govern, Headroom
<1>11. ASSUME NEW p \in Passes, ThrottleGate(p) PROVE TypeOK'
  BY <1>11, ThrottleGateType
<1>12. ASSUME NEW p \in Passes, CallLaunch(p) PROVE TypeOK'
  BY <1>12 DEF CallLaunch
<1>13. ASSUME NEW p \in Passes, CallRefused(p) PROVE TypeOK'
  BY <1>13 DEF CallRefused
<1>14. ASSUME NEW p \in Passes, NEW s \in Sessions, Spawn(p, s) PROVE TypeOK'
  BY <1>14 DEF Spawn
<1>15. ASSUME NEW p \in Passes, WriteSidecar(p) PROVE TypeOK'
  BY <1>15 DEF WriteSidecar
<1>16. ASSUME NEW p \in Passes, SidecarWriteFails(p) PROVE TypeOK'
  BY <1>16 DEF SidecarWriteFails
<1>17. ASSUME NEW p \in Passes, LaunchFails(p) PROVE TypeOK'
  BY <1>17 DEF LaunchFails
<1>18. ASSUME NEW p \in Passes, CallReturns(p) PROVE TypeOK'
  BY <1>18 DEF CallReturns
<1>19. ASSUME NEW p \in Passes, LaunchesDone(p) PROVE TypeOK'
  BY <1>19 DEF LaunchesDone
<1>20. ASSUME NEW p \in Passes, Record(p) PROVE TypeOK'
  BY <1>20, RecordType
<1>21. ASSUME NEW p \in Passes, Raise(p) PROVE TypeOK'
  BY <1>21, RaiseType
<1>22. ASSUME NEW p \in Passes, ClearHolder(p) PROVE TypeOK'
  BY <1>22 DEF ClearHolder
<1>23. ASSUME NEW p \in Passes, Unlock(p) PROVE TypeOK'
  BY <1>23, UnlockType
<1>24. ASSUME NEW p \in Passes, Crash(p) PROVE TypeOK'
  BY <1>24 DEF Crash
<1>25. ASSUME NEW s \in Sessions, WorkerExits(s) PROVE TypeOK'
  BY <1>25 DEF WorkerExits
<1>26. ASSUME NEW s \in Sessions, SidecarLost(s) PROVE TypeOK'
  BY <1>26 DEF SidecarLost
<1>27. CASE TogglePause
  BY <1>27 DEF TogglePause
<1>28. ASSUME NEW r \in Repos, ToggleThrottle(r) PROVE TypeOK'
  BY <1>28 DEF ToggleThrottle
<1>29. ASSUME NEW r \in Repos, RepoLeaves(r) PROVE TypeOK'
  BY <1>29 DEF RepoLeaves
<1>30. CASE UNCHANGED vars
  BY <1>30 DEF vars
<1> QED
  BY <1>1, <1>2, <1>3, <1>4, <1>5, <1>6, <1>7, <1>8, <1>9, <1>10, <1>11,
     <1>12, <1>13, <1>14, <1>15, <1>16, <1>17, <1>18, <1>19, <1>20, <1>21,
     <1>22, <1>23, <1>24, <1>25, <1>26, <1>27, <1>28, <1>29, <1>30
     DEF Next, PassStep, Environment

(* The lock and its holder sidecar. *)
LEMMA ExclusiveStep ==
    ASSUME TypeOK, Exclusive, [Next]_vars PROVE Exclusive'
<1> USE FleetAssumption DEF TypeOK, Exclusive, InWindow, Window, Goto, Over,
        Continue, Leave, lockVars, envVars, workerVars, walkVars, permitVars
<1>1. ASSUME NEW p \in Passes, Start(p) PROVE Exclusive'
  BY <1>1 DEF Start
<1>2. ASSUME NEW p \in Passes, PauseGate(p) PROVE Exclusive'
  BY <1>2 DEF PauseGate
<1>3. ASSUME NEW p \in Passes, PreCheck(p) PROVE Exclusive'
  BY <1>3 DEF PreCheck
<1>4. ASSUME NEW p \in Passes, Acquire(p) PROVE Exclusive'
  BY <1>4 DEF Acquire
<1>5. ASSUME NEW p \in Passes, AcquireTimesOut(p) PROVE Exclusive'
  BY <1>5 DEF AcquireTimesOut
<1>6. ASSUME NEW p \in Passes, WriteHolder(p) PROVE Exclusive'
  BY <1>6 DEF WriteHolder
<1>7. ASSUME NEW p \in Passes, Govern(p) PROVE Exclusive'
  BY <1>7 DEF Govern
<1>8. ASSUME NEW p \in Passes, ThrottleGate(p) PROVE Exclusive'
  BY <1>8 DEF ThrottleGate
<1>9. ASSUME NEW p \in Passes, CallLaunch(p) PROVE Exclusive'
  BY <1>9 DEF CallLaunch
<1>10. ASSUME NEW p \in Passes, CallRefused(p) PROVE Exclusive'
  BY <1>10 DEF CallRefused
<1>11. ASSUME NEW p \in Passes, WriteSidecar(p) PROVE Exclusive'
  BY <1>11 DEF WriteSidecar
<1>12. ASSUME NEW p \in Passes, SidecarWriteFails(p) PROVE Exclusive'
  BY <1>12 DEF SidecarWriteFails
<1>13. ASSUME NEW p \in Passes, LaunchFails(p) PROVE Exclusive'
  BY <1>13 DEF LaunchFails
<1>14. ASSUME NEW p \in Passes, CallReturns(p) PROVE Exclusive'
  BY <1>14 DEF CallReturns
<1>15. ASSUME NEW p \in Passes, LaunchesDone(p) PROVE Exclusive'
  BY <1>15 DEF LaunchesDone
<1>16. ASSUME NEW p \in Passes, Record(p) PROVE Exclusive'
  BY <1>16 DEF Record
<1>17. ASSUME NEW p \in Passes, Raise(p) PROVE Exclusive'
  BY <1>17 DEF Raise
<1>18. ASSUME NEW p \in Passes, ClearHolder(p) PROVE Exclusive'
  BY <1>18 DEF ClearHolder
<1>19. ASSUME NEW p \in Passes, Unlock(p) PROVE Exclusive'
  BY <1>19 DEF Unlock
<1>20. ASSUME NEW p \in Passes, Crash(p) PROVE Exclusive'
  BY <1>20 DEF Crash
<1>21. ASSUME NEW p \in Passes, NEW r \in Repos, WalkSkips(p, r) PROVE Exclusive'
  BY <1>21 DEF WalkSkips
<1>22. ASSUME NEW p \in Passes, NEW r \in Repos, WalkSidecars(p, r) PROVE Exclusive'
  BY <1>22 DEF WalkSidecars
<1>23. ASSUME NEW p \in Passes, NEW r \in Repos, WalkGhosts(p, r) PROVE Exclusive'
  BY <1>23 DEF WalkGhosts
<1>24. ASSUME NEW p \in Passes, NEW s \in Sessions, Spawn(p, s) PROVE Exclusive'
  BY <1>24 DEF Spawn
<1>25. ASSUME NEW s \in Sessions, WorkerExits(s) PROVE Exclusive'
  BY <1>25 DEF WorkerExits
<1>26. ASSUME NEW s \in Sessions, SidecarLost(s) PROVE Exclusive'
  BY <1>26 DEF SidecarLost
<1>27. ASSUME NEW r \in Repos, ToggleThrottle(r) PROVE Exclusive'
  BY <1>27 DEF ToggleThrottle
<1>28. ASSUME NEW r \in Repos, RepoLeaves(r) PROVE Exclusive'
  BY <1>28 DEF RepoLeaves
<1>29. ASSUME TogglePause PROVE Exclusive'
  BY <1>29 DEF TogglePause
<1>30. ASSUME UNCHANGED vars PROVE Exclusive'
  BY <1>30 DEF vars
<1> QED
  BY <1>1, <1>2, <1>3, <1>4, <1>5, <1>6, <1>7, <1>8, <1>9, <1>10, <1>11, <1>12, <1>13, <1>14, <1>15, <1>16, <1>17, <1>18, <1>19, <1>20, <1>21, <1>22, <1>23, <1>24, <1>25, <1>26, <1>27, <1>28, <1>29, <1>30
     DEF Next, PassStep, Environment

(* A holder sidecar that a pass wrote stays on disk while it holds the lock. *)
LEMMA HoldersStep ==
    ASSUME TypeOK, Exclusive, Holders, [Next]_vars PROVE Holders'
<1> USE FleetAssumption DEF TypeOK, Exclusive, Holders, InWindow, Window, Goto, Over,
        Continue, Leave, lockVars, envVars, workerVars, walkVars, permitVars
<1>1. ASSUME NEW p \in Passes, Start(p) PROVE Holders'
  BY <1>1 DEF Start
<1>2. ASSUME NEW p \in Passes, PauseGate(p) PROVE Holders'
  BY <1>2 DEF PauseGate
<1>3. ASSUME NEW p \in Passes, PreCheck(p) PROVE Holders'
  BY <1>3 DEF PreCheck
<1>4. ASSUME NEW p \in Passes, Acquire(p) PROVE Holders'
  BY <1>4 DEF Acquire
<1>5. ASSUME NEW p \in Passes, AcquireTimesOut(p) PROVE Holders'
  BY <1>5 DEF AcquireTimesOut
<1>6. ASSUME NEW p \in Passes, WriteHolder(p) PROVE Holders'
  BY <1>6 DEF WriteHolder
<1>7. ASSUME NEW p \in Passes, Govern(p) PROVE Holders'
  BY <1>7 DEF Govern
<1>8. ASSUME NEW p \in Passes, ThrottleGate(p) PROVE Holders'
  BY <1>8 DEF ThrottleGate
<1>9. ASSUME NEW p \in Passes, CallLaunch(p) PROVE Holders'
  BY <1>9 DEF CallLaunch
<1>10. ASSUME NEW p \in Passes, CallRefused(p) PROVE Holders'
  BY <1>10 DEF CallRefused
<1>11. ASSUME NEW p \in Passes, WriteSidecar(p) PROVE Holders'
  BY <1>11 DEF WriteSidecar
<1>12. ASSUME NEW p \in Passes, SidecarWriteFails(p) PROVE Holders'
  BY <1>12 DEF SidecarWriteFails
<1>13. ASSUME NEW p \in Passes, LaunchFails(p) PROVE Holders'
  BY <1>13 DEF LaunchFails
<1>14. ASSUME NEW p \in Passes, CallReturns(p) PROVE Holders'
  BY <1>14 DEF CallReturns
<1>15. ASSUME NEW p \in Passes, LaunchesDone(p) PROVE Holders'
  BY <1>15 DEF LaunchesDone
<1>16. ASSUME NEW p \in Passes, Record(p) PROVE Holders'
  BY <1>16 DEF Record
<1>17. ASSUME NEW p \in Passes, Raise(p) PROVE Holders'
  BY <1>17 DEF Raise
<1>18. ASSUME NEW p \in Passes, ClearHolder(p) PROVE Holders'
  BY <1>18 DEF ClearHolder
<1>19. ASSUME NEW p \in Passes, Unlock(p) PROVE Holders'
  BY <1>19 DEF Unlock
<1>20. ASSUME NEW p \in Passes, Crash(p) PROVE Holders'
  BY <1>20 DEF Crash
<1>21. ASSUME NEW p \in Passes, NEW r \in Repos, WalkSkips(p, r) PROVE Holders'
  BY <1>21 DEF WalkSkips
<1>22. ASSUME NEW p \in Passes, NEW r \in Repos, WalkSidecars(p, r) PROVE Holders'
  BY <1>22 DEF WalkSidecars
<1>23. ASSUME NEW p \in Passes, NEW r \in Repos, WalkGhosts(p, r) PROVE Holders'
  BY <1>23 DEF WalkGhosts
<1>24. ASSUME NEW p \in Passes, NEW s \in Sessions, Spawn(p, s) PROVE Holders'
  BY <1>24 DEF Spawn
<1>25. ASSUME NEW s \in Sessions, WorkerExits(s) PROVE Holders'
  BY <1>25 DEF WorkerExits
<1>26. ASSUME NEW s \in Sessions, SidecarLost(s) PROVE Holders'
  BY <1>26 DEF SidecarLost
<1>27. ASSUME NEW r \in Repos, ToggleThrottle(r) PROVE Holders'
  BY <1>27 DEF ToggleThrottle
<1>28. ASSUME NEW r \in Repos, RepoLeaves(r) PROVE Holders'
  BY <1>28 DEF RepoLeaves
<1>29. ASSUME TogglePause PROVE Holders'
  BY <1>29 DEF TogglePause
<1>30. ASSUME UNCHANGED vars PROVE Holders'
  BY <1>30 DEF vars
<1> QED
  BY <1>1, <1>2, <1>3, <1>4, <1>5, <1>6, <1>7, <1>8, <1>9, <1>10, <1>11, <1>12, <1>13, <1>14, <1>15, <1>16, <1>17, <1>18, <1>19, <1>20, <1>21, <1>22, <1>23, <1>24, <1>25, <1>26, <1>27, <1>28, <1>29, <1>30
     DEF Next, PassStep, Environment

(* What is on disk belongs to running workers. *)
LEMMA OnDiskStep ==
    ASSUME TypeOK, Exclusive, OnDisk, [Next]_vars PROVE OnDisk'
<1> USE FleetAssumption DEF TypeOK, Exclusive, InWindow, Window, OnDisk, Running,
        Goto, Over,
        Continue, Leave, lockVars, envVars, workerVars, walkVars, permitVars
<1>1. ASSUME NEW p \in Passes, Start(p) PROVE OnDisk'
  BY <1>1 DEF Start
<1>2. ASSUME NEW p \in Passes, PauseGate(p) PROVE OnDisk'
  BY <1>2 DEF PauseGate
<1>3. ASSUME NEW p \in Passes, PreCheck(p) PROVE OnDisk'
  BY <1>3 DEF PreCheck
<1>4. ASSUME NEW p \in Passes, Acquire(p) PROVE OnDisk'
  BY <1>4 DEF Acquire
<1>5. ASSUME NEW p \in Passes, AcquireTimesOut(p) PROVE OnDisk'
  BY <1>5 DEF AcquireTimesOut
<1>6. ASSUME NEW p \in Passes, WriteHolder(p) PROVE OnDisk'
  BY <1>6 DEF WriteHolder
<1>7. ASSUME NEW p \in Passes, Govern(p) PROVE OnDisk'
  BY <1>7 DEF Govern
<1>8. ASSUME NEW p \in Passes, ThrottleGate(p) PROVE OnDisk'
  BY <1>8 DEF ThrottleGate
<1>9. ASSUME NEW p \in Passes, CallLaunch(p) PROVE OnDisk'
  BY <1>9 DEF CallLaunch
<1>10. ASSUME NEW p \in Passes, CallRefused(p) PROVE OnDisk'
  BY <1>10 DEF CallRefused
<1>11. ASSUME NEW p \in Passes, WriteSidecar(p) PROVE OnDisk'
  BY <1>11 DEF WriteSidecar
<1>12. ASSUME NEW p \in Passes, SidecarWriteFails(p) PROVE OnDisk'
  BY <1>12 DEF SidecarWriteFails
<1>13. ASSUME NEW p \in Passes, LaunchFails(p) PROVE OnDisk'
  BY <1>13 DEF LaunchFails
<1>14. ASSUME NEW p \in Passes, CallReturns(p) PROVE OnDisk'
  BY <1>14 DEF CallReturns
<1>15. ASSUME NEW p \in Passes, LaunchesDone(p) PROVE OnDisk'
  BY <1>15 DEF LaunchesDone
<1>16. ASSUME NEW p \in Passes, Record(p) PROVE OnDisk'
  <2>1. CASE LaneOf[p] = "local"
    BY <1>16, <2>1 DEF Record
  <2>2. CASE LaneOf[p] # "local"
    BY <1>16, <2>2 DEF Record
  <2> QED
    BY <2>1, <2>2
<1>17. ASSUME NEW p \in Passes, Raise(p) PROVE OnDisk'
  BY <1>17 DEF Raise
<1>18. ASSUME NEW p \in Passes, ClearHolder(p) PROVE OnDisk'
  BY <1>18 DEF ClearHolder
<1>19. ASSUME NEW p \in Passes, Unlock(p) PROVE OnDisk'
  BY <1>19 DEF Unlock
<1>20. ASSUME NEW p \in Passes, Crash(p) PROVE OnDisk'
  BY <1>20 DEF Crash
<1>21. ASSUME NEW p \in Passes, NEW r \in Repos, WalkSkips(p, r) PROVE OnDisk'
  BY <1>21 DEF WalkSkips
<1>22. ASSUME NEW p \in Passes, NEW r \in Repos, WalkSidecars(p, r) PROVE OnDisk'
  BY <1>22 DEF WalkSidecars
<1>23. ASSUME NEW p \in Passes, NEW r \in Repos, WalkGhosts(p, r) PROVE OnDisk'
  BY <1>23 DEF WalkGhosts
<1>24. ASSUME NEW p \in Passes, NEW s \in Sessions, Spawn(p, s) PROVE OnDisk'
  BY <1>24 DEF Spawn
<1>25. ASSUME NEW s \in Sessions, WorkerExits(s) PROVE OnDisk'
  BY <1>25 DEF WorkerExits
<1>26. ASSUME NEW s \in Sessions, SidecarLost(s) PROVE OnDisk'
  BY <1>26 DEF SidecarLost
<1>27. ASSUME NEW r \in Repos, ToggleThrottle(r) PROVE OnDisk'
  BY <1>27 DEF ToggleThrottle
<1>28. ASSUME NEW r \in Repos, RepoLeaves(r) PROVE OnDisk'
  BY <1>28 DEF RepoLeaves
<1>29. ASSUME TogglePause PROVE OnDisk'
  BY <1>29 DEF TogglePause
<1>30. ASSUME UNCHANGED vars PROVE OnDisk'
  BY <1>30 DEF vars
<1> QED
  BY <1>1, <1>2, <1>3, <1>4, <1>5, <1>6, <1>7, <1>8, <1>9, <1>10, <1>11, <1>12, <1>13, <1>14, <1>15, <1>16, <1>17, <1>18, <1>19, <1>20, <1>21, <1>22, <1>23, <1>24, <1>25, <1>26, <1>27, <1>28, <1>29, <1>30
     DEF Next, PassStep, Environment

(* Only a spawn makes a worker visible, and nobody changes repository. *)
LEMMA VisibleStep ==
    ASSUME TypeOK, OnDisk, [Next]_vars,
           ~ \E p \in Passes, s \in Sessions : Spawn(p, s)
    PROVE  Visible' \subseteq Visible /\ \A s \in Visible' : home'[s] = home[s]
<1> DEFINE Goal == Visible' \subseteq Visible /\ \A s \in Visible' : home'[s] = home[s]
<1> USE FleetAssumption DEF TypeOK, OnDisk, Visible, Running, Goto, Over,
        Continue, Leave, lockVars, envVars, workerVars, walkVars, permitVars
<1>1. ASSUME NEW p \in Passes, Start(p) PROVE Goal
  BY <1>1 DEF Start
<1>2. ASSUME NEW p \in Passes, PauseGate(p) PROVE Goal
  BY <1>2 DEF PauseGate
<1>3. ASSUME NEW p \in Passes, PreCheck(p) PROVE Goal
  BY <1>3 DEF PreCheck
<1>4. ASSUME NEW p \in Passes, Acquire(p) PROVE Goal
  BY <1>4 DEF Acquire
<1>5. ASSUME NEW p \in Passes, AcquireTimesOut(p) PROVE Goal
  BY <1>5 DEF AcquireTimesOut
<1>6. ASSUME NEW p \in Passes, WriteHolder(p) PROVE Goal
  BY <1>6 DEF WriteHolder
<1>7. ASSUME NEW p \in Passes, Govern(p) PROVE Goal
  BY <1>7 DEF Govern
<1>8. ASSUME NEW p \in Passes, ThrottleGate(p) PROVE Goal
  BY <1>8 DEF ThrottleGate
<1>9. ASSUME NEW p \in Passes, CallLaunch(p) PROVE Goal
  BY <1>9 DEF CallLaunch
<1>10. ASSUME NEW p \in Passes, CallRefused(p) PROVE Goal
  BY <1>10 DEF CallRefused
<1>11. ASSUME NEW p \in Passes, WriteSidecar(p) PROVE Goal
  BY <1>11 DEF WriteSidecar
<1>12. ASSUME NEW p \in Passes, SidecarWriteFails(p) PROVE Goal
  BY <1>12 DEF SidecarWriteFails
<1>13. ASSUME NEW p \in Passes, LaunchFails(p) PROVE Goal
  BY <1>13 DEF LaunchFails
<1>14. ASSUME NEW p \in Passes, CallReturns(p) PROVE Goal
  BY <1>14 DEF CallReturns
<1>15. ASSUME NEW p \in Passes, LaunchesDone(p) PROVE Goal
  BY <1>15 DEF LaunchesDone
<1>16. ASSUME NEW p \in Passes, Record(p) PROVE Goal
  BY <1>16 DEF Record
<1>17. ASSUME NEW p \in Passes, Raise(p) PROVE Goal
  BY <1>17 DEF Raise
<1>18. ASSUME NEW p \in Passes, ClearHolder(p) PROVE Goal
  BY <1>18 DEF ClearHolder
<1>19. ASSUME NEW p \in Passes, Unlock(p) PROVE Goal
  BY <1>19 DEF Unlock
<1>20. ASSUME NEW p \in Passes, Crash(p) PROVE Goal
  BY <1>20 DEF Crash
<1>21. ASSUME NEW p \in Passes, NEW r \in Repos, WalkSkips(p, r) PROVE Goal
  BY <1>21 DEF WalkSkips
<1>22. ASSUME NEW p \in Passes, NEW r \in Repos, WalkSidecars(p, r) PROVE Goal
  BY <1>22 DEF WalkSidecars
<1>23. ASSUME NEW p \in Passes, NEW r \in Repos, WalkGhosts(p, r) PROVE Goal
  BY <1>23 DEF WalkGhosts
<1>24. ASSUME NEW p \in Passes, NEW s \in Sessions, Spawn(p, s) PROVE Goal
  BY <1>24 DEF Spawn
<1>25. ASSUME NEW s \in Sessions, WorkerExits(s) PROVE Goal
  BY <1>25 DEF WorkerExits
<1>26. ASSUME NEW s \in Sessions, SidecarLost(s) PROVE Goal
  BY <1>26 DEF SidecarLost
<1>27. ASSUME NEW r \in Repos, ToggleThrottle(r) PROVE Goal
  BY <1>27 DEF ToggleThrottle
<1>28. ASSUME NEW r \in Repos, RepoLeaves(r) PROVE Goal
  BY <1>28 DEF RepoLeaves
<1>29. ASSUME TogglePause PROVE Goal
  BY <1>29 DEF TogglePause
<1>30. ASSUME UNCHANGED vars PROVE Goal
  BY <1>30 DEF vars
<1> QED
  BY <1>1, <1>2, <1>3, <1>4, <1>5, <1>6, <1>7, <1>8, <1>9, <1>10, <1>11, <1>12, <1>13, <1>14, <1>15, <1>16, <1>17, <1>18, <1>19, <1>20, <1>21, <1>22, <1>23, <1>24, <1>25, <1>26, <1>27, <1>28, <1>29, <1>30
     DEF Next, PassStep, Environment

(* The count taken file by file misses nothing. *)
LEMMA WalkedStep ==
    ASSUME TypeOK, Exclusive, OnDisk, Walked, [Next]_vars PROVE Walked'
<1> USE FleetAssumption DEF TypeOK, Exclusive, InWindow, Window, OnDisk, Walked,
        Visible, Running, Goto, Over,
        Continue, Leave, lockVars, envVars, workerVars, walkVars, permitVars
<1>1. ASSUME NEW p \in Passes, Start(p) PROVE Walked'
  BY <1>1 DEF Start
<1>2. ASSUME NEW p \in Passes, PauseGate(p) PROVE Walked'
  <2>1. CASE paused /\ p \notin IgnorePause
    BY <1>2, <2>1, SMTT(30) DEF PauseGate
  <2>2. CASE ~(paused /\ p \notin IgnorePause)
    BY <1>2, <2>2, SMTT(30) DEF PauseGate
  <2> QED
    BY <2>1, <2>2
<1>3. ASSUME NEW p \in Passes, PreCheck(p) PROVE Walked'
  <2>1. CASE RepoOf[p] \in throttled
    BY <1>3, <2>1, SMTT(30) DEF PreCheck
  <2>2. CASE RepoOf[p] \notin throttled
    BY <1>3, <2>2, SMTT(30) DEF PreCheck
  <2> QED
    BY <2>1, <2>2
<1>4. ASSUME NEW p \in Passes, Acquire(p) PROVE Walked'
  BY <1>4 DEF Acquire
<1>5. ASSUME NEW p \in Passes, AcquireTimesOut(p) PROVE Walked'
  BY <1>5 DEF AcquireTimesOut
<1>6. ASSUME NEW p \in Passes, WriteHolder(p) PROVE Walked'
  BY <1>6 DEF WriteHolder
<1>7. ASSUME NEW p \in Passes, Govern(p) PROVE Walked'
  BY <1>7 DEF Govern
<1>8. ASSUME NEW p \in Passes, ThrottleGate(p) PROVE Walked'
  BY <1>8 DEF ThrottleGate
<1>9. ASSUME NEW p \in Passes, CallLaunch(p) PROVE Walked'
  BY <1>9 DEF CallLaunch
<1>10. ASSUME NEW p \in Passes, CallRefused(p) PROVE Walked'
  BY <1>10 DEF CallRefused
<1>11. ASSUME NEW p \in Passes, WriteSidecar(p) PROVE Walked'
  BY <1>11 DEF WriteSidecar
<1>12. ASSUME NEW p \in Passes, SidecarWriteFails(p) PROVE Walked'
  BY <1>12 DEF SidecarWriteFails
<1>13. ASSUME NEW p \in Passes, LaunchFails(p) PROVE Walked'
  BY <1>13 DEF LaunchFails
<1>14. ASSUME NEW p \in Passes, CallReturns(p) PROVE Walked'
  BY <1>14 DEF CallReturns
<1>15. ASSUME NEW p \in Passes, LaunchesDone(p) PROVE Walked'
  BY <1>15 DEF LaunchesDone
<1>16. ASSUME NEW p \in Passes, Record(p) PROVE Walked'
  <2>1. CASE LaneOf[p] = "local"
    BY <1>16, <2>1, SMTT(30) DEF Record
  <2>2. CASE LaneOf[p] # "local"
    BY <1>16, <2>2, SMTT(30) DEF Record
  <2> QED
    BY <2>1, <2>2
<1>17. ASSUME NEW p \in Passes, Raise(p) PROVE Walked'
  <2>1. CASE fleetLock = p
    BY <1>17, <2>1, SMTT(30) DEF Raise
  <2>2. CASE fleetLock # p
    BY <1>17, <2>2, SMTT(30) DEF Raise
  <2> QED
    BY <2>1, <2>2
<1>18. ASSUME NEW p \in Passes, ClearHolder(p) PROVE Walked'
  BY <1>18 DEF ClearHolder
<1>19. ASSUME NEW p \in Passes, Unlock(p) PROVE Walked'
  BY <1>19 DEF Unlock
<1>20. ASSUME NEW p \in Passes, Crash(p) PROVE Walked'
  BY <1>20 DEF Crash
<1>21. ASSUME NEW p \in Passes, NEW r \in Repos, WalkSkips(p, r) PROVE Walked'
  BY <1>21 DEF WalkSkips
<1>22. ASSUME NEW p \in Passes, NEW r \in Repos, WalkSidecars(p, r) PROVE Walked'
  BY <1>22 DEF WalkSidecars
<1>23. ASSUME NEW p \in Passes, NEW r \in Repos, WalkGhosts(p, r) PROVE Walked'
  BY <1>23 DEF WalkGhosts
<1>24. ASSUME NEW p \in Passes, NEW s \in Sessions, Spawn(p, s) PROVE Walked'
  BY <1>24 DEF Spawn
<1>25. ASSUME NEW s \in Sessions, WorkerExits(s) PROVE Walked'
  BY <1>25 DEF WorkerExits
<1>26. ASSUME NEW s \in Sessions, SidecarLost(s) PROVE Walked'
  BY <1>26 DEF SidecarLost
<1>27. ASSUME NEW r \in Repos, ToggleThrottle(r) PROVE Walked'
  BY <1>27 DEF ToggleThrottle
<1>28. ASSUME NEW r \in Repos, RepoLeaves(r) PROVE Walked'
  BY <1>28 DEF RepoLeaves
<1>29. ASSUME TogglePause PROVE Walked'
  BY <1>29 DEF TogglePause
<1>30. ASSUME UNCHANGED vars PROVE Walked'
  BY <1>30 DEF vars
<1> QED
  BY <1>1, <1>2, <1>3, <1>4, <1>5, <1>6, <1>7, <1>8, <1>9, <1>10, <1>11, <1>12, <1>13, <1>14, <1>15, <1>16, <1>17, <1>18, <1>19, <1>20, <1>21, <1>22, <1>23, <1>24, <1>25, <1>26, <1>27, <1>28, <1>29, <1>30
     DEF Next, PassStep, Environment

(* Afterwards everything visible was counted or launched under the permit. *)
LEMMA CoveredStep ==
    ASSUME TypeOK, Exclusive, OnDisk, Walked, Covered, [Next]_vars PROVE Covered'
<1> USE FleetAssumption DEF TypeOK, Exclusive, InWindow, Window, OnDisk, Walked, Covered, Counting,
        Visible, Running, Goto, Over,
        Continue, Leave, lockVars, envVars, workerVars, walkVars, permitVars
<1>1. ASSUME NEW p \in Passes, Start(p) PROVE Covered'
  BY <1>1 DEF Start
<1>2. ASSUME NEW p \in Passes, PauseGate(p) PROVE Covered'
  <2>1. CASE paused /\ p \notin IgnorePause
    BY <1>2, <2>1, SMTT(30) DEF PauseGate
  <2>2. CASE ~(paused /\ p \notin IgnorePause)
    BY <1>2, <2>2, SMTT(30) DEF PauseGate
  <2> QED
    BY <2>1, <2>2
<1>3. ASSUME NEW p \in Passes, PreCheck(p) PROVE Covered'
  <2>1. CASE RepoOf[p] \in throttled
    BY <1>3, <2>1, SMTT(30) DEF PreCheck
  <2>2. CASE RepoOf[p] \notin throttled
    BY <1>3, <2>2, SMTT(30) DEF PreCheck
  <2> QED
    BY <2>1, <2>2
<1>4. ASSUME NEW p \in Passes, Acquire(p) PROVE Covered'
  BY <1>4 DEF Acquire
<1>5. ASSUME NEW p \in Passes, AcquireTimesOut(p) PROVE Covered'
  BY <1>5 DEF AcquireTimesOut
<1>6. ASSUME NEW p \in Passes, WriteHolder(p) PROVE Covered'
  BY <1>6 DEF WriteHolder
<1>7. ASSUME NEW p \in Passes, Govern(p) PROVE Covered'
  BY <1>7 DEF Govern
<1>8. ASSUME NEW p \in Passes, ThrottleGate(p) PROVE Covered'
  BY <1>8 DEF ThrottleGate
<1>9. ASSUME NEW p \in Passes, CallLaunch(p) PROVE Covered'
  BY <1>9 DEF CallLaunch
<1>10. ASSUME NEW p \in Passes, CallRefused(p) PROVE Covered'
  BY <1>10 DEF CallRefused
<1>11. ASSUME NEW p \in Passes, WriteSidecar(p) PROVE Covered'
  BY <1>11 DEF WriteSidecar
<1>12. ASSUME NEW p \in Passes, SidecarWriteFails(p) PROVE Covered'
  BY <1>12 DEF SidecarWriteFails
<1>13. ASSUME NEW p \in Passes, LaunchFails(p) PROVE Covered'
  BY <1>13 DEF LaunchFails
<1>14. ASSUME NEW p \in Passes, CallReturns(p) PROVE Covered'
  BY <1>14 DEF CallReturns
<1>15. ASSUME NEW p \in Passes, LaunchesDone(p) PROVE Covered'
  BY <1>15 DEF LaunchesDone
<1>16. ASSUME NEW p \in Passes, Record(p) PROVE Covered'
  <2>1. CASE LaneOf[p] = "local"
    BY <1>16, <2>1, SMTT(30) DEF Record
  <2>2. CASE LaneOf[p] # "local"
    BY <1>16, <2>2, SMTT(30) DEF Record
  <2> QED
    BY <2>1, <2>2
<1>17. ASSUME NEW p \in Passes, Raise(p) PROVE Covered'
  <2>1. CASE fleetLock = p
    BY <1>17, <2>1, SMTT(30) DEF Raise
  <2>2. CASE fleetLock # p
    BY <1>17, <2>2, SMTT(30) DEF Raise
  <2> QED
    BY <2>1, <2>2
<1>18. ASSUME NEW p \in Passes, ClearHolder(p) PROVE Covered'
  BY <1>18 DEF ClearHolder
<1>19. ASSUME NEW p \in Passes, Unlock(p) PROVE Covered'
  BY <1>19 DEF Unlock
<1>20. ASSUME NEW p \in Passes, Crash(p) PROVE Covered'
  BY <1>20 DEF Crash
<1>21. ASSUME NEW p \in Passes, NEW r \in Repos, WalkSkips(p, r) PROVE Covered'
  BY <1>21 DEF WalkSkips
<1>22. ASSUME NEW p \in Passes, NEW r \in Repos, WalkSidecars(p, r) PROVE Covered'
  BY <1>22 DEF WalkSidecars
<1>23. ASSUME NEW p \in Passes, NEW r \in Repos, WalkGhosts(p, r) PROVE Covered'
  BY <1>23 DEF WalkGhosts
<1>24. ASSUME NEW p \in Passes, NEW s \in Sessions, Spawn(p, s) PROVE Covered'
  BY <1>24 DEF Spawn
<1>25. ASSUME NEW s \in Sessions, WorkerExits(s) PROVE Covered'
  BY <1>25 DEF WorkerExits
<1>26. ASSUME NEW s \in Sessions, SidecarLost(s) PROVE Covered'
  BY <1>26 DEF SidecarLost
<1>27. ASSUME NEW r \in Repos, ToggleThrottle(r) PROVE Covered'
  BY <1>27 DEF ToggleThrottle
<1>28. ASSUME NEW r \in Repos, RepoLeaves(r) PROVE Covered'
  BY <1>28 DEF RepoLeaves
<1>29. ASSUME TogglePause PROVE Covered'
  BY <1>29 DEF TogglePause
<1>30. ASSUME UNCHANGED vars PROVE Covered'
  BY <1>30 DEF vars
<1> QED
  BY <1>1, <1>2, <1>3, <1>4, <1>5, <1>6, <1>7, <1>8, <1>9, <1>10, <1>11, <1>12, <1>13, <1>14, <1>15, <1>16, <1>17, <1>18, <1>19, <1>20, <1>21, <1>22, <1>23, <1>24, <1>25, <1>26, <1>27, <1>28, <1>29, <1>30
     DEF Next, PassStep, Environment

(* The sets of workers a pass keeps are finite. *)
LEMMA FiniteParts ==
    ASSUME TypeOK, NEW p \in Passes
    PROVE  /\ IsFiniteSet(seen[p]) /\ Cardinality(seen[p]) \in Nat
           /\ IsFiniteSet(mine[p]) /\ Cardinality(mine[p]) \in Nat
           /\ IsFiniteSet(fresh[p]) /\ Cardinality(fresh[p]) \in Nat
<1>1. /\ IsFiniteSet(seen[p]) /\ IsFiniteSet(mine[p]) /\ IsFiniteSet(fresh[p])
  BY FleetAssumption, FS_Subset DEF TypeOK
<1> QED
  BY <1>1, FS_CardinalityType

(* The permit fits beside the count. *)
LEMMA FitsStep ==
    ASSUME TypeOK, Fits, [Next]_vars PROVE Fits'
<1> USE FleetAssumption DEF TypeOK, Fits, Counting, Goto, Over,
        Continue, Leave, lockVars, envVars, workerVars, walkVars, permitVars
<1>1. ASSUME NEW p \in Passes, Start(p) PROVE Fits'
  BY <1>1 DEF Start
<1>2. ASSUME NEW p \in Passes, PauseGate(p) PROVE Fits'
  <2>1. CASE paused /\ p \notin IgnorePause
    BY <1>2, <2>1 DEF PauseGate
  <2>2. CASE ~(paused /\ p \notin IgnorePause)
    BY <1>2, <2>2 DEF PauseGate
  <2> QED
    BY <2>1, <2>2
<1>3. ASSUME NEW p \in Passes, PreCheck(p) PROVE Fits'
  <2>1. CASE RepoOf[p] \in throttled
    BY <1>3, <2>1 DEF PreCheck
  <2>2. CASE RepoOf[p] \notin throttled
    BY <1>3, <2>2 DEF PreCheck
  <2> QED
    BY <2>1, <2>2
<1>4. ASSUME NEW p \in Passes, Acquire(p) PROVE Fits'
  BY <1>4 DEF Acquire
<1>5. ASSUME NEW p \in Passes, AcquireTimesOut(p) PROVE Fits'
  BY <1>5 DEF AcquireTimesOut
<1>6. ASSUME NEW p \in Passes, WriteHolder(p) PROVE Fits'
  BY <1>6 DEF WriteHolder
<1>7. ASSUME NEW p \in Passes, Govern(p) PROVE Fits'
  <2>1. Cardinality(seen[p]) \in Nat
    BY FiniteParts
  <2>2. PICK n \in Headroom(p) \cup {0} : maxLaunches' = [maxLaunches EXCEPT ![p] = n]
    BY <1>7 DEF Govern
  <2> QED
    BY <1>7, <2>1, <2>2 DEF Govern, Headroom
<1>8. ASSUME NEW p \in Passes, ThrottleGate(p) PROVE Fits'
  BY <1>8 DEF ThrottleGate
<1>9. ASSUME NEW p \in Passes, CallLaunch(p) PROVE Fits'
  BY <1>9 DEF CallLaunch
<1>10. ASSUME NEW p \in Passes, CallRefused(p) PROVE Fits'
  BY <1>10 DEF CallRefused
<1>11. ASSUME NEW p \in Passes, WriteSidecar(p) PROVE Fits'
  BY <1>11 DEF WriteSidecar
<1>12. ASSUME NEW p \in Passes, SidecarWriteFails(p) PROVE Fits'
  BY <1>12 DEF SidecarWriteFails
<1>13. ASSUME NEW p \in Passes, LaunchFails(p) PROVE Fits'
  BY <1>13 DEF LaunchFails
<1>14. ASSUME NEW p \in Passes, CallReturns(p) PROVE Fits'
  BY <1>14 DEF CallReturns
<1>15. ASSUME NEW p \in Passes, LaunchesDone(p) PROVE Fits'
  BY <1>15 DEF LaunchesDone
<1>16. ASSUME NEW p \in Passes, Record(p) PROVE Fits'
  BY <1>16 DEF Record
<1>17. ASSUME NEW p \in Passes, Raise(p) PROVE Fits'
  BY <1>17 DEF Raise
<1>18. ASSUME NEW p \in Passes, ClearHolder(p) PROVE Fits'
  BY <1>18 DEF ClearHolder
<1>19. ASSUME NEW p \in Passes, Unlock(p) PROVE Fits'
  BY <1>19 DEF Unlock
<1>20. ASSUME NEW p \in Passes, Crash(p) PROVE Fits'
  BY <1>20 DEF Crash
<1>21. ASSUME NEW p \in Passes, NEW r \in Repos, WalkSkips(p, r) PROVE Fits'
  BY <1>21 DEF WalkSkips
<1>22. ASSUME NEW p \in Passes, NEW r \in Repos, WalkSidecars(p, r) PROVE Fits'
  BY <1>22 DEF WalkSidecars
<1>23. ASSUME NEW p \in Passes, NEW r \in Repos, WalkGhosts(p, r) PROVE Fits'
  BY <1>23 DEF WalkGhosts
<1>24. ASSUME NEW p \in Passes, NEW s \in Sessions, Spawn(p, s) PROVE Fits'
  BY <1>24 DEF Spawn
<1>25. ASSUME NEW s \in Sessions, WorkerExits(s) PROVE Fits'
  BY <1>25 DEF WorkerExits
<1>26. ASSUME NEW s \in Sessions, SidecarLost(s) PROVE Fits'
  BY <1>26 DEF SidecarLost
<1>27. ASSUME NEW r \in Repos, ToggleThrottle(r) PROVE Fits'
  BY <1>27 DEF ToggleThrottle
<1>28. ASSUME NEW r \in Repos, RepoLeaves(r) PROVE Fits'
  BY <1>28 DEF RepoLeaves
<1>29. ASSUME TogglePause PROVE Fits'
  BY <1>29 DEF TogglePause
<1>30. ASSUME UNCHANGED vars PROVE Fits'
  BY <1>30 DEF vars
<1> QED
  BY <1>1, <1>2, <1>3, <1>4, <1>5, <1>6, <1>7, <1>8, <1>9, <1>10, <1>11, <1>12, <1>13, <1>14, <1>15, <1>16, <1>17, <1>18, <1>19, <1>20, <1>21, <1>22, <1>23, <1>24, <1>25, <1>26, <1>27, <1>28, <1>29, <1>30
     DEF Next, PassStep, Environment

(* The launches made stay within the permit. *)
LEMMA OverSpent ==
    ASSUME TypeOK, Spent, NEW p \in Passes, Over(p) PROVE Spent'
<1> SUFFICES ASSUME NEW q \in Passes PROVE SpentBy(q)'
  BY DEF Spent
<1>1. CASE q = p
  <2>1. /\ mine'[p] = {} /\ fresh'[p] = {} /\ batch'[p] = 0
        /\ launched'[p] = 0 /\ maxLaunches'[p] = 0
    BY DEF TypeOK, Over
  <2> QED
    BY <1>1, <2>1, FS_EmptySet DEF SpentBy
<1>2. CASE q # p
  <2>1. /\ mine'[q] = mine[q] /\ fresh'[q] = fresh[q] /\ batch'[q] = batch[q]
        /\ launched'[q] = launched[q] /\ maxLaunches'[q] = maxLaunches[q]
        /\ pc'[q] = pc[q]
    BY <1>2 DEF TypeOK, Over, Goto
  <2> QED
    BY <2>1 DEF SpentBy, Spent
<1> QED
  BY <1>1, <1>2

(* Every step keeps the launches of a pass within what its permit granted. *)
LEMMA SpentStep ==
    ASSUME TypeOK, Spent, [Next]_vars PROVE Spent'
<1>0. \A p \in Passes : /\ IsFiniteSet(mine[p]) /\ Cardinality(mine[p]) \in Nat
                        /\ IsFiniteSet(fresh[p]) /\ Cardinality(fresh[p]) \in Nat
  BY FiniteParts
<1>a. Cardinality({}) = 0
  BY FS_EmptySet
<1> USE <1>0, <1>a, FleetAssumption DEF TypeOK, Spent, SpentBy, Goto,
        Continue, Leave, lockVars, envVars, workerVars, walkVars, permitVars
<1>1. ASSUME NEW p \in Passes, Start(p) PROVE Spent'
  BY <1>1 DEF Start
<1>2. ASSUME NEW p \in Passes, PauseGate(p) PROVE Spent'
  <2>1. CASE paused /\ p \notin IgnorePause
    BY <1>2, <2>1, OverSpent DEF PauseGate
  <2>2. CASE ~(paused /\ p \notin IgnorePause)
    BY <1>2, <2>2 DEF PauseGate
  <2> QED
    BY <2>1, <2>2
<1>3. ASSUME NEW p \in Passes, PreCheck(p) PROVE Spent'
  <2>1. CASE RepoOf[p] \in throttled
    BY <1>3, <2>1, OverSpent DEF PreCheck
  <2>2. CASE RepoOf[p] \notin throttled
    BY <1>3, <2>2 DEF PreCheck
  <2> QED
    BY <2>1, <2>2
<1>4. ASSUME NEW p \in Passes, Acquire(p) PROVE Spent'
  BY <1>4 DEF Acquire
<1>5. ASSUME NEW p \in Passes, AcquireTimesOut(p) PROVE Spent'
  BY <1>5, OverSpent DEF AcquireTimesOut
<1>6. ASSUME NEW p \in Passes, WriteHolder(p) PROVE Spent'
  BY <1>6 DEF WriteHolder
<1>7. ASSUME NEW p \in Passes, Govern(p) PROVE Spent'
  <2>1. PICK n \in Headroom(p) \cup {0} : maxLaunches' = [maxLaunches EXCEPT ![p] = n]
    BY <1>7 DEF Govern
  <2>2. n \in Nat
    BY DEF Headroom
  <2> QED
    BY <1>7, <2>1, <2>2 DEF Govern
<1>8. ASSUME NEW p \in Passes, ThrottleGate(p) PROVE Spent'
  BY <1>8 DEF ThrottleGate
<1>9. ASSUME NEW p \in Passes, CallLaunch(p) PROVE Spent'
  BY <1>9 DEF CallLaunch
<1>10. ASSUME NEW p \in Passes, CallRefused(p) PROVE Spent'
  BY <1>10 DEF CallRefused
<1>11. ASSUME NEW p \in Passes, WriteSidecar(p) PROVE Spent'
  <2>1. Cardinality(mine[p] \cup fresh[p]) \in Nat
    BY FS_Union, FS_CardinalityType
  <2>2. Cardinality(mine[p] \cup fresh[p]) <= Cardinality(mine[p]) + Cardinality(fresh[p])
    <3>1. Cardinality(mine[p] \cap fresh[p]) \in Nat
      BY FS_Intersection, FS_CardinalityType
    <3>2. Cardinality(mine[p] \cup fresh[p])
            = Cardinality(mine[p]) + Cardinality(fresh[p]) - Cardinality(mine[p] \cap fresh[p])
      BY FS_Union
    <3> QED
      BY <3>1, <3>2
  <2> QED
    BY <1>11, <2>1, <2>2 DEF WriteSidecar
<1>12. ASSUME NEW p \in Passes, SidecarWriteFails(p) PROVE Spent'
  BY <1>12 DEF SidecarWriteFails
<1>13. ASSUME NEW p \in Passes, LaunchFails(p) PROVE Spent'
  BY <1>13 DEF LaunchFails
<1>14. ASSUME NEW p \in Passes, CallReturns(p) PROVE Spent'
  BY <1>14 DEF CallReturns
<1>15. ASSUME NEW p \in Passes, LaunchesDone(p) PROVE Spent'
  BY <1>15 DEF LaunchesDone
<1>16. ASSUME NEW p \in Passes, Record(p) PROVE Spent'
  <2>1. CASE LaneOf[p] # "local"
    BY <1>16, <2>1, OverSpent DEF Record
  <2>2. CASE LaneOf[p] = "local"
    BY <1>16, <2>2 DEF Record
  <2> QED
    BY <2>1, <2>2
<1>17. ASSUME NEW p \in Passes, Raise(p) PROVE Spent'
  <2>1. CASE fleetLock # p
    BY <1>17, <2>1, OverSpent DEF Raise
  <2>2. CASE fleetLock = p
    BY <1>17, <2>2 DEF Raise
  <2> QED
    BY <2>1, <2>2
<1>18. ASSUME NEW p \in Passes, ClearHolder(p) PROVE Spent'
  BY <1>18 DEF ClearHolder
<1>19. ASSUME NEW p \in Passes, Unlock(p) PROVE Spent'
  <2>1. CASE LaneOf[p] = "local" \/ mine[p] = {}
    BY <1>19, <2>1, OverSpent DEF Unlock
  <2>2. CASE ~(LaneOf[p] = "local" \/ mine[p] = {})
    BY <1>19, <2>2 DEF Unlock
  <2> QED
    BY <2>1, <2>2
<1>20. ASSUME NEW p \in Passes, Crash(p) PROVE Spent'
  BY <1>20, OverSpent DEF Crash
<1>21. ASSUME NEW p \in Passes, NEW r \in Repos, WalkSkips(p, r) PROVE Spent'
  BY <1>21 DEF WalkSkips
<1>22. ASSUME NEW p \in Passes, NEW r \in Repos, WalkSidecars(p, r) PROVE Spent'
  BY <1>22 DEF WalkSidecars
<1>23. ASSUME NEW p \in Passes, NEW r \in Repos, WalkGhosts(p, r) PROVE Spent'
  BY <1>23 DEF WalkGhosts
<1>24. ASSUME NEW p \in Passes, NEW s \in Sessions, Spawn(p, s) PROVE Spent'
  <2>1. Cardinality({s}) = 1
    BY FS_Singleton
  <2> QED
    BY <1>24, <2>1 DEF Spawn
<1>25. ASSUME NEW s \in Sessions, WorkerExits(s) PROVE Spent'
  <2> SUFFICES ASSUME NEW q \in Passes PROVE SpentBy(q)'
    BY DEF Spent
  <2>1. /\ Cardinality(mine[q] \ {s}) \in Nat
        /\ Cardinality(mine[q] \ {s}) <= Cardinality(mine[q])
    BY FS_Subset, FS_CardinalityType
  <2>2. /\ Cardinality(fresh[q] \ {s}) \in Nat
        /\ Cardinality(fresh[q] \ {s}) <= Cardinality(fresh[q])
    BY FS_Subset, FS_CardinalityType
  <2>3. mine'[q] = mine[q] \ {s} /\ fresh'[q] = fresh[q] \ {s}
    BY <1>25 DEF WorkerExits
  <2> QED
    BY <1>25, <2>1, <2>2, <2>3 DEF WorkerExits
<1>26. ASSUME NEW s \in Sessions, SidecarLost(s) PROVE Spent'
  BY <1>26 DEF SidecarLost
<1>27. ASSUME NEW r \in Repos, ToggleThrottle(r) PROVE Spent'
  BY <1>27 DEF ToggleThrottle
<1>28. ASSUME NEW r \in Repos, RepoLeaves(r) PROVE Spent'
  BY <1>28 DEF RepoLeaves
<1>29. ASSUME TogglePause PROVE Spent'
  BY <1>29 DEF TogglePause
<1>30. ASSUME UNCHANGED vars PROVE Spent'
  BY <1>30 DEF vars
<1> QED
  BY <1>1, <1>2, <1>3, <1>4, <1>5, <1>6, <1>7, <1>8, <1>9, <1>10, <1>11, <1>12, <1>13, <1>14, <1>15, <1>16, <1>17, <1>18, <1>19, <1>20, <1>21, <1>22, <1>23, <1>24, <1>25, <1>26, <1>27, <1>28, <1>29, <1>30
     DEF Next, PassStep, Environment

-----------------------------------------------------------------------------
(* The invariant is inductive. *)
LEMMA InitInv == Init => TypeOK /\ LaunchInv
<1> SUFFICES ASSUME Init PROVE TypeOK /\ LaunchInv
  OBVIOUS
<1>1. TypeOK
  <2>1. LocalsOK
    BY DEF Init, LocalsOK, Locations
  <2>2. /\ fleetLock \in Passes \cup {NoPass} /\ holder \in Passes \cup {NoPass}
        /\ paused \in BOOLEAN /\ throttled \in SUBSET Repos
        /\ inFleet \in SUBSET Repos /\ home \in [Sessions -> Repos \cup {NoRepo}]
        /\ sidecar \in SUBSET Sessions /\ recorded \in SUBSET Sessions
        /\ wrote \in [Passes -> BOOLEAN]
    BY DEF Init
  <2> QED
    BY <2>1, <2>2 DEF TypeOK, LocalsOK
<1>2. Exclusive /\ Holders
  BY DEF Init, Exclusive, Holders, InWindow, Window
<1>3. OnDisk /\ Walked /\ Covered /\ Fits
  BY DEF Init, OnDisk, Walked, Covered, Fits, Counting, Running
<1>4. Spent
  BY FS_EmptySet DEF Init, Spent, SpentBy
<1> QED
  BY <1>1, <1>2, <1>3, <1>4 DEF LaunchInv

(* Every step of the gate keeps types and LaunchInv. *)
LEMMA InvStep == TypeOK /\ LaunchInv /\ [Next]_vars => TypeOK' /\ LaunchInv'
<1> SUFFICES ASSUME TypeOK, LaunchInv, [Next]_vars PROVE TypeOK' /\ LaunchInv'
  OBVIOUS
<1>1. TypeOK'
  BY TypeStep
<1>2. Exclusive' /\ Holders'
  BY ExclusiveStep, HoldersStep DEF LaunchInv
<1>3. OnDisk' /\ Walked'
  BY OnDiskStep, WalkedStep DEF LaunchInv
<1>4. Covered' /\ Fits'
  BY CoveredStep, FitsStep DEF LaunchInv
<1>5. Spent'
  BY SpentStep DEF LaunchInv
<1> QED
  BY <1>1, <1>2, <1>3, <1>4, <1>5 DEF LaunchInv

(* LaunchInv, the inductive invariant behind every result below. *)
THEOREM Invariance == Spec => [](TypeOK /\ LaunchInv)
<1>1. Init => TypeOK /\ LaunchInv
  BY InitInv
<1>2. TypeOK /\ LaunchInv /\ [Next]_vars => (TypeOK /\ LaunchInv)'
  BY InvStep
<1> QED
  BY <1>1, <1>2, PTL DEF Spec

(* FleetLaunch is type correct. *)
THEOREM Typing == Spec => []TypeOK
BY Invariance, PTL

(* The launch window is exclusive: whoever is inside holds the OS lock. *)
THEOREM Exclusion == Spec => []WindowExclusive
<1>1. LaunchInv => WindowExclusive
  BY DEF LaunchInv, Exclusive, InWindow, WindowExclusive
<1> QED
  BY <1>1, Invariance, PTL

(* A holder sidecar a live pass wrote is on disk and names the lock's holder. *)
THEOREM HolderIsTruthful == Spec => []HolderTruthful
<1>1. LaunchInv => HolderTruthful
  BY DEF LaunchInv, Exclusive, Holders, HolderTruthful
<1> QED
  BY <1>1, Invariance, PTL

(* Two calls on one permit never launch more than it allows. *)
THEOREM PermitIsABudget == Spec => []LaunchUnderPermit
<1>1. LaunchInv => LaunchUnderPermit
  BY DEF LaunchInv, Spent, SpentBy, LaunchUnderPermit
<1> QED
  BY <1>1, Invariance, PTL

(* Every step of the gate is a step of the abstract budget: only Spawn adds a
   visible worker, and when it does the count and the permit leave room. *)
LEMMA BudgetStep ==
    ASSUME TypeOK, LaunchInv, [Next]_vars PROVE [Budget!Next]_Visible
<1>1. CASE \E p \in Passes, s \in Sessions : Spawn(p, s)
  <2>1. PICK p \in Passes, s \in Sessions : Spawn(p, s)
    BY <1>1
  <2>2. /\ pc[p] = "launching" /\ batch[p] \in Nat \ {0} /\ home[s] = NoRepo
        /\ launched[p] \in Nat /\ maxLaunches[p] \in Nat
    BY <2>1 DEF Spawn, TypeOK
  <2>3. s \notin Visible
    BY <2>2 DEF Visible, Running
  <2>4. Visible' \subseteq Visible \cup {s} /\ Visible \subseteq Visible'
    <3>1. fresh[p] = {}
      BY <2>2 DEF LaunchInv, OnDisk
    <3>2. \A x \in Sessions : x # s => home'[x] = home[x]
      BY <2>1 DEF Spawn, TypeOK
    <3>3. \A q \in Passes : fresh'[q] \subseteq fresh[q] \cup {s} /\ fresh[q] \subseteq fresh'[q]
      BY <2>1, <3>1 DEF Spawn, TypeOK
    <3>4. inFleet' = inFleet /\ sidecar' = sidecar /\ recorded' = recorded
      BY <2>1 DEF Spawn, envVars
    <3> QED
      BY <2>2, <3>2, <3>3, <3>4 DEF Visible, Running
  <2>5. Cardinality(Visible) < FleetMax
    <3>1. /\ IsFiniteSet(seen[p]) /\ Cardinality(seen[p]) \in Nat
          /\ IsFiniteSet(mine[p]) /\ Cardinality(mine[p]) \in Nat
      BY FiniteParts
    <3>2. Visible \subseteq seen[p] \cup mine[p]
      BY <2>2 DEF LaunchInv, Covered, Counting, OnDisk
    <3>3. IsFiniteSet(seen[p] \cup mine[p])
      BY <3>1, FS_Union
    <3>4. Cardinality(Visible) <= Cardinality(seen[p] \cup mine[p])
      BY <3>2, <3>3, FS_Subset
    <3>5. /\ Cardinality(seen[p] \cap mine[p]) \in Nat
          /\ Cardinality(seen[p] \cup mine[p])
               = Cardinality(seen[p]) + Cardinality(mine[p]) - Cardinality(seen[p] \cap mine[p])
      BY <3>1, FS_Union, FS_Intersection, FS_CardinalityType
    <3>6. Cardinality(Visible) \in Nat
      BY <3>2, <3>3, FS_Subset, FS_CardinalityType
    <3>7. Cardinality(mine[p]) + 1 <= launched[p] /\ launched[p] <= maxLaunches[p]
      <4>1. fresh[p] = {}
        BY <2>2 DEF LaunchInv, OnDisk
      <4>2. Cardinality(mine[p]) + 0 + batch[p] <= launched[p]
        BY <2>2, <4>1, FS_EmptySet DEF LaunchInv, Spent, SpentBy
      <4>3. launched[p] <= maxLaunches[p]
        BY DEF LaunchInv, Spent, SpentBy
      <4> QED
        BY <2>2, <3>1, <4>2, <4>3
    <3>8. Cardinality(seen[p]) + maxLaunches[p] <= FleetMax
      BY <2>2, <3>1, <3>7 DEF LaunchInv, Fits, Counting
    <3> QED
      BY <2>2, <3>1, <3>4, <3>5, <3>6, <3>7, <3>8, FleetAssumption
  <2>6. CASE Visible' = Visible
    BY <2>6
  <2>7. CASE Visible' = Visible \cup {s}
    BY <2>3, <2>5, <2>7 DEF Budget!Next, Budget!Join
  <2> QED
    BY <2>4, <2>6, <2>7
<1>2. CASE ~ \E p \in Passes, s \in Sessions : Spawn(p, s)
  <2>1. Visible' \subseteq Visible
    BY <1>2, VisibleStep DEF LaunchInv
  <2> QED
    BY <2>1 DEF Budget!Next, Budget!Leave
<1> QED
  BY <1>1, <1>2

(* The gate implements the budget, for every fleet. *)
THEOREM ImplementsBudget == Spec => BudgetKept
<1>1. Init => Budget!Init
  BY DEF Init, Budget!Init, Visible, Running
<1>2. TypeOK /\ LaunchInv /\ [Next]_vars => [Budget!Next]_Visible
  BY BudgetStep
<1> QED
  BY <1>1, <1>2, Invariance, PTL DEF Spec, BudgetKept, Budget!Spec

(* The fleet cap holds in every reachable state of every fleet. *)
THEOREM Cap == Spec => []FleetCap
<1> DEFINE Inv == TypeOK /\ LaunchInv /\ FleetCap
<1>1. Init => FleetCap
  <2> SUFFICES ASSUME Init PROVE FleetCap
    OBVIOUS
  <2>1. Visible = {}
    BY DEF Init, Visible, Running
  <2> QED
    BY <2>1, FS_EmptySet, FleetAssumption DEF FleetCap
<1>2. TypeOK /\ LaunchInv /\ FleetCap /\ [Next]_vars => FleetCap'
  <2> SUFFICES ASSUME TypeOK, LaunchInv, FleetCap, [Next]_vars PROVE FleetCap'
    OBVIOUS
  <2>1. IsFiniteSet(Visible) /\ Cardinality(Visible) \in Nat
    BY FleetAssumption, FS_Subset, FS_CardinalityType DEF Visible, Running
  <2>2. [Budget!Next]_Visible
    BY BudgetStep
  <2>3. CASE Budget!Join
    <3>1. PICK s \in Sessions \ Visible : /\ Cardinality(Visible) < FleetMax
                                           /\ Visible' = Visible \cup {s}
      BY <2>3 DEF Budget!Join
    <3>2. Cardinality(Visible \cup {s}) = Cardinality(Visible) + 1
      BY <2>1, FS_AddElement
    <3> QED
      BY <2>1, <3>1, <3>2, FleetAssumption DEF FleetCap
  <2>4. CASE Budget!Leave \/ Visible' = Visible
    <3>1. Visible' \in SUBSET Visible
      BY <2>4 DEF Budget!Leave
    <3>2. Cardinality(Visible') <= Cardinality(Visible) /\ Cardinality(Visible') \in Nat
      BY <2>1, <3>1, FS_Subset, FS_CardinalityType
    <3> QED
      BY <2>1, <3>2, FleetAssumption DEF FleetCap
  <2> QED
    BY <2>2, <2>3, <2>4 DEF Budget!Next
<1> QED
  BY <1>1, <1>2, Invariance, PTL DEF Spec

-----------------------------------------------------------------------------
(* How long the fleet lock is held. *)

(* The holder's own steps until it has given the lock back, at most: the walk
   reads each repository in two, the lane makes up to two calls of
   _launch_workers, each request of a call takes up to two. *)
PerCall == 2 * MaxRequested + 3
OwedCalls(n) == IF n = 0 THEN 0 ELSE IF n = 1 THEN PerCall ELSE 2 * PerCall

HoldMax == 2 * PerCall + 7 + 2 * Cardinality(Repos)

HoldLeft(p) ==
    CASE pc[p] = "writeHolder"  -> HoldMax
      [] pc[p] = "walk"         -> 2 * PerCall + 6 + 2 * Cardinality(todo[p])
                                     - (IF half[p] = {} THEN 0 ELSE 1)
      [] pc[p] = "throttleGate" -> 2 * PerCall + 5
      [] pc[p] = "permitted"    -> OwedCalls(calls[p]) + 4
      [] pc[p] = "launching"    -> OwedCalls(calls[p]) + 2 * batch[p] + 5
      [] pc[p] = "spawned"      -> OwedCalls(calls[p]) + 2 * batch[p] + 6
      [] pc[p] = "record" /\ LaneOf[p] = "local" -> 3
      [] pc[p] = "clear"        -> 2
      [] pc[p] = "unlock"       -> 1
      [] OTHER                  -> 0

(* The lock is held exactly by whoever is inside the window, and every hold is
   within its bound: no gate, refusal or exception walks away with the lock. *)
LockAccounted ==
    \A p \in Passes : /\ HoldLeft(p) \in 0 .. HoldMax
                      /\ fleetLock = p <=> HoldLeft(p) # 0

(* Every step of the holder brings the release nearer; nobody else's step, and
   nothing in the fleet, pushes it away; only its death cuts the hold short. *)
HoldShrinks ==
    [][\A p \in Passes : fleetLock = p =>
          IF PassStep(p) THEN HoldLeft(p)' < HoldLeft(p)
          ELSE Crash(p) \/ HoldLeft(p)' = HoldLeft(p)]_vars

(* A registry of finitely many repositories leaves finitely many to read. *)
LEMMA FiniteWalk ==
    ASSUME IsFiniteSet(Repos), NEW S \in SUBSET Repos
    PROVE  /\ IsFiniteSet(S) /\ Cardinality(S) \in 0 .. Cardinality(Repos)
           /\ \A r \in S : Cardinality(S \ {r}) = Cardinality(S) - 1
           /\ S # {} => Cardinality(S) >= 1
<1>1. IsFiniteSet(S) /\ Cardinality(S) <= Cardinality(Repos)  BY FS_Subset
<1>2. Cardinality(S) \in Nat /\ Cardinality(Repos) \in Nat  BY <1>1, FS_CardinalityType
<1>3. \A r \in S : Cardinality(S \ {r}) = Cardinality(S) - 1  BY <1>1, FS_RemoveElement
<1>4. S # {} => Cardinality(S) # 0  BY <1>1, FS_EmptySet
<1> QED  BY <1>1, <1>2, <1>3, <1>4

LEMMA OwedType ==
    /\ PerCall \in Nat /\ PerCall = 2 * MaxRequested + 3
    /\ \A n \in 0 .. 2 : OwedCalls(n) \in 0 .. 2 * PerCall
    /\ \A n \in 1 .. 2 : OwedCalls(n) = OwedCalls(n - 1) + PerCall
BY FleetAssumption DEF PerCall, OwedCalls

LEMMA HoldMaxType == IsFiniteSet(Repos) => HoldMax \in Nat
<1>1. PerCall \in Nat  BY OwedType
<1>2. IsFiniteSet(Repos) => Cardinality(Repos) \in Nat  BY FS_CardinalityType
<1> QED  BY <1>1, <1>2 DEF HoldMax

(* What is left of a hold is a number, and none is left outside the window. *)
LEMMA HoldType ==
    ASSUME TypeOK, Walked, IsFiniteSet(Repos), NEW p \in Passes
    PROVE  HoldLeft(p) \in Nat /\ (HoldLeft(p) # 0 <=> InWindow(p))
<1>1. /\ OwedCalls(calls[p]) \in Nat /\ PerCall \in Nat /\ batch[p] \in Nat
  BY OwedType DEF TypeOK
<1>2. /\ todo[p] \in SUBSET Repos /\ half[p] \in SUBSET Repos
      /\ pc[p] = "walk" => half[p] \subseteq todo[p]
  BY DEF TypeOK, Walked
<1>3. /\ Cardinality(todo[p]) \in Nat /\ Cardinality(Repos) \in Nat
  BY <1>2, FiniteWalk, FS_CardinalityType
<1> QED
  BY <1>1, <1>2, <1>3 DEF HoldLeft, HoldMax, InWindow, Window

(* Each step of a pass inside the window uses up some of its hold. *)
LEMMA OwnStep ==
    ASSUME TypeOK, Exclusive, Walked, Spent, IsFiniteSet(Repos), TypeOK', Walked',
           NEW p \in Passes, PassStep(p), InWindow(p)
    PROVE  HoldLeft(p)' < HoldLeft(p)
<1> DEFINE Inside == {"writeHolder", "walk", "throttleGate", "permitted", "launching",
                      "spawned", "record", "clear", "unlock"}
<1>1. /\ pc[p] \in Inside /\ (pc[p] = "record" => LaneOf[p] = "local") /\ fleetLock = p
  BY DEF InWindow, Window, Exclusive
<1>2. /\ OwedCalls(0) = 0 /\ OwedCalls(1) = PerCall /\ OwedCalls(2) = 2 * PerCall
      /\ PerCall \in Nat
  BY OwedType DEF OwedCalls
<1>3. /\ batch[p] \in Nat /\ calls[p] \in 0 .. 2
      /\ OwedCalls(calls[p]) \in 0 .. 2 * PerCall
      /\ calls[p] # 0 => OwedCalls(calls[p]) = OwedCalls(calls[p] - 1) + PerCall
  BY OwedType DEF TypeOK
<1>4. /\ todo[p] \in SUBSET Repos /\ half[p] \in SUBSET Repos
      /\ pc[p] = "walk" => half[p] \subseteq todo[p]
  BY DEF TypeOK, Walked
<1>5. /\ Cardinality(todo[p]) \in Nat /\ Cardinality(Repos) \in Nat
      /\ \A r \in todo[p] : Cardinality(todo[p] \ {r}) = Cardinality(todo[p]) - 1
      /\ half[p] # {} /\ pc[p] = "walk" => Cardinality(todo[p]) >= 1
  BY <1>4, FiniteWalk, FS_CardinalityType
<1> USE DEF HoldLeft, Inside, Goto
<1>6. CASE WriteHolder(p)
  BY <1>2, <1>5, <1>6 DEF WriteHolder, HoldMax, TypeOK, Walked
<1>7. CASE \E r \in Repos : WalkSkips(p, r) \/ WalkSidecars(p, r) \/ WalkGhosts(p, r)
  <2>1. PICK r \in Repos : WalkSkips(p, r) \/ WalkSidecars(p, r) \/ WalkGhosts(p, r)
    BY <1>7
  <2>2. /\ pc[p] = "walk" /\ pc' = pc /\ r \in todo[p]
    BY <2>1, <1>4 DEF WalkSkips, WalkSidecars, WalkGhosts
  <2>3. CASE WalkSkips(p, r)
    <3>1. todo'[p] = todo[p] \ {r} /\ half'[p] = {} /\ half[p] = {}
      BY <2>3 DEF WalkSkips, TypeOK
    <3> QED  BY <1>2, <1>5, <2>2, <3>1
  <2>4. CASE WalkSidecars(p, r)
    <3>1. todo'[p] = todo[p] /\ half'[p] = {r} /\ half[p] = {}
      BY <2>4 DEF WalkSidecars, TypeOK
    <3> QED  BY <1>2, <1>5, <2>2, <3>1
  <2>5. CASE WalkGhosts(p, r)
    <3>1. todo'[p] = todo[p] \ {r} /\ half'[p] = {} /\ half[p] # {}
      BY <2>5 DEF WalkGhosts, TypeOK
    <3>2. Cardinality(todo'[p]) = Cardinality(todo[p]) - 1  BY <1>5, <2>2, <3>1
    <3>3. HoldLeft(p) = 2 * PerCall + 6 + 2 * Cardinality(todo[p]) - 1  BY <2>2, <3>1
    <3>4. HoldLeft(p)' = 2 * PerCall + 6 + 2 * Cardinality(todo'[p]) - 0  BY <2>2, <3>1
    <3> QED  BY <1>2, <1>5, <3>2, <3>3, <3>4
  <2> QED  BY <2>1, <2>3, <2>4, <2>5
<1>8. CASE Govern(p)
  <2>1. pc[p] = "walk" /\ pc'[p] = "throttleGate"  BY <1>8 DEF Govern, TypeOK
  <2> QED  BY <1>2, <1>5, <1>8, <2>1 DEF Govern
<1>9. CASE ThrottleGate(p)
  <2>1. /\ pc[p] = "throttleGate"
        /\ \/ pc'[p] = "clear"
           \/ pc'[p] = "permitted" /\ calls'[p] \in {1, 2}
    BY <1>9 DEF ThrottleGate, Leave, TypeOK
  <2> QED  BY <1>2, <2>1
<1>10. CASE CallLaunch(p)
  <2>1. /\ pc[p] = "permitted" /\ pc'[p] = "launching" /\ calls[p] # 0
        /\ calls'[p] = calls[p] - 1 /\ batch'[p] \in 1 .. MaxRequested
    BY <1>10 DEF CallLaunch, TypeOK
  <2> QED  BY <1>2, <1>3, <2>1, OwedType, FleetAssumption
<1>11. CASE CallRefused(p)
  <2>1. /\ pc[p] = "permitted" /\ pc'[p] = "permitted" /\ calls[p] # 0
        /\ calls'[p] = calls[p] - 1
    BY <1>11 DEF CallRefused, TypeOK
  <2> QED  BY <1>2, <1>3, <2>1, OwedType, FleetAssumption
<1>12. CASE \E s \in Sessions : Spawn(p, s)
  <2>1. /\ pc[p] = "launching" /\ pc'[p] = "spawned" /\ calls' = calls
        /\ batch[p] > 0 /\ batch'[p] = batch[p] - 1
    BY <1>12 DEF Spawn, TypeOK
  <2> QED  BY <1>3, <2>1
<1>13. CASE WriteSidecar(p) \/ SidecarWriteFails(p)
  <2>1. /\ pc[p] = "spawned" /\ pc'[p] = "launching" /\ calls' = calls /\ batch' = batch
    BY <1>13 DEF WriteSidecar, SidecarWriteFails, TypeOK
  <2> QED  BY <1>3, <2>1
<1>14. CASE LaunchFails(p)
  <2>1. /\ pc[p] = "launching" /\ pc'[p] = "launching" /\ calls' = calls
        /\ batch[p] > 0 /\ batch'[p] = batch[p] - 1
    BY <1>14 DEF LaunchFails, TypeOK
  <2> QED  BY <1>3, <2>1
<1>15. CASE CallReturns(p)
  <2>1. /\ pc[p] = "launching" /\ pc'[p] = "permitted" /\ calls' = calls /\ batch' = batch
    BY <1>15 DEF CallReturns, Continue, TypeOK, permitVars
  <2> QED  BY <1>3, <2>1
<1>16. CASE LaunchesDone(p) \/ Raise(p)
  <2>1. /\ pc[p] \in {"walk", "throttleGate", "permitted", "record"}
        /\ \/ pc'[p] = "clear"
           \/ pc'[p] = "record" /\ LaneOf[p] = "local" /\ pc[p] = "permitted"
    BY <1>1, <1>16 DEF LaunchesDone, Raise, Leave, TypeOK
  <2> QED  BY <1>1, <1>2, <1>3, <1>5, <2>1
<1>17. CASE Record(p)
  <2>1. pc[p] = "record" /\ pc'[p] = "clear"
    BY <1>1, <1>17 DEF Record, Continue, TypeOK
  <2> QED  BY <1>1, <2>1
<1>18. CASE ClearHolder(p)
  <2>1. pc[p] = "clear" /\ pc'[p] = "unlock"
    BY <1>18 DEF ClearHolder, Continue, TypeOK
  <2> QED  BY <2>1
<1>19. CASE Unlock(p)
  <2>1. pc[p] = "unlock" /\ \/ pc'[p] = "idle"
                            \/ pc'[p] = "record" /\ LaneOf[p] # "local"
    BY <1>19 DEF Unlock, Continue, Over, TypeOK
  <2> QED  BY <2>1
<1> QED
  BY <1>1, <1>6, <1>7, <1>8, <1>9, <1>10, <1>11, <1>12, <1>13, <1>14, <1>15, <1>16, <1>17,
     <1>18, <1>19
  DEF PassStep, PauseGate, PreCheck, Acquire, AcquireTimesOut

\* What else happens leaves a pass where it is, unless it starts or dies.
LEMMA HoldFrame ==
    ASSUME TypeOK, Exclusive, [Next]_vars, NEW p \in Passes, ~PassStep(p), ~Crash(p)
    PROVE  /\ Start(p) \/ UNCHANGED <<pc[p], todo[p], half[p], calls[p], batch[p]>>
           /\ fleetLock = p <=> fleetLock' = p
<1> USE FleetAssumption DEF TypeOK, Goto, Over, Continue, Leave, lockVars, walkVars, permitVars
<1> DEFINE Goal == /\ Start(p) \/ UNCHANGED <<pc[p], todo[p], half[p], calls[p], batch[p]>>
                   /\ fleetLock = p <=> fleetLock' = p
<1>1. ASSUME NEW q \in Passes, Start(q) PROVE Goal
  BY <1>1 DEF Start
<1>2. ASSUME NEW q \in Passes, q # p, Crash(q) PROVE Goal
  BY <1>2 DEF Crash
<1>3. ASSUME NEW q \in Passes, q # p, PassStep(q) PROVE Goal
  <2>1. CASE PauseGate(q) \/ PreCheck(q) \/ Acquire(q) \/ AcquireTimesOut(q)
    BY <1>3, <2>1 DEF PauseGate, PreCheck, Acquire, AcquireTimesOut
  <2>2. CASE WriteHolder(q) \/ Govern(q) \/ ThrottleGate(q)
    BY <1>3, <2>2 DEF WriteHolder, Govern, ThrottleGate
  <2>3. CASE \E r \in Repos : WalkSkips(q, r) \/ WalkSidecars(q, r) \/ WalkGhosts(q, r)
    BY <1>3, <2>3 DEF WalkSkips, WalkSidecars, WalkGhosts
  <2>4. CASE CallLaunch(q) \/ CallRefused(q) \/ LaunchFails(q)
    BY <1>3, <2>4 DEF CallLaunch, CallRefused, LaunchFails
  <2>5. CASE (\E s \in Sessions : Spawn(q, s)) \/ WriteSidecar(q) \/ SidecarWriteFails(q)
    BY <1>3, <2>5 DEF Spawn, WriteSidecar, SidecarWriteFails
  <2>6. CASE CallReturns(q) \/ LaunchesDone(q) \/ Record(q) \/ Raise(q)
    BY <1>3, <2>6 DEF CallReturns, LaunchesDone, Record, Raise
  <2>7. CASE ClearHolder(q) \/ Unlock(q)
    BY <1>3, <2>7 DEF ClearHolder, Unlock, Exclusive, InWindow, Window
  <2> QED  BY <1>3, <2>1, <2>2, <2>3, <2>4, <2>5, <2>6, <2>7 DEF PassStep
<1>4. CASE Environment \/ UNCHANGED vars
  BY <1>4 DEF Environment, WorkerExits, SidecarLost, TogglePause, ToggleThrottle, RepoLeaves,
              vars
<1> QED  BY <1>1, <1>2, <1>3, <1>4 DEF Next

\* Only the acquisition starts a hold, at its bound; only the release ends one.
LEMMA LockStep ==
    ASSUME TypeOK, Exclusive, NEW p \in Passes, fleetLock = p => InWindow(p), PassStep(p)
    PROVE  \/ pc'[p] = "writeHolder"
           \/ InWindow(p) /\ (fleetLock' = p => InWindow(p)')
           \/ ~InWindow(p) /\ ~InWindow(p)' /\ fleetLock' = fleetLock
<1> USE FleetAssumption
    DEF TypeOK, Exclusive, InWindow, Window, Goto, Over, Continue, Leave, lockVars, walkVars,
        permitVars
<1>1. CASE PauseGate(p) \/ PreCheck(p) \/ Acquire(p) \/ AcquireTimesOut(p)
  BY <1>1 DEF PauseGate, PreCheck, Acquire, AcquireTimesOut
<1>2. CASE WriteHolder(p) \/ Govern(p) \/ ThrottleGate(p)
  BY <1>2 DEF WriteHolder, Govern, ThrottleGate
<1>3. CASE \E r \in Repos : WalkSkips(p, r) \/ WalkSidecars(p, r) \/ WalkGhosts(p, r)
  BY <1>3 DEF WalkSkips, WalkSidecars, WalkGhosts
<1>4. CASE CallLaunch(p) \/ CallRefused(p) \/ LaunchFails(p)
  BY <1>4 DEF CallLaunch, CallRefused, LaunchFails
<1>5. CASE (\E s \in Sessions : Spawn(p, s)) \/ WriteSidecar(p) \/ SidecarWriteFails(p)
  BY <1>5 DEF Spawn, WriteSidecar, SidecarWriteFails
<1>6. CASE CallReturns(p) \/ LaunchesDone(p)
  BY <1>6 DEF CallReturns, LaunchesDone
<1>7. CASE Record(p)
  BY <1>7 DEF Record
<1>8. CASE Raise(p)
  BY <1>8 DEF Raise
<1>9. CASE ClearHolder(p) \/ Unlock(p)
  BY <1>9 DEF ClearHolder, Unlock
<1> QED  BY <1>1, <1>2, <1>3, <1>4, <1>5, <1>6, <1>7, <1>8, <1>9 DEF PassStep

\* The inductive form of LockAccounted.
Accounted ==
    \A p \in Passes : HoldLeft(p) <= HoldMax /\ (fleetLock = p => InWindow(p))

HoldTyped == \A p \in Passes : HoldLeft(p) \in Nat /\ (HoldLeft(p) # 0 <=> InWindow(p))

\* A step of p, and everybody else's, as the hold of p sees it.
LEMMA HoldStep ==
    ASSUME TypeOK, LaunchInv, Accounted, HoldTyped, HoldTyped', IsFiniteSet(Repos),
           [Next]_vars, NEW p \in Passes
    PROVE  /\ HoldLeft(p)' <= HoldMax /\ (fleetLock' = p => InWindow(p)')
           /\ fleetLock = p => IF PassStep(p) THEN HoldLeft(p)' < HoldLeft(p)
                               ELSE Crash(p) \/ HoldLeft(p)' = HoldLeft(p)
<1>1. /\ HoldLeft(p) \in Nat /\ (HoldLeft(p) # 0 <=> InWindow(p)) /\ HoldLeft(p) <= HoldMax
      /\ HoldLeft(p)' \in Nat /\ (HoldLeft(p)' # 0 <=> InWindow(p)')
      /\ fleetLock = p <=> InWindow(p)
  BY DEF HoldTyped, Accounted, LaunchInv, Exclusive
<1>2. HoldMax \in Nat  BY HoldMaxType
<1>3. CASE PassStep(p)
  <2>1. TypeOK' /\ LaunchInv'  BY InvStep
  <2>2. CASE InWindow(p)
    <3>1. HoldLeft(p)' < HoldLeft(p)  BY <1>3, <2>1, <2>2, OwnStep DEF LaunchInv
    <3>2. fleetLock' = p => InWindow(p)'
      BY <1>3, <2>2, LockStep DEF LaunchInv, InWindow, Window
    <3> QED  BY <1>1, <1>2, <1>3, <3>1, <3>2
  <2>3. CASE ~InWindow(p)
    <3>1. \/ pc'[p] = "writeHolder"
          \/ ~InWindow(p)' /\ fleetLock' = fleetLock
      BY <1>1, <1>3, <2>3, LockStep DEF LaunchInv
    <3>2. pc'[p] = "writeHolder" => HoldLeft(p)' = HoldMax /\ InWindow(p)'
      BY DEF HoldLeft, InWindow, Window
    <3> QED  BY <1>1, <1>2, <2>3, <3>1, <3>2
  <2> QED  BY <2>2, <2>3
<1>4. CASE ~PassStep(p) /\ Crash(p)
  <2>1. pc'[p] = "idle" /\ fleetLock' # p
    BY <1>4, FleetAssumption DEF Crash, Over, Goto, TypeOK
  <2>2. ~InWindow(p)'  BY <2>1 DEF InWindow, Window
  <2> QED  BY <1>1, <1>2, <1>4, <2>1, <2>2
<1>5. CASE ~PassStep(p) /\ ~Crash(p)
  <2>1. /\ Start(p) \/ UNCHANGED <<pc[p], todo[p], half[p], calls[p], batch[p]>>
        /\ fleetLock = p <=> fleetLock' = p
    BY <1>5, HoldFrame DEF LaunchInv
  <2>2. CASE Start(p)
    <3>1. pc[p] = "idle" /\ pc'[p] = "pauseGate"  BY <2>2 DEF Start, Goto, TypeOK
    <3>2. ~InWindow(p) /\ ~InWindow(p)'  BY <3>1 DEF InWindow, Window
    <3> QED  BY <1>1, <1>2, <2>1, <3>2
  <2>3. CASE UNCHANGED <<pc[p], todo[p], half[p], calls[p], batch[p]>>
    <3>1. HoldLeft(p)' = HoldLeft(p) /\ (InWindow(p)' <=> InWindow(p))
      BY <2>3 DEF HoldLeft, InWindow
    <3> QED  BY <1>1, <1>5, <2>1, <3>1
  <2> QED  BY <2>1, <2>2, <2>3
<1> QED  BY <1>3, <1>4, <1>5

LEMMA HoldInvariance == IsFiniteSet(Repos) => (Spec => [](HoldTyped /\ Accounted))
<1> SUFFICES ASSUME IsFiniteSet(Repos) PROVE Spec => [](HoldTyped /\ Accounted)
  OBVIOUS
<1>1. TypeOK /\ LaunchInv => HoldTyped  BY HoldType DEF LaunchInv, HoldTyped
<1>2. Init => Accounted
  <2> SUFFICES ASSUME Init, NEW p \in Passes
               PROVE  HoldLeft(p) <= HoldMax /\ fleetLock # p
    BY DEF Accounted
  <2>1. HoldLeft(p) = 0  BY DEF Init, HoldLeft
  <2>2. HoldMax \in Nat  BY HoldMaxType
  <2> QED  BY <2>1, <2>2, FleetAssumption DEF Init
<1>3. TypeOK /\ LaunchInv /\ Accounted /\ HoldTyped /\ HoldTyped' /\ [Next]_vars => Accounted'
  BY HoldStep DEF Accounted
<1> QED  BY <1>1, <1>2, <1>3, Invariance, PTL DEF Spec

(* The fleet lock is accounted for in every reachable state of every fleet with a
   finite registry: nobody holds it outside the launch window, nobody is inside
   without it, and no hold is longer than HoldMax steps of its holder. *)
THEOREM LockIsAccounted == IsFiniteSet(Repos) => (Spec => []LockAccounted)
<1> SUFFICES ASSUME IsFiniteSet(Repos) PROVE Spec => []LockAccounted
  OBVIOUS
<1>1. TypeOK /\ LaunchInv /\ HoldTyped /\ Accounted => LockAccounted
  <2>1. HoldMax \in Nat  BY HoldMaxType
  <2> QED  BY <2>1 DEF LaunchInv, Exclusive, HoldTyped, Accounted, LockAccounted
<1> QED  BY <1>1, HoldInvariance, Invariance, PTL

(* The safety core of LockFreed: HoldLeft is a ranking of the hold.  Every step its
   holder takes uses some of it up, whatever the other passes, the workers and the
   operator do in between; what fairness adds is only that the holder takes steps. *)
THEOREM HoldEnds == IsFiniteSet(Repos) => (Spec => HoldShrinks)
<1> SUFFICES ASSUME IsFiniteSet(Repos) PROVE Spec => HoldShrinks
  OBVIOUS
<1> DEFINE Shrinks == \A p \in Passes : fleetLock = p =>
                         IF PassStep(p) THEN HoldLeft(p)' < HoldLeft(p)
                         ELSE Crash(p) \/ HoldLeft(p)' = HoldLeft(p)
<1>1. TypeOK /\ LaunchInv /\ Accounted /\ HoldTyped /\ HoldTyped' /\ [Next]_vars
        => [Shrinks]_vars
  BY HoldStep
<1>2. Spec => [][Shrinks]_vars  BY <1>1, HoldInvariance, Invariance, PTL DEF Spec
<1> QED  BY <1>2 DEF HoldShrinks
=============================================================================
