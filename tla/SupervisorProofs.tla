-------------------------- MODULE SupervisorProofs --------------------------
(***************************************************************************)
(* What holds of Supervisor for every set of wrappers, every relaunch      *)
(* bound, every grace window and threshold, however often the supervisors  *)
(* crash, stall, deploy or are asked to stop.                              *)
(***************************************************************************)
EXTENDS Supervisor, TLAPS

\* A wrapper that is about to spawn has a launch left.
Budgeted == \A w \in Wrappers : wrap[w] = "spawn" => launches[w] <= MaxRelaunches

\* A wrapper that waits on no child has none, and no watchdog.
Waited ==
    \A w \in Wrappers : wrap[w] # "wait" => pc[w] = "none" /\ watch[w] = "off"

\* A child that never stalled is within its grace window until its first beat,
\* under a heartbeat no older than itself, and within the threshold afterwards.
Paced ==
    \A w \in Wrappers :
       Alive(w) /\ lag[w] = "no" =>
          IF pc[w] \in Starting
          THEN age[w] <= Grace /\ (Fresh(w) => hb.age <= age[w])
          ELSE Fresh(w) /\ hb.age <= Threshold

\* A supervisor that has polled and does not drain has read the marker after any
\* pass that was begun under it.
Polled ==
    /\ marker = "none" => late = 0
    /\ \A w \in Wrappers : pc[w] = "polled" /\ ~draining[w] => late = 0

-----------------------------------------------------------------------------
(* Type correctness. *)

LEMMA AgeFacts ==
  /\ AgeCap \in Nat /\ Grace < AgeCap /\ Threshold < AgeCap
  /\ \A n \in 0..AgeCap : Older(n) \in 0..AgeCap /\ Older(n) <= n + 1
  BY SupervisorAssumption DEF AgeCap, Older

Beats == [age : 0..AgeCap, exited : BOOLEAN, since : SUBSET Wrappers]
Syncs == [marker : {"none", "held", "replays"}, age : 0..Starve, skew : BOOLEAN]

\* What the heartbeat file and the pending-sync marker may become.
LEMMA FileFacts ==
  /\ \A h \in Beats : [h EXCEPT !.age = 0, !.since = Wrappers] \in Beats
  /\ \A s \in Syncs : [s EXCEPT !.marker = "replays"] \in Syncs
  /\ {[marker |-> "none", age |-> 0, skew |-> FALSE],
      [marker |-> "none", age |-> 0, skew |-> TRUE]} \subseteq Syncs
<1>1. 0 \in 0..AgeCap /\ 0 \in 0..Starve  BY AgeFacts, SupervisorAssumption
<1>2. \A h \in Beats : [h EXCEPT !.age = 0, !.since = Wrappers] \in Beats
  BY <1>1, Zenon DEF Beats
<1>3. \A s \in Syncs : [s EXCEPT !.marker = "replays"] \in Syncs
  BY DEF Syncs
<1>4. {[marker |-> "none", age |-> 0, skew |-> FALSE],
       [marker |-> "none", age |-> 0, skew |-> TRUE]} \subseteq Syncs
  BY <1>1 DEF Syncs
<1> QED  BY <1>2, <1>3, <1>4

\* The supervisor's variables keep their types.
LEMMA TypeInit == Init => TypeOK /\ Budgeted
<1> SUFFICES ASSUME Init PROVE TypeOK /\ Budgeted  OBVIOUS
<1> USE SupervisorAssumption, AgeFacts DEF Init
<1>1. hb \in [age : 0..AgeCap, exited : BOOLEAN, since : SUBSET Wrappers]  OBVIOUS
<1>2. sync \in [marker : {"none", "held", "replays"}, age : 0..Starve, skew : BOOLEAN]
  OBVIOUS
<1>3. launches \in [Wrappers -> 0..MaxRelaunches + 1] /\ age \in [Wrappers -> 0..AgeCap]
  OBVIOUS
<1>4. {paused, workers} \subseteq BOOLEAN  BY Zenon
<1> QED  BY <1>1, <1>2, <1>3, <1>4 DEF TypeOK, Budgeted, Gone

LEMMA TypeNext ==
  ASSUME TypeOK, Budgeted, [Next]_vars
  PROVE  TypeOK' /\ Budgeted'
<1> USE SupervisorAssumption, AgeFacts
    DEF TypeOK, Budgeted, Gone, Starting, Looping, Ending, Goto, Exit, Fault,
        wrapVars, childVars, fileVars, deployVars, budgets
<1>1. ASSUME NEW w \in Wrappers, StartWrapper(w) \/ Spawn(w) \/ Reap(w)
      PROVE  TypeOK' /\ Budgeted'
  <2>1. CASE StartWrapper(w)  BY <2>1 DEF StartWrapper
  <2>2. CASE Spawn(w)
    <3>1. launches' \in [Wrappers -> 0..MaxRelaunches + 1]  BY <2>2 DEF Spawn
    <3>2. hb' \in [age : 0..AgeCap, exited : BOOLEAN, since : SUBSET Wrappers]
      BY <2>2 DEF Spawn
    <3> QED  BY <2>2, <3>1, <3>2 DEF Spawn
  <2>3. CASE Reap(w)  BY <2>3 DEF Reap
  <2> QED  BY <1>1, <2>1, <2>2, <2>3
<1>2. ASSUME NEW w \in Wrappers, Boot(w)  PROVE TypeOK' /\ Budgeted'
  <2>1. CASE BootRefused(w)  BY <2>1 DEF BootRefused
  <2>2. CASE Acquire(w)  BY <2>2 DEF Acquire
  <2>3. CASE BootSync(w)  BY <2>3 DEF BootSync, Synced
  <2>4. CASE BootFails(w)  BY <2>4 DEF BootFails
  <2>5. CASE BootGoesOn(w)
    <3>1. sync \in Syncs  BY DEF Syncs
    <3>2. sync' \in Syncs  BY <2>5, <3>1, FileFacts DEF BootGoesOn
    <3> QED  BY <2>5, <3>2 DEF BootGoesOn, Syncs
  <2>6. CASE Inspect(w)  BY <2>6 DEF Inspect
  <2>7. CASE RecordStarted(w)  BY <2>7 DEF RecordStarted
  <2> QED  BY <1>2, <2>1, <2>2, <2>3, <2>4, <2>5, <2>6, <2>7 DEF Boot
<1>3. ASSUME NEW w \in Wrappers, Deploy(w)  PROVE TypeOK' /\ Budgeted'
  <2> USE DEF BeginPass
  <2>1. CASE DrainPass(w)  BY <2>1 DEF DrainPass
  <2>2. CASE NoDeploy(w)  BY <2>2 DEF NoDeploy
  <2>3. CASE Defer(w)  BY <2>3 DEF Defer
  <2>4. CASE Merge(w)  BY <2>4 DEF Merge
  <2>5. CASE Sync(w)
    <3>1. sync \in Syncs  BY DEF Syncs
    <3>2. \/ sync' = [marker |-> "none", age |-> 0, skew |-> FALSE]
          \/ sync' = [sync EXCEPT !.marker = "replays"]
      BY <2>5 DEF Sync, Synced
    <3>3. [sync EXCEPT !.marker = "replays"] \in Syncs  BY <3>1, FileFacts, Zenon
    <3>4. [marker |-> "none", age |-> 0, skew |-> FALSE] \in Syncs  BY FileFacts
    <3>5. sync' \in Syncs  BY <3>2, <3>3, <3>4, Zenon
    <3> QED  BY <2>5, <3>5 DEF Sync, Syncs
  <2> QED  BY <1>3, <2>1, <2>2, <2>3, <2>4, <2>5 DEF Deploy
<1>4. ASSUME NEW w \in Wrappers, Loop(w)  PROVE TypeOK' /\ Budgeted'
  <2>1. CASE Beat(w)
    <3>1. hb \in Beats  BY DEF Beats
    <3>2. hb' = [hb EXCEPT !.age = 0, !.since = Wrappers]  BY <2>1 DEF Beat
    <3>3. hb' \in Beats  BY <3>1, <3>2, FileFacts, Zenon
    <3> QED  BY <2>1, <3>3 DEF Beat, Beats
  <2>2. CASE RunsOut(w)  BY <2>2 DEF RunsOut
  <2>3. CASE Poll(w)  BY <2>3 DEF Poll
  <2>4. CASE HonourStop(w)  BY <2>4 DEF HonourStop, Consume
  <2>5. CASE HonourPause(w)  BY <2>5 DEF HonourPause
  <2>6. CASE DrainDone(w)  BY <2>6 DEF DrainDone, Consume
  <2>7. CASE Idle(w)  BY <2>7 DEF Idle
  <2>8. CASE EndPass(w)  BY <2>8 DEF EndPass, Consume
  <2>9. CASE PassRaises(w)  BY <2>9 DEF PassRaises
  <2> QED
    BY <1>3, <1>4, <2>1, <2>2, <2>3, <2>4, <2>5, <2>6, <2>7, <2>8, <2>9 DEF Loop
<1>5. ASSUME NEW w \in Wrappers, Finally(w) \/ Dispatch(w)
      PROVE  TypeOK' /\ Budgeted'
  <2>1. CASE ReleaseLock(w)  BY <2>1 DEF ReleaseLock
  <2>2. CASE RecordExit(w)  BY <2>2 DEF RecordExit
  <2>3. CASE ProcessEnds(w)  BY <2>3 DEF ProcessEnds
  <2>4. CASE Dispatch(w)  BY <2>4 DEF Dispatch
  <2> QED  BY <1>5, <2>1, <2>2, <2>3, <2>4 DEF Finally
<1>6. ASSUME NEW w \in Wrappers,
             Judge(w) \/ Kill(w) \/ KillFails(w) \/ Crash(w) \/ Stall(w) \/ Recover(w)
      PROVE  TypeOK' /\ Budgeted'
  <2>1. CASE Judge(w)  BY <2>1 DEF Judge
  <2>2. CASE Kill(w)  BY <2>2 DEF Kill, Dies
  <2>3. CASE KillFails(w)  BY <2>3 DEF KillFails
  <2>4. CASE Crash(w)  BY <2>4 DEF Crash, Dies
  <2>5. CASE Stall(w)  BY <2>5 DEF Stall
  <2>6. CASE Recover(w)  BY <2>6 DEF Recover
  <2> QED  BY <1>6, <2>1, <2>2, <2>3, <2>4, <2>5, <2>6
<1>7. CASE Tick
  <2>1. age' \in [Wrappers -> 0..AgeCap]  BY <1>7 DEF Tick
  <2>2. hb' \in [age : 0..AgeCap, exited : BOOLEAN, since : SUBSET Wrappers]
    BY <1>7 DEF Tick
  <2>3. sync' \in [marker : {"none", "held", "replays"}, age : 0..Starve,
                   skew : BOOLEAN]
    BY <1>7 DEF Tick
  <2> QED  BY <1>7, <2>1, <2>2, <2>3 DEF Tick
<1>8. CASE WorkerEnds  BY <1>8 DEF WorkerEnds
<1>9. CASE \E kind \in {"code", "deps"} : MainMoves(kind)  BY <1>9 DEF MainMoves
<1>10. CASE \E kind \in {"stop", "drain"} : Request(kind)  BY <1>10 DEF Request
<1>11. CASE Pause \/ Resume
  <2>1. paused' \in BOOLEAN  BY <1>11 DEF Pause, Resume
  <2> QED  BY <1>11, <2>1 DEF Pause, Resume
<1>12. CASE UNCHANGED vars  BY <1>12 DEF vars
<1> QED
  BY <1>1, <1>2, <1>4, <1>5, <1>6, <1>7, <1>8, <1>9, <1>10, <1>11, <1>12 DEF Next

-----------------------------------------------------------------------------
(* What every step of a supervisor process has in common. *)

\* Its place among the regions of its life, the lock and the heartbeat: it takes
\* a free lock from "boot", gives back the one it holds, or stays on its side of
\* it; and it leaves the start only by dying or with a beat.
ChildStep(w) ==
    /\ Alive(w)
    /\ UNCHANGED <<wrap, watch, age, lag>>
    /\ \A v \in Wrappers \ {w} : pc'[v] = pc[v]
    /\ pc'[w] \notin {"none", "boot"}
    /\ \/ hb'.age = 0 /\ hb'.since = Wrappers
       \/ /\ hb'.age = hb.age /\ hb'.since = hb.since
          /\ pc[w] \in Starting => pc'[w] \in Starting \cup {"dead"}
    /\ pc'[w] \in Starting => pc[w] \in Starting
    /\ \/ pc[w] = "boot" /\ lock = NoOne /\ lock' = w /\ pc'[w] = "locked"
       \/ lock' = lock /\ (pc[w] \in Inside <=> pc'[w] \in Inside)
       \/ lock' = NoOne /\ pc[w] \in Inside /\ pc'[w] \notin Inside

LEMMA ChildSteps ==
  ASSUME TypeOK, NEW w \in Wrappers, Boot(w) \/ Loop(w) \/ Dispatch(w) \/ Finally(w)
  PROVE  ChildStep(w)
<1> USE DEF ChildStep, Running, Alive, Goto, Exit, TypeOK, Inside, Gone, Starting,
            Looping, wrapVars, childVars, fileVars
<1>1. CASE Boot(w)
  <2>1. CASE BootRefused(w)  BY <2>1 DEF BootRefused
  <2>2. CASE Acquire(w)  BY <2>2 DEF Acquire
  <2>3. CASE BootSync(w)  BY <2>3 DEF BootSync
  <2>4. CASE BootFails(w)  BY <2>4 DEF BootFails
  <2>5. CASE BootGoesOn(w)  BY <2>5 DEF BootGoesOn
  <2>6. CASE Inspect(w)  BY <2>6 DEF Inspect
  <2>7. CASE RecordStarted(w)  BY <2>7 DEF RecordStarted
  <2> QED  BY <1>1, <2>1, <2>2, <2>3, <2>4, <2>5, <2>6, <2>7 DEF Boot
<1>2. CASE Deploy(w)
  <2> USE DEF Due, BeginPass
  <2>1. CASE DrainPass(w)  BY <2>1 DEF DrainPass
  <2>2. CASE NoDeploy(w)  BY <2>2 DEF NoDeploy
  <2>3. CASE Defer(w)  BY <2>3 DEF Defer
  <2>4. CASE Merge(w)  BY <2>4 DEF Merge
  <2>5. CASE Sync(w)  BY <2>5 DEF Sync
  <2> QED  BY <1>2, <2>1, <2>2, <2>3, <2>4, <2>5 DEF Deploy
<1>3. CASE Loop(w)
  <2>1. CASE Beat(w)  BY <2>1 DEF Beat
  <2>2. CASE RunsOut(w)  BY <2>2 DEF RunsOut
  <2>3. CASE Poll(w)  BY <2>3 DEF Poll
  <2>4. CASE HonourStop(w)  BY <2>4 DEF HonourStop
  <2>5. CASE HonourPause(w)  BY <2>5 DEF HonourPause
  <2>6. CASE DrainDone(w)  BY <2>6 DEF DrainDone
  <2>7. CASE Idle(w)  BY <2>7 DEF Idle
  <2>8. CASE EndPass(w)  BY <2>8 DEF EndPass, Passing
  <2>9. CASE PassRaises(w)  BY <2>9 DEF PassRaises
  <2> QED
    BY <1>2, <1>3, <2>1, <2>2, <2>3, <2>4, <2>5, <2>6, <2>7, <2>8, <2>9 DEF Loop
<1>4. CASE Dispatch(w)  BY <1>4 DEF Dispatch
<1>5. CASE Finally(w)
  <2>1. CASE ReleaseLock(w)  BY <2>1 DEF ReleaseLock
  <2>2. CASE RecordExit(w)  BY <2>2 DEF RecordExit
  <2>3. CASE ProcessEnds(w)  BY <2>3 DEF ProcessEnds
  <2> QED  BY <1>5, <2>1, <2>2, <2>3 DEF Finally
<1> QED  BY <1>1, <1>3, <1>4, <1>5

-----------------------------------------------------------------------------
(* The lock, the wrapper and the watchdog. *)

Core == Waited /\ LockIsInside /\ Paced /\ HealthySpared

LEMMA CoreInit == Init => Core
  BY SupervisorAssumption
  DEF Init, Core, Waited, LockIsInside, Paced, HealthySpared, Inside, Looping, Alive, Gone

\* A step of the environment on the marker, the pause flag, main or the workers.
LEMMA CoreStutter ==
  ASSUME Core, UNCHANGED <<wrap, watch, pc, age, lag, lock, hb>>
  PROVE  Core'
  BY DEF Core, Waited, LockIsInside, Paced, HealthySpared, Alive, Fresh

LEMMA CoreChild ==
  ASSUME TypeOK, Core, NEW w \in Wrappers, ChildStep(w)
  PROVE  Core'
<1> USE DEF ChildStep, Core
<1>1. Waited'  BY DEF Waited, Alive, Gone
<1>2. LockIsInside'
  BY SupervisorAssumption DEF LockIsInside, Inside, Looping
<1>3. Paced'
  <2> SUFFICES ASSUME NEW v \in Wrappers, Alive(v)', lag'[v] = "no"
               PROVE  IF pc'[v] \in Starting
                      THEN age'[v] <= Grace /\ (Fresh(v)' => hb'.age <= age'[v])
                      ELSE Fresh(v)' /\ hb'.age <= Threshold
    BY DEF Paced
  <2>1. Alive(v) /\ lag[v] = "no"  BY DEF Alive, Gone
  <2>2. age[v] \in Nat /\ hb.age \in Nat /\ Threshold \in Nat /\ Grace \in Nat
    BY SupervisorAssumption, AgeFacts DEF TypeOK
  <2>3. IF pc[v] \in Starting
        THEN age[v] <= Grace /\ (Fresh(v) => hb.age <= age[v])
        ELSE Fresh(v) /\ hb.age <= Threshold
    BY <2>1 DEF Paced
  <2>4. Alive(v)' => pc'[v] # "dead"  BY DEF Alive, Gone
  <2>5. CASE v = w  BY <2>2, <2>3, <2>4, <2>5 DEF Fresh
  <2>6. CASE v # w  BY <2>2, <2>3, <2>6 DEF Fresh
  <2> QED  BY <2>5, <2>6
<1>4. HealthySpared'  BY DEF HealthySpared
<1> QED  BY <1>1, <1>2, <1>3, <1>4

\* A child dies, by a kill or a crash: the system gives its lock back.
LEMMA CoreDies ==
  ASSUME TypeOK, Core, NEW w \in Wrappers, Alive(w), Dies(w, 1),
         UNCHANGED <<wrap, age, lag, hb>>, watch' \in {watch, [watch EXCEPT ![w] = "off"]}
  PROVE  Core'
<1> USE DEF Core, Dies, Goto, TypeOK
<1>1. Waited'  BY DEF Waited, Alive, Gone
<1>2. LockIsInside'  BY SupervisorAssumption DEF LockIsInside, Inside, Looping
<1>3. Paced'  BY DEF Paced, Alive, Gone, Fresh
<1>4. HealthySpared'  BY DEF HealthySpared
<1> QED  BY <1>1, <1>2, <1>3, <1>4

LEMMA CoreWrapper ==
  ASSUME TypeOK, Core, NEW w \in Wrappers, StartWrapper(w) \/ Spawn(w) \/ Reap(w)
  PROVE  Core'
<1> USE DEF Core, TypeOK, wrapVars, childVars, fileVars
<1>1. CASE StartWrapper(w)
  <2>1. Waited'  BY <1>1 DEF StartWrapper, Waited
  <2>2. UNCHANGED <<pc, age, lag, lock, hb, watch>>  BY <1>1 DEF StartWrapper
  <2> QED  BY <2>1, <2>2 DEF LockIsInside, Paced, HealthySpared, Alive, Fresh
<1>2. CASE Spawn(w)
  <2>1. Waited'  BY <1>2 DEF Spawn, Waited
  <2>2. pc[w] = "none"  BY <1>2 DEF Spawn, Waited
  <2>3. LockIsInside'  BY <1>2, <2>2 DEF Spawn, LockIsInside, Inside, Looping
  <2>4. Paced'
    <3>1. /\ hb'.age = hb.age /\ hb'.since \subseteq hb.since
          /\ w \in hb'.since => hb.age = 0
          /\ hb.since \ {w} \subseteq hb'.since
      BY <1>2 DEF Spawn
    <3>2. SUFFICES ASSUME NEW v \in Wrappers, Alive(v)', lag'[v] = "no"
                   PROVE  IF pc'[v] \in Starting
                          THEN age'[v] <= Grace /\ (Fresh(v)' => hb'.age <= age'[v])
                          ELSE Fresh(v)' /\ hb'.age <= Threshold
      BY DEF Paced
    <3>3. CASE v = w
      BY <1>2, <3>1, <3>3, SupervisorAssumption DEF Spawn, Starting, Fresh
    <3>4. CASE v # w
      BY <1>2, <3>1, <3>2, <3>4 DEF Spawn, Paced, Alive, Fresh
    <3> QED  BY <3>3, <3>4
  <2>5. HealthySpared'  BY <1>2 DEF Spawn, HealthySpared
  <2> QED  BY <2>1, <2>3, <2>4, <2>5
<1>3. CASE Reap(w)
  <2>1. Waited'  BY <1>3 DEF Reap, Waited
  <2>2. LockIsInside'  BY <1>3 DEF Reap, LockIsInside, Inside, Looping
  <2>3. Paced'  BY <1>3 DEF Reap, Paced, Alive, Gone, Fresh
  <2>4. HealthySpared'  BY <1>3 DEF Reap, HealthySpared
  <2> QED  BY <2>1, <2>2, <2>3, <2>4
<1> QED  BY <1>1, <1>2, <1>3

\* What the watchdog does, and what befalls a child.
LEMMA CoreWatch ==
  ASSUME TypeOK, Core, NEW w \in Wrappers,
         Judge(w) \/ Kill(w) \/ KillFails(w) \/ Crash(w) \/ Stall(w) \/ Recover(w)
  PROVE  Core'
<1> USE DEF wrapVars, childVars, fileVars
<1>1. CASE Judge(w)
  <2>1. UNCHANGED <<wrap, pc, age, lag, lock, hb>> /\ watch' = [watch EXCEPT ![w] = "kill"]
    BY <1>1 DEF Judge
  <2>2. Waited'  BY <1>1, <2>1 DEF Judge, Core, Waited, Alive, Gone, TypeOK
  <2>3. lag[w] # "no"
    <3> SUFFICES ASSUME lag[w] = "no" PROVE FALSE  OBVIOUS
    <3>1. Alive(w) /\ IsWedged(w)  BY <1>1 DEF Judge
    <3>2. age[w] \in Nat /\ hb.age \in Nat /\ {Threshold, Grace} \subseteq Nat
          /\ Grace <= Threshold
      BY SupervisorAssumption, AgeFacts DEF TypeOK
    <3> QED  BY <3>1, <3>2 DEF Core, Paced, IsWedged
  <2>4. HealthySpared'  BY <2>1, <2>3 DEF Core, HealthySpared, TypeOK
  <2> QED  BY <2>1, <2>2, <2>4 DEF Core, LockIsInside, Paced, Alive, Fresh
<1>2. CASE Kill(w)
  <2>1. CASE Alive(w)  BY <1>2, <2>1, CoreDies DEF Kill
  <2>2. CASE ~Alive(w)
    BY <1>2, <2>2
    DEF Kill, Core, Waited, LockIsInside, Paced, HealthySpared, Alive, Fresh, TypeOK
  <2> QED  BY <2>1, <2>2
<1>3. CASE KillFails(w)
  BY <1>3 DEF KillFails, Core, Waited, LockIsInside, Paced, HealthySpared, Alive, Fresh,
              Gone, TypeOK
<1>4. CASE Crash(w)  BY <1>4, CoreDies DEF Crash
<1>5. CASE Stall(w) \/ Recover(w)
  BY <1>5 DEF Stall, Recover, Core, Waited, LockIsInside, Paced, HealthySpared, Alive,
              Fresh, TypeOK
<1> QED  BY <1>1, <1>2, <1>3, <1>4, <1>5

LEMMA CoreTick == ASSUME TypeOK, Core, Tick  PROVE Core'
<1>1. UNCHANGED <<wrap, watch, pc, lag, lock, hb.since>>
  BY DEF Tick, wrapVars, TypeOK
<1>2. Waited' /\ LockIsInside' /\ HealthySpared'
  BY <1>1 DEF Core, Waited, LockIsInside, HealthySpared
<1>3. Paced'
  <2> SUFFICES ASSUME NEW v \in Wrappers, Alive(v)', lag'[v] = "no"
               PROVE  IF pc'[v] \in Starting
                      THEN age'[v] <= Grace /\ (Fresh(v)' => hb'.age <= age'[v])
                      ELSE Fresh(v)' /\ hb'.age <= Threshold
    BY DEF Paced
  <2>1. Alive(v) /\ lag[v] = "no"  BY <1>1 DEF Alive
  <2>2. /\ age[v] \in 0..AgeCap /\ hb.age \in 0..AgeCap
        /\ {Grace, Threshold} \subseteq Nat
    BY SupervisorAssumption DEF TypeOK
  <2>3. age'[v] = Older(age[v]) /\ hb'.age = Older(hb.age)
    BY <2>1 DEF Tick, TypeOK
  <2>4. age'[v] <= age[v] + 1 /\ hb'.age <= hb.age + 1
        /\ age'[v] \in 0..AgeCap /\ hb'.age \in 0..AgeCap
    BY <2>2, <2>3, AgeFacts
  <2>5. age[v] < Grace => age'[v] = age[v] + 1
    BY <2>2, <2>3, AgeFacts DEF Older
  <2>6. IF pc[v] \in Starting THEN age[v] < Grace ELSE hb.age < Threshold
    BY <2>1 DEF Tick, InTime
  <2>7. IF pc[v] \in Starting
        THEN age[v] <= Grace /\ (Fresh(v) => hb.age <= age[v])
        ELSE Fresh(v) /\ hb.age <= Threshold
    BY <2>1 DEF Core, Paced
  <2>8. (Fresh(v)' <=> Fresh(v)) /\ pc' = pc  BY <1>1 DEF Fresh
  <2>9. AgeCap \in Nat  BY AgeFacts
  <2>10. CASE pc[v] \in Starting
    BY <2>2, <2>4, <2>5, <2>6, <2>7, <2>8, <2>9, <2>10
  <2>11. CASE pc[v] \notin Starting
    BY <2>2, <2>4, <2>6, <2>7, <2>8, <2>9, <2>11
  <2> QED  BY <2>10, <2>11
<1> QED  BY <1>2, <1>3 DEF Core

LEMMA CoreNext == ASSUME TypeOK, Core, [Next]_vars  PROVE Core'
<1>1. ASSUME NEW w \in Wrappers, StartWrapper(w) \/ Spawn(w) \/ Reap(w)  PROVE Core'
  BY <1>1, CoreWrapper
<1>2. ASSUME NEW w \in Wrappers, Boot(w) \/ Loop(w) \/ Dispatch(w) \/ Finally(w)
      PROVE  Core'
  BY <1>2, ChildSteps, CoreChild
<1>3. ASSUME NEW w \in Wrappers,
             Judge(w) \/ Kill(w) \/ KillFails(w) \/ Crash(w) \/ Stall(w) \/ Recover(w)
      PROVE  Core'
  BY <1>3, CoreWatch
<1>4. CASE Tick  BY <1>4, CoreTick
<1>5. CASE \/ WorkerEnds \/ Pause \/ Resume \/ UNCHANGED vars
           \/ \E kind \in {"code", "deps"} : MainMoves(kind)
           \/ \E kind \in {"stop", "drain"} : Request(kind)
  <2>1. UNCHANGED <<wrap, watch, pc, age, lag, lock, hb>>
    BY <1>5 DEF WorkerEnds, Pause, Resume, MainMoves, Request, vars, wrapVars,
                childVars, fileVars
  <2> QED  BY <2>1, CoreStutter
<1> QED  BY <1>1, <1>2, <1>3, <1>4, <1>5 DEF Next

-----------------------------------------------------------------------------
(* Requests. *)

Asked == Polled /\ AskedOnce

\* At most one supervisor is inside, so at most one has polled.
LEMMA OneInside ==
  ASSUME LockIsInside, NEW v \in Wrappers, NEW w \in Wrappers,
         pc[v] \in Inside, pc[w] \in Inside
  PROVE  v = w
  BY DEF LockIsInside

LEMMA AskedInit == Init => Asked
  BY DEF Init, Asked, Polled, AskedOnce

\* A step of w that takes no child to "polled" and begins no counted pass.
NoCount(w) ==
    /\ \A v \in Wrappers \ {w} : pc'[v] = pc[v] /\ draining'[v] = draining[v]
    /\ pc'[w] = "polled" => pc[w] = "polled" /\ draining'[w] = draining[w]
    /\ \/ marker' = marker /\ late' = late
       \/ marker' = "none" /\ late' = 0

LEMMA AskedKept ==
  ASSUME Asked, TypeOK, NEW w \in Wrappers, NoCount(w)
  PROVE  Asked'
<1>1. \A v \in Wrappers :
         pc'[v] = "polled" => pc[v] = "polled" /\ draining'[v] = draining[v]
  BY DEF NoCount
<1> QED  BY <1>1 DEF NoCount, Asked, Polled, AskedOnce, TypeOK

\* A pass begins: the count goes up only from a poll that found nothing.
LEMMA AskedDeploy ==
  ASSUME Asked, TypeOK, LockIsInside, NEW w \in Wrappers, Deploy(w)
  PROVE  Asked'
<1> USE DEF TypeOK, Goto, Exit, BeginPass, Due, wrapVars, childVars, fileVars
<1>1. UNCHANGED <<marker, draining>> /\ \A v \in Wrappers \ {w} : pc'[v] = pc[v]
  BY DEF Deploy, DrainPass, NoDeploy, Defer, Merge, Sync
<1>2. pc[w] \in {"polled", "merged"} /\ pc'[w] # "polled"
  BY DEF Deploy, DrainPass, NoDeploy, Defer, Merge, Sync
<1>3. \/ UNCHANGED late
      \/ pc[w] = "polled" /\ ~draining[w] /\ marker # "none" /\ late' = late + 1
  BY DEF Deploy, DrainPass, NoDeploy, Defer, Merge, Sync
<1>4. CASE UNCHANGED late
  <2>1. NoCount(w)  BY <1>1, <1>2, <1>4 DEF NoCount
  <2> QED  BY <2>1, AskedKept
<1>5. CASE pc[w] = "polled" /\ ~draining[w] /\ marker # "none" /\ late' = late + 1
  <2>1. late = 0  BY <1>5 DEF Asked, Polled
  <2>2. \A v \in Wrappers : pc'[v] # "polled"
    BY <1>1, <1>2, OneInside DEF Inside, Looping
  <2> QED  BY <1>1, <1>5, <2>1, <2>2 DEF Asked, Polled, AskedOnce
<1> QED  BY <1>3, <1>4, <1>5

LEMMA AskedLoop ==
  ASSUME Asked, TypeOK, LockIsInside, NEW w \in Wrappers, Loop(w)
  PROVE  Asked'
<1> USE DEF TypeOK, Goto, Exit, wrapVars, childVars, fileVars
<1>1. CASE Deploy(w)  BY <1>1, AskedDeploy
<1>2. CASE Poll(w)
  <2>1. late = 0 \/ marker # "none"  BY DEF Asked, Polled
  <2>2. pc'[w] = "polled" /\ ~draining'[w] => marker = "none"
    BY <1>2 DEF Poll
  <2>3. UNCHANGED <<marker, late>>
        /\ \A v \in Wrappers \ {w} : pc'[v] = pc[v] /\ draining'[v] = draining[v]
    BY <1>2 DEF Poll
  <2> QED  BY <2>1, <2>2, <2>3 DEF Asked, Polled, AskedOnce
<1>3. CASE \/ Beat(w) \/ RunsOut(w) \/ HonourPause(w) \/ Idle(w) \/ PassRaises(w)
           \/ HonourStop(w) \/ DrainDone(w) \/ EndPass(w)
  <2>0. NoCount(w)
    <3> USE DEF NoCount
    <3>1. CASE Beat(w)  BY <3>1 DEF Beat
    <3>2. CASE RunsOut(w)  BY <3>2 DEF RunsOut
    <3>3. CASE HonourPause(w)  BY <3>3 DEF HonourPause
    <3>4. CASE Idle(w)  BY <3>4 DEF Idle
    <3>5. CASE PassRaises(w)  BY <3>5 DEF PassRaises
    <3>6. CASE HonourStop(w)  BY <3>6 DEF HonourStop, Consume
    <3>7. CASE DrainDone(w)  BY <3>7 DEF DrainDone, Consume
    <3>8. CASE EndPass(w)  BY <3>8 DEF EndPass, Consume
    <3> QED
      BY <1>3, <3>1, <3>2, <3>3, <3>4, <3>5, <3>6, <3>7, <3>8
  <2> QED  BY <2>0, AskedKept
<1> QED  BY <1>1, <1>2, <1>3 DEF Loop

LEMMA AskedNext == ASSUME Asked, TypeOK, LockIsInside, [Next]_vars  PROVE Asked'
<1> USE DEF TypeOK, Goto, Exit, wrapVars, childVars, fileVars
<1>1. ASSUME NEW w \in Wrappers, StartWrapper(w) \/ Spawn(w) \/ Reap(w)  PROVE Asked'
  <2>0. NoCount(w)
    <3> USE DEF NoCount
    <3>1. CASE StartWrapper(w)  BY <3>1 DEF StartWrapper
    <3>2. CASE Spawn(w)  BY <3>2 DEF Spawn
    <3>3. CASE Reap(w)  BY <3>3 DEF Reap
    <3> QED
      BY <1>1, <3>1, <3>2, <3>3
  <2> QED  BY <2>0, AskedKept
<1>2. ASSUME NEW w \in Wrappers, Boot(w)  PROVE Asked'
  <2>0. NoCount(w)
    <3> USE DEF NoCount
    <3>1. CASE BootRefused(w)  BY <3>1 DEF BootRefused
    <3>2. CASE Acquire(w)  BY <3>2 DEF Acquire
    <3>3. CASE BootSync(w)  BY <3>3 DEF BootSync
    <3>4. CASE BootFails(w)  BY <3>4 DEF BootFails
    <3>5. CASE BootGoesOn(w)  BY <3>5 DEF BootGoesOn
    <3>6. CASE Inspect(w)  BY <3>6 DEF Inspect
    <3>7. CASE RecordStarted(w)  BY <3>7 DEF RecordStarted
    <3> QED
      BY <1>2, <3>1, <3>2, <3>3, <3>4, <3>5, <3>6, <3>7 DEF Boot
  <2> QED  BY <2>0, AskedKept
<1>3. ASSUME NEW w \in Wrappers, Loop(w)  PROVE Asked'
  BY <1>3, AskedLoop
<1>4. ASSUME NEW w \in Wrappers, Dispatch(w) \/ Finally(w)  PROVE Asked'
  <2>0. NoCount(w)
    <3> USE DEF NoCount
    <3>1. CASE Dispatch(w)  BY <3>1 DEF Dispatch
    <3>2. CASE ReleaseLock(w)  BY <3>2 DEF ReleaseLock
    <3>3. CASE RecordExit(w)  BY <3>3 DEF RecordExit
    <3>4. CASE ProcessEnds(w)  BY <3>4 DEF ProcessEnds
    <3> QED
      BY <1>4, <3>1, <3>2, <3>3, <3>4 DEF Finally
  <2> QED  BY <2>0, AskedKept
<1>5. ASSUME NEW w \in Wrappers,
             Judge(w) \/ Kill(w) \/ KillFails(w) \/ Crash(w) \/ Stall(w) \/ Recover(w)
      PROVE  Asked'
  <2>0. NoCount(w)
    <3> USE DEF NoCount
    <3>1. CASE Judge(w)  BY <3>1 DEF Judge
    <3>2. CASE Kill(w)  BY <3>2 DEF Kill, Dies
    <3>3. CASE KillFails(w)  BY <3>3 DEF KillFails
    <3>4. CASE Crash(w)  BY <3>4 DEF Crash, Dies
    <3>5. CASE Stall(w)  BY <3>5 DEF Stall
    <3>6. CASE Recover(w)  BY <3>6 DEF Recover
    <3> QED
      BY <1>5, <3>1, <3>2, <3>3, <3>4, <3>5, <3>6
  <2> QED  BY <2>0, AskedKept
<1>6. CASE Tick \/ WorkerEnds \/ Pause \/ Resume \/ UNCHANGED vars
           \/ \E kind \in {"code", "deps"} : MainMoves(kind)
  BY <1>6 DEF Tick, WorkerEnds, Pause, Resume, MainMoves, vars, Asked, Polled, AskedOnce
<1>7. ASSUME NEW kind \in {"stop", "drain"}, Request(kind)  PROVE Asked'
  BY <1>7 DEF Request, Asked, Polled, AskedOnce
<1> QED  BY <1>1, <1>2, <1>3, <1>4, <1>5, <1>6, <1>7 DEF Next

-----------------------------------------------------------------------------
(* The packages of the shared venv. *)

\* Between the merge of a change of the dependencies and its sync no worker lives,
\* though any child may crash, stall or be condemned in between.
MergedAlone == \A w \in Wrappers : pc[w] = "merged" => ~workers

\* The packages a worker runs on are neither exchanged nor left behind by HEAD
\* while it lives: HEAD comes to need others, they are synced and a held-back sync
\* is settled only when no worker does (self_deploy, heal_pending_sync_at_boot).
SyncedAlone ==
    [][ (sync'.skew # sync.skew \/ (sync.marker # "none" /\ sync'.marker = "none"))
        => ~workers /\ ~workers' ]_vars

\* A step after which no worker lives that did not live before, and nobody has
\* merged that had not.
Unstirred ==
    /\ workers' => workers
    /\ \A v \in Wrappers : pc'[v] = "merged" => pc[v] = "merged"

LEMMA UnstirredKeeps == ASSUME MergedAlone, Unstirred  PROVE MergedAlone'
  BY DEF MergedAlone, Unstirred

\* Of the steps of a child only a merge and a dispatch stir.
LEMMA ChildUnstirred ==
  ASSUME TypeOK, NEW w \in Wrappers,
         Boot(w) \/ Finally(w) \/ (Loop(w) /\ ~Merge(w))
  PROVE  Unstirred
<1> USE DEF Unstirred, TypeOK, Goto, Exit, wrapVars, childVars, fileVars
<1>1. CASE Boot(w)
  BY <1>1 DEF Boot, BootRefused, Acquire, BootSync, BootFails, BootGoesOn, Inspect,
              RecordStarted
<1>2. CASE Deploy(w) /\ ~Merge(w)
  BY <1>2 DEF Deploy, DrainPass, NoDeploy, Defer, Sync, BeginPass
<1>3. CASE Loop(w) /\ ~Deploy(w)
  <2>1. UNCHANGED workers /\ \A v \in Wrappers \ {w} : pc'[v] = pc[v]
    BY <1>3 DEF Loop, Beat, RunsOut, Poll, HonourStop, HonourPause, DrainDone, Idle,
                EndPass, PassRaises
  <2>2. pc'[w] # "merged"
    BY <1>3 DEF Loop, Beat, RunsOut, Poll, HonourStop, HonourPause, DrainDone, Idle,
                EndPass, PassRaises
  <2> QED  BY <2>1, <2>2
<1>4. CASE Finally(w)
  BY <1>4 DEF Finally, ReleaseLock, RecordExit, ProcessEnds
<1> QED  BY <1>1, <1>2, <1>3, <1>4 DEF Loop, Deploy

\* Nor does the wrapper, the watchdog, a fault, time or the environment.
LEMMA OthersUnstirred ==
  ASSUME TypeOK,
         \/ \E w \in Wrappers :
              \/ StartWrapper(w) \/ Spawn(w) \/ Reap(w) \/ Judge(w) \/ Kill(w)
              \/ KillFails(w) \/ Crash(w) \/ Stall(w) \/ Recover(w)
         \/ Tick \/ WorkerEnds \/ Pause \/ Resume \/ UNCHANGED vars
         \/ \E kind \in {"code", "deps"} : MainMoves(kind)
         \/ \E kind \in {"stop", "drain"} : Request(kind)
  PROVE  Unstirred
<1> USE DEF Unstirred, TypeOK, Goto, wrapVars, childVars, fileVars
<1>1. ASSUME NEW w \in Wrappers, StartWrapper(w) \/ Spawn(w) \/ Reap(w)  PROVE Unstirred
  BY <1>1 DEF StartWrapper, Spawn, Reap
<1>2. ASSUME NEW w \in Wrappers,
             Judge(w) \/ Kill(w) \/ KillFails(w) \/ Crash(w) \/ Stall(w) \/ Recover(w)
      PROVE  Unstirred
  BY <1>2 DEF Judge, Kill, KillFails, Crash, Stall, Recover, Dies
<1>3. CASE Tick \/ WorkerEnds \/ Pause \/ Resume \/ UNCHANGED vars
           \/ (\E kind \in {"code", "deps"} : MainMoves(kind))
           \/ (\E kind \in {"stop", "drain"} : Request(kind))
  BY <1>3 DEF Tick, WorkerEnds, Pause, Resume, MainMoves, Request, vars
<1> QED  BY <1>1, <1>2, <1>3

LEMMA MergedAloneNext ==
  ASSUME TypeOK, LockIsInside, MergedAlone, [Next]_vars  PROVE MergedAlone'
<1>1. ASSUME NEW w \in Wrappers, Dispatch(w)  PROVE MergedAlone'
  <2>1. pc' = pc /\ pc[w] = "pass"  BY <1>1 DEF Dispatch, childVars
  <2>2. \A v \in Wrappers : pc[v] # "merged"
    BY <2>1, OneInside DEF Inside, Looping
  <2> QED  BY <2>1, <2>2 DEF MergedAlone
<1>2. ASSUME NEW w \in Wrappers, Merge(w)  PROVE MergedAlone'
  <2>1. workers' = workers /\ \A v \in Wrappers \ {w} : pc'[v] = pc[v]
    BY <1>2 DEF Merge, Goto, TypeOK
  <2>2. pc'[w] = "merged" => ~workers
    BY <1>2 DEF Merge, Goto, TypeOK
  <2> QED  BY <2>1, <2>2 DEF MergedAlone
<1>3. CASE Unstirred  BY <1>3, UnstirredKeeps
<1> QED
  BY <1>1, <1>2, <1>3, ChildUnstirred, OthersUnstirred DEF Next, Loop

\* Who writes of the sync what SyncedAlone speaks of, and what each has seen.
LEMMA SyncedAloneStep ==
  ASSUME TypeOK, MergedAlone, [Next]_vars,
         sync'.skew # sync.skew \/ (sync.marker # "none" /\ sync'.marker = "none")
  PROVE  ~workers /\ ~workers'
<1>0. sync \in Syncs  BY DEF TypeOK, Syncs
<1>1. ASSUME NEW w \in Wrappers, BootSync(w) \/ BootGoesOn(w)  PROVE ~workers /\ ~workers'
  BY <1>1 DEF BootSync, BootGoesOn
<1>2. ASSUME NEW w \in Wrappers, Merge(w)  PROVE ~workers /\ ~workers'
  <2>1. workers' = workers /\ ~(DepPending /\ workers)  BY <1>2 DEF Merge
  <2>2. sync'.skew = (sync.skew \/ main = "deps") /\ sync'.marker = sync.marker
    BY <1>0, <1>2 DEF Merge, Syncs
  <2>3. sync.skew \in BOOLEAN  BY DEF TypeOK
  <2>4. main = "deps"  BY <2>2, <2>3
  <2> QED  BY <2>1, <2>4 DEF DepPending
<1>3. ASSUME NEW w \in Wrappers, Sync(w)  PROVE ~workers /\ ~workers'
  BY <1>3 DEF Sync, MergedAlone
<1>4. ASSUME NEW w \in Wrappers, Defer(w)  PROVE FALSE
  <2>1. sync'.skew = sync.skew /\ sync'.marker # "none"
    BY <1>0, <1>4 DEF Defer, Syncs
  <2> QED  BY <2>1
<1>5. CASE Tick
  <2>1. sync'.skew = sync.skew /\ sync'.marker = sync.marker
    BY <1>0, <1>5 DEF Tick, Syncs
  <2> QED  BY <2>1
<1>6. ASSUME sync' = sync  PROVE FALSE  BY <1>6
<1>7. ASSUME NEW w \in Wrappers, Boot(w), ~BootSync(w), ~BootGoesOn(w)
      PROVE  sync' = sync
  BY <1>7 DEF Boot, BootRefused, Acquire, BootFails, Inspect, RecordStarted, deployVars
<1>8. ASSUME NEW w \in Wrappers, Loop(w), ~Merge(w), ~Sync(w), ~Defer(w)
      PROVE  sync' = sync
  BY <1>8 DEF Loop, Deploy, DrainPass, NoDeploy, Beat, RunsOut, Poll, HonourStop,
              HonourPause, DrainDone, Idle, EndPass, PassRaises, deployVars
<1>9. ASSUME NEW w \in Wrappers, Dispatch(w) \/ Finally(w)  PROVE sync' = sync
  BY <1>9 DEF Dispatch, Finally, ReleaseLock, RecordExit, ProcessEnds, deployVars
<1>10. ASSUME NEW w \in Wrappers,
              \/ StartWrapper(w) \/ Spawn(w) \/ Reap(w) \/ Judge(w) \/ Kill(w)
              \/ KillFails(w) \/ Crash(w) \/ Stall(w) \/ Recover(w)
       PROVE  sync' = sync
  BY <1>10 DEF StartWrapper, Spawn, Reap, Judge, Kill, KillFails, Crash, Stall, Recover,
               deployVars
<1>11. CASE WorkerEnds \/ Pause \/ Resume \/ UNCHANGED vars
            \/ (\E kind \in {"code", "deps"} : MainMoves(kind))
            \/ (\E kind \in {"stop", "drain"} : Request(kind))
  <2>1. sync' = sync
    BY <1>11 DEF WorkerEnds, Pause, Resume, MainMoves, Request, vars, deployVars
  <2> QED  BY <1>6, <2>1
<1> QED
  BY <1>1, <1>2, <1>3, <1>4, <1>5, <1>6, <1>7, <1>8, <1>9, <1>10, <1>11 DEF Next

-----------------------------------------------------------------------------
(* The theorems. *)

SupInv == TypeOK /\ Budgeted /\ Core /\ Asked /\ MergedAlone

LEMMA SupInvariant == Spec => []SupInv
<1>1. Init => SupInv
  <2>1. Init => MergedAlone  BY DEF Init, MergedAlone
  <2> QED  BY <2>1, TypeInit, CoreInit, AskedInit DEF SupInv
<1>2. SupInv /\ [Next]_vars => SupInv'
  BY TypeNext, CoreNext, AskedNext, MergedAloneNext DEF SupInv, Core
<1> QED  BY <1>1, <1>2, PTL DEF Spec

\* The supervisor's state is well typed: a wrapper launches at most one child
\* more than its relaunch bound before it retires (supervise_loop.py).
THEOREM Typing == Spec => []TypeOK
<1>1. SupInv => TypeOK  BY DEF SupInv
<1> QED  BY <1>1, SupInvariant, PTL

\* Every exit of run_fleet_supervise, by whatever path, gives the fleet lock
\* back, and none gives back another's: the lock names the process inside.
THEOREM LockIsInsideHolds == Spec => []LockIsInside
<1>1. SupInv => LockIsInside  BY DEF SupInv, Core
<1> QED  BY <1>1, SupInvariant, PTL

\* The watchdog condemns no child that has kept its pace, whatever any number of
\* earlier and concurrent supervisors left in the heartbeat file.
THEOREM HealthySparedHolds == Spec => []HealthySpared
<1>1. SupInv => HealthySpared  BY DEF SupInv, Core
<1> QED  BY <1>1, SupInvariant, PTL

\* While a stop or drain request is pending, over crashes, kills, restarts and
\* relaunches, at most the one pass that had polled begins to dispatch.
THEOREM AskedOnceHolds == Spec => []AskedOnce
<1>1. SupInv => AskedOnce  BY DEF SupInv, Asked
<1> QED  BY <1>1, SupInvariant, PTL

\* No worker's packages change under it: whatever is deployed, held back, retried
\* after a failure or repaired at a boot, for every number of wrappers.
THEOREM SyncedAloneHolds == Spec => SyncedAlone
<1>1. SupInv /\ [Next]_vars
      => [ (sync'.skew # sync.skew \/ (sync.marker # "none" /\ sync'.marker = "none"))
           => ~workers /\ ~workers' ]_vars
  BY SyncedAloneStep DEF SupInv
<1> QED  BY <1>1, SupInvariant, PTL DEF Spec, SyncedAlone
=============================================================================
