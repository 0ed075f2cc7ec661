------------------------- MODULE IssueDispatchProofs -------------------------
(* Theorems about IssueDispatch for every set of issues, passes and workers and
   every bound, with passes that die anywhere and passes that give up on
   state_lock.  All but the typing suppose that the fleet cap is enabled, without
   which two passes claim one issue. *)
EXTENDS IssueDispatch, TLAPS

\* A pass that is over before it returned.
Gone(p) == Crash(p) \/ StateBusy(p)

InWindow == {"permitted", "scanned", "filtered", "claimed", "launching",
             "spawned", "marked"}
Starting == {"launching", "spawned", "marked"}

\* The window from the permit to the last launch is the fleet lock's holder's.
Held == \A p \in Passes : pc[p] \in InWindow => fleetLock = p

\* The locals of a pass between its claim and its record: what it still has to
\* launch is of its batch and has no result, what it is launching is among it.
LocalAt(p) ==
    /\ pc[p] = "claimed" => todo[p] = batch[p]
    /\ pc[p] \in Starting => todo[p] \subseteq batch[p]
    /\ pc[p] \in Starting => \A i \in todo[p] : result[p][i] = "none"
    /\ pc[p] \in {"spawned", "marked"} => current[p] \in todo[p]
Local == \A p \in Passes : LocalAt(p)

\* A claim is fresh as long as its pass holds it, unless the issue was escalated
\* under it; both make the filter of every other pass leave the issue alone.
MarkedAt(i) == status[i] = "escalated" \/ (status[i] = "dispatch_pending" /\ i \notin aged)
Marked == \A p \in Passes : \A i \in Owned(p) : MarkedAt(i)

\* No other pass holds or has filtered what a pass holds.
Apart ==
    \A p, q \in Passes : p # q =>
        /\ Owned(p) \cap Owned(q) = {}
        /\ pc[p] = "filtered" => batch[p] \cap Owned(q) = {}

\* Where a running worker is: being launched, launched by a pass that has not
\* recorded it yet, on record, or left by its pass under a claim that is fresh
\* or an entry that is escalated, with its sidecar.
Spawned(p, s) ==
    pc[p] \in {"spawned", "marked"} /\ current[p] = runs[s] /\ got[p][runs[s]] = s
Launched(p, s) ==
    /\ pc[p] \in Starting \cup {"record", "label"} /\ runs[s] \in Owned(p)
    /\ result[p][runs[s]] = "ok" /\ got[p][runs[s]] = s /\ sidecar[runs[s]] = s
Recorded(s) ==
    status[runs[s]] = "dispatched" /\ pid[runs[s]] = s /\ sidecar[runs[s]] = s

Left(s) ==
    /\ MarkedAt(runs[s]) /\ sidecar[runs[s]] = s
    /\ \A p \in Passes : runs[s] \notin Owned(p)

PlacedAt(s) ==
    Recorded(s) \/ Left(s) \/ \E p \in Passes : Spawned(p, s) \/ Launched(p, s)
Placed == \A s \in Sessions \ lost : Alive(s) => PlacedAt(s)

\* What a pass has filtered has no running worker but lost ones.
Quiet ==
    \A p \in Passes : pc[p] = "filtered" =>
        \A s \in Sessions \ lost : Alive(s) => runs[s] \notin batch[p]

\* What a pass holds or has filtered is within its retries.
WithinAt(i) == failed[i] <= Cap /\ blocked[i] <= Cap
Within ==
    \A p \in Passes :
        /\ \A i \in Owned(p) : WithinAt(i)
        /\ pc[p] = "filtered" => \A i \in batch[p] : WithinAt(i)

-----------------------------------------------------------------------------
(* Type correctness. *)

\* A pass that is launching, or about to label, names the issue.
Busy == \A p \in Passes : pc[p] \in {"spawned", "marked", "label"} => current[p] \in Issues

\* The part of the type invariant about a pass's location and locals.
LocalsOK ==
    /\ pc \in [Passes -> Locations]
    /\ batch \in [Passes -> SUBSET Issues] /\ liveSeen \in [Passes -> SUBSET Issues]
    /\ prSeen \in [Passes -> SUBSET Issues] /\ recovers \in [Passes -> SUBSET Issues]
    /\ todo \in [Passes -> SUBSET Issues]
    /\ current \in [Passes -> Issues \cup {NoIssue}]
    /\ result \in [Passes -> [Issues -> Results]]
    /\ got \in [Passes -> [Issues -> Sessions \cup {NoSession}]]

\* One cell of a pass's results, or of the sessions they name, is replaced.
LEMMA CellType ==
    ASSUME NEW S, NEW f \in [Passes -> [Issues -> S]],
           NEW p \in Passes, NEW i \in Issues, NEW x \in S
    PROVE  [f EXCEPT ![p][i] = x] \in [Passes -> [Issues -> S]]
OBVIOUS

\* The end of a pass clears its locals.
LEMMA OverType ==
    ASSUME LocalsOK, NEW p \in Passes, Over(p) PROVE LocalsOK'
<1>1. /\ "idle" \in Locations /\ [i \in Issues |-> "none"] \in [Issues -> Results]
      /\ [i \in Issues |-> NoSession] \in [Issues -> Sessions \cup {NoSession}]
  BY DEF Locations, Results
<1> QED
  BY <1>1 DEF LocalsOK, Over, Goto

LEMMA OneMoreType == \A n \in Nat : OneMore(n) \in Nat
  BY DispatchAssumption DEF OneMore

\* A launch that starts no worker.
LEMMA NoLaunchType ==
    ASSUME TypeOK, NEW p \in Passes, NEW i \in Issues,
           NEW r \in Results, NEW s \in Sessions \cup {NoSession}, NoLaunch(p, i, r, s),
           marker' \in [Issues -> Sessions \cup {NoSession, Operator}]
    PROVE  TypeOK'
<1>1. /\ result' \in [Passes -> [Issues -> Results]]
      /\ got' \in [Passes -> [Issues -> Sessions \cup {NoSession}]]
  BY CellType DEF TypeOK, NoLaunch
<1>2. /\ sidecar' \in [Issues -> Sessions \cup {NoSession}] /\ renamed' \in SUBSET Issues
      /\ todo' \in [Passes -> SUBSET Issues]
  BY DEF TypeOK, NoLaunch
<1> QED
  BY <1>1, <1>2 DEF TypeOK, NoLaunch, entryVars, githubVars, otherVars, lockVars

\* The sweep of a stale marker leaves a session or none.
LEMMA SweptType ==
    ASSUME TypeOK, NEW i \in Issues
    PROVE  Swept(i) \in Sessions \cup {NoSession} /\ (Alive(marker[i]) => marker[i] \in Sessions)
  BY DEF TypeOK, Swept, Alive

\* The record of a result.
LEMMA EntryType ==
    ASSUME TypeOK, NEW i \in Issues, NEW st \in Statuses,
           NEW s \in Sessions \cup {NoSession}, NEW f \in Nat, NEW b \in Nat, NEW r \in Nat,
           Entry(i, st, s, f, b, r)
    PROVE  /\ status' \in [Issues -> Statuses] /\ pid' \in [Issues -> Sessions \cup {NoSession}]
           /\ failed' \in [Issues -> Nat] /\ blocked' \in [Issues -> Nat]
           /\ reaps' \in [Issues -> Nat] /\ redispatched' \in [Issues -> Nat]
           /\ aged' \in SUBSET Issues /\ claimed' \in SUBSET Issues
  BY DEF TypeOK, Entry

LEMMA TypeInit == Init => TypeOK
  BY DispatchAssumption
  DEF Init, TypeOK, Statuses, Results, Locations

LEMMA TypeNext == ASSUME TypeOK, Busy, [Next]_vars PROVE TypeOK'
<1> USE DEF entryVars, githubVars, diskVars, lockVars, passVars, otherVars, Goto
<1>1. ASSUME NEW p \in Passes, List(p) \/ Permit(p) \/ Scan(p) \/ Filter(p) PROVE TypeOK'
  <2> USE DEF Locations, TypeOK
  <2>1. CASE List(p)  BY <2>1 DEF List
  <2>2. CASE Permit(p)  BY <2>2 DEF Permit
  <2>3. CASE Scan(p)  BY <2>3 DEF Scan
  <2>4. CASE Filter(p)  BY <2>4 DEF Filter, Candidates
  <2> QED  BY <1>1, <2>1, <2>2, <2>3, <2>4
<1>2. ASSUME NEW p \in Passes, Claim(p) \/ Gate(p) PROVE TypeOK'
  <2>1. CASE Claim(p)
    <3>1. PICK S \in SUBSET Issues :
            /\ batch' = [batch EXCEPT ![p] = S] /\ todo' = [todo EXCEPT ![p] = S]
            /\ recovers' = [recovers EXCEPT ![p] = {i \in S : status[i] = "dispatched"}]
            /\ status' = [i \in Issues |-> IF i \in S THEN "dispatch_pending" ELSE status[i]]
            /\ aged' = aged \ S
      BY <2>1 DEF Claim, Selections, TypeOK
    <3>2. /\ status' \in [Issues -> Statuses] /\ recovers' \in [Passes -> SUBSET Issues]
          /\ batch' \in [Passes -> SUBSET Issues] /\ todo' \in [Passes -> SUBSET Issues]
          /\ pc' \in [Passes -> Locations]
      BY <2>1, <3>1 DEF Claim, TypeOK, Statuses, Locations
    <3> QED  BY <2>1, <3>1, <3>2 DEF Claim, TypeOK
  <2>2. CASE Gate(p)
    <3>1. PICK stopped \in SUBSET Issues :
            /\ result' = [result EXCEPT ![p] =
                             [i \in Issues |-> IF i \in stopped THEN "gated" ELSE "none"]]
            /\ todo' = [todo EXCEPT ![p] = @ \ stopped]
      BY <2>2 DEF Gate, TypeOK
    <3>2. [i \in Issues |-> IF i \in stopped THEN "gated" ELSE "none"] \in [Issues -> Results]
      BY DEF Results
    <3> QED  BY <2>2, <3>1, <3>2 DEF Gate, TypeOK, Locations
  <2> QED  BY <1>2, <2>1, <2>2
<1>3. ASSUME NEW p \in Passes, Defer(p) \/ Return(p) \/ Gone(p) PROVE TypeOK'
  <2> USE DEF Gone, Crash, StateBusy, Leaves
  <2>1. LocalsOK /\ Over(p)  BY <1>3 DEF TypeOK, LocalsOK, Defer, Return
  <2>2. LocalsOK'  BY <2>1, OverType
  <2>3. /\ fleetLock' \in Passes \cup {NoPass} /\ stateLock' \in Passes \cup {NoPass}
        /\ UNCHANGED <<entryVars, githubVars, diskVars, runs, command, owed>>
        /\ lost' \in SUBSET Sessions
    BY <1>3 DEF TypeOK, Defer, Return, DropFleet, DropState, InHand
  <2> QED  BY <2>2, <2>3 DEF TypeOK, LocalsOK
<1>4. ASSUME NEW p \in Passes, NEW i \in Issues, LaunchBlocked(p, i) \/ LaunchAverted(p, i)
                                                   \/ LaunchFailed(p, i)
      PROVE  TypeOK'
  <2>1. /\ {"blocked", "averted", "failed", "unsafe"} \subseteq Results
        /\ pid[i] \in Sessions \cup {NoSession}
        /\ Alive(marker[i]) => marker[i] \in Sessions
        /\ Swept(i) \in Sessions \cup {NoSession}
    BY SweptType DEF TypeOK, Results
  <2>2. marker' \in [Issues -> Sessions \cup {NoSession, Operator}]
    BY <1>4, <2>1 DEF LaunchBlocked, LaunchAverted, LaunchFailed, TypeOK
  <2>3. \E r \in Results : \E s \in Sessions \cup {NoSession} : NoLaunch(p, i, r, s)
    BY <1>4, <2>1, Zenon
    DEF LaunchBlocked, LaunchAverted, LaunchFailed, ForeignWriter, BusyTree, Alive
  <2> QED  BY <2>2, <2>3, NoLaunchType
<1>5. ASSUME NEW p \in Passes, NEW i \in Issues, ReapIdleWriter(p, i) PROVE TypeOK'
  <2>1. /\ runs' \in [Sessions -> Issues \cup {NoIssue}]
        /\ marker' \in [Issues -> Sessions \cup {NoSession, Operator}]
    BY <1>5 DEF ReapIdleWriter, TypeOK
  <2> QED  BY <1>5, <2>1 DEF ReapIdleWriter, TypeOK
<1>6. ASSUME NEW p \in Passes, NEW i \in Issues, NEW s \in Sessions, Spawn(p, i, s)
      PROVE  TypeOK'
  <2>1. got' \in [Passes -> [Issues -> Sessions \cup {NoSession}]]
    BY <1>6, CellType DEF Spawn, TypeOK
  <2>2. /\ runs' \in [Sessions -> Issues \cup {NoIssue}]
        /\ tree' \in [Issues -> {"absent", "pristine", "work"}]
        /\ marker' \in [Issues -> Sessions \cup {NoSession, Operator}]
        /\ current' \in [Passes -> Issues \cup {NoIssue}]
        /\ pc' \in [Passes -> Locations]
    BY <1>6, SweptType DEF Spawn, TypeOK, Locations
  <2> QED  BY <1>6, <2>1, <2>2 DEF Spawn, TypeOK
<1>7. ASSUME NEW p \in Passes, Mark(p) \/ Register(p) \/ Release(p) \/ Label(p) PROVE TypeOK'
  <2>1. CASE Mark(p)
    <3>1. current[p] \in Issues  BY <2>1 DEF Mark, Busy
    <3>2. /\ got[p][current[p]] \in Sessions \cup {NoSession}
          /\ marker[current[p]] \in Sessions \cup {NoSession, Operator}
      BY <3>1 DEF TypeOK
    <3>3. \/ marker' = [marker EXCEPT ![current[p]] = got[p][current[p]]]
          \/ marker' = [marker EXCEPT ![current[p]] = marker[current[p]]]
      BY <2>1, Zenon DEF Mark
    <3>4. marker' \in [Issues -> Sessions \cup {NoSession, Operator}]
      BY <3>1, <3>2, <3>3 DEF TypeOK
    <3> QED  BY <2>1, <3>4 DEF Mark, TypeOK, Locations
  <2>2. CASE Register(p)
    <3>1. /\ current[p] \in Issues /\ "ok" \in Results
          /\ got[p][current[p]] \in Sessions \cup {NoSession}
      BY <2>2 DEF Register, Busy, TypeOK, Results
    <3>2. result' \in [Passes -> [Issues -> Results]]
      BY <2>2, <3>1, CellType DEF Register, TypeOK
    <3>3. /\ sidecar' \in [Issues -> Sessions \cup {NoSession}] /\ renamed' \in SUBSET Issues
      BY <2>2, <3>1 DEF Register, TypeOK
    <3>4. /\ todo' \in [Passes -> SUBSET Issues] /\ current' \in [Passes -> Issues \cup {NoIssue}]
          /\ pc' \in [Passes -> Locations]
      BY <2>2 DEF Register, TypeOK, Locations
    <3> QED  BY <2>2, <3>2, <3>3, <3>4 DEF Register, TypeOK
  <2>3. CASE Release(p)
    <3>1. result' \in [Passes -> [Issues -> Results]]
      BY <2>3 DEF Release, TypeOK, Results
    <3> QED  BY <2>3, <3>1 DEF Release, TypeOK, Locations, DropFleet
  <2>4. CASE Label(p)
    <3>1. active' \in SUBSET Issues /\ parked' \in SUBSET Issues
      BY <2>4 DEF Label, Busy, TypeOK
    <3> QED  BY <2>4, <3>1 DEF Label, TypeOK, Locations
  <2> QED  BY <1>7, <2>1, <2>2, <2>3, <2>4
<1>8. ASSUME NEW p \in Passes, NEW i \in Issues, Record(p, i) PROVE TypeOK'
  <2>1. /\ pc' \in [Passes -> Locations] /\ todo' \in [Passes -> SUBSET Issues]
        /\ current' \in [Passes -> Issues \cup {NoIssue}]
        /\ stateLock' \in Passes \cup {NoPass}
    BY <1>8 DEF Record, TypeOK, Locations
  <2>2. /\ {"dispatched", "dispatch_failed", "passive", "escalated"} \subseteq Statuses
        /\ 0 \in Nat /\ failed[i] \in Nat /\ blocked[i] \in Nat /\ reaps[i] \in Nat
        /\ reaps[i] + 1 \in Nat /\ OneMore(failed[i]) \in Nat /\ OneMore(blocked[i]) \in Nat
        /\ pid[i] \in Sessions \cup {NoSession} /\ got[p][i] \in Sessions \cup {NoSession}
        /\ NoSession \in Sessions \cup {NoSession}
    BY OneMoreType DEF TypeOK, Statuses
  <2>3. \E st \in Statuses, s \in Sessions \cup {NoSession}, f \in Nat, b \in Nat, r \in Nat :
           Entry(i, st, s, f, b, r)
    <3>1. CASE RecordOk(p, i) \/ RecordLive(p, i)
      BY <2>2, <3>1, Zenon DEF RecordOk, RecordLive
    <3>2. CASE RecordPhantom(p, i)  BY <2>2, <3>2, Zenon DEF RecordPhantom
    <3>3. CASE RecordBlocked(p, i)  BY <2>2, <3>3, Zenon DEF RecordBlocked
    <3>4. CASE RecordFailed(p, i)  BY <2>2, <3>4, Zenon DEF RecordFailed
    <3> QED  BY <1>8, <3>1, <3>2, <3>3, <3>4 DEF Record
  <2>4. /\ status' \in [Issues -> Statuses] /\ pid' \in [Issues -> Sessions \cup {NoSession}]
        /\ failed' \in [Issues -> Nat] /\ blocked' \in [Issues -> Nat]
        /\ reaps' \in [Issues -> Nat] /\ redispatched' \in [Issues -> Nat]
        /\ aged' \in SUBSET Issues /\ claimed' \in SUBSET Issues
    BY <2>3, EntryType
  <2>5. /\ ready' \in SUBSET Issues /\ active' \in SUBSET Issues /\ parked' \in SUBSET Issues
        /\ hasPR' \in SUBSET Issues /\ sidecar' \in [Issues -> Sessions \cup {NoSession}]
        /\ renamed' \in SUBSET Issues
        /\ marker' \in [Issues -> Sessions \cup {NoSession, Operator}]
        /\ tree' \in [Issues -> {"absent", "pristine", "work"}]
        /\ runs' \in [Sessions -> Issues \cup {NoIssue}]
    <3>1. CASE RecordOk(p, i) \/ RecordLive(p, i) \/ RecordFailed(p, i)
      BY <3>1 DEF RecordOk, RecordLive, RecordFailed, Unlabelled, TypeOK
    <3>2. CASE RecordPhantom(p, i)  BY <3>2 DEF RecordPhantom, Unlabelled, TypeOK
    <3>3. CASE RecordBlocked(p, i)  BY <3>3 DEF RecordBlocked, Unlabelled, TypeOK
    <3> QED  BY <1>8, <3>1, <3>2, <3>3 DEF Record
  <2> QED  BY <1>8, <2>1, <2>4, <2>5 DEF Record, TypeOK
<1>9. ASSUME NEW s \in Sessions, Work(s) \/ Deliver(s) \/ Exit(s) PROVE TypeOK'
  <2>1. CASE Work(s)  BY <2>1 DEF Work, TypeOK, Alive
  <2>2. CASE Deliver(s)  BY <2>2 DEF Deliver, TypeOK, Alive
  <2>3. CASE Exit(s)  BY <2>3 DEF Exit, TypeOK
  <2> QED  BY <1>9, <2>1, <2>2, <2>3
<1>10. ASSUME NEW i \in Issues, Reclaim(i) \/ Relabel(i) \/ Age(i) \/ Forget(i)
                                \/ ClearStaleClaim(i) \/ Operate(i)
       PROVE  TypeOK'
  <2>1. CASE Reclaim(i)
    <3>1. /\ status' \in {status, [status EXCEPT ![i] = "escalated"]}
          /\ parked' \in {parked, parked \cup {i}} /\ active' \in {active, active \ {i}}
          /\ owed' \in {owed, owed \cup {i}}
          /\ sidecar' = [sidecar EXCEPT ![i] = NoSession]
      BY <2>1 DEF Reclaim
    <3>2. OneMore(redispatched[i]) \in Nat  BY OneMoreType DEF TypeOK
    <3>3. redispatched' \in [Issues -> Nat]  BY <2>1, <3>2 DEF Reclaim, TypeOK
    <3>4. status' \in [Issues -> Statuses]  BY <3>1 DEF TypeOK, Statuses
    <3>5. sidecar' \in [Issues -> Sessions \cup {NoSession}]  BY <3>1 DEF TypeOK
    <3>6. parked' \in SUBSET Issues /\ active' \in SUBSET Issues /\ owed' \in SUBSET Issues
      BY <3>1 DEF TypeOK
    <3> QED  BY <2>1, <3>3, <3>4, <3>5, <3>6 DEF Reclaim, TypeOK
  <2>2. CASE Relabel(i)  BY <2>2 DEF Relabel, TypeOK
  <2>3. CASE Age(i)  BY <2>3 DEF Age, TypeOK
  <2>4. CASE Forget(i)
    <3>1. /\ failed' \in [Issues -> Nat] /\ blocked' \in [Issues -> Nat]
          /\ reaps' \in [Issues -> Nat] /\ redispatched' \in [Issues -> Nat]
      BY <2>4 DEF Forget, TypeOK
    <3> QED  BY <2>4, <3>1 DEF Forget, TypeOK
  <2>5. CASE ClearStaleClaim(i)
    <3>1. /\ failed' \in [Issues -> Nat] /\ blocked' \in [Issues -> Nat]
          /\ reaps' \in [Issues -> Nat] /\ redispatched' \in [Issues -> Nat]
          /\ status' \in [Issues -> Statuses] /\ pid' \in [Issues -> Sessions \cup {NoSession}]
      BY <2>5 DEF ClearStaleClaim, TypeOK, Statuses
    <3> QED  BY <2>5, <3>1 DEF ClearStaleClaim, TypeOK
  <2>6. CASE ClaimMarker(i)
    <3>1. /\ marker' \in [Issues -> Sessions \cup {NoSession, Operator}]
          /\ command' \in [Issues -> {"none", "claim", "release"}]
      BY <2>6 DEF ClaimMarker, TypeOK
    <3> QED  BY <2>6, <3>1 DEF ClaimMarker, TypeOK
  <2>7. CASE ClaimRecord(i)
    <3>1. /\ claimed' \in SUBSET Issues
          /\ command' \in [Issues -> {"none", "claim", "release"}]
      BY <2>7 DEF ClaimRecord, TypeOK
    <3> QED  BY <2>7, <3>1 DEF ClaimRecord, TypeOK
  <2>8. CASE ClaimBusy(i)  BY <2>8 DEF ClaimBusy, TypeOK
  <2> QED  BY <1>10, <2>1, <2>2, <2>3, <2>4, <2>5, <2>6, <2>7, <2>8 DEF Operate
<1>11. CASE UNCHANGED vars  BY <1>11 DEF vars, TypeOK
<1> QED
  BY <1>1, <1>2, <1>3, <1>4, <1>5, <1>6, <1>7, <1>8, <1>9, <1>10, <1>11
  DEF Next, PassStep, Gone

LEMMA BusyNext == ASSUME TypeOK, Busy, [Next]_vars PROVE Busy'
<1> USE DEF Busy, TypeOK, entryVars, githubVars, diskVars, lockVars, passVars, otherVars, Goto
<1>1. ASSUME NEW p \in Passes, List(p) \/ Permit(p) \/ Scan(p) \/ Filter(p) \/ Claim(p) \/ Gate(p)
      PROVE  Busy'
  BY <1>1 DEF List, Permit, Scan, Filter, Claim, Gate
<1>2. ASSUME NEW p \in Passes, Defer(p) \/ Return(p) \/ Gone(p) PROVE Busy'
  BY <1>2 DEF Defer, Return, Gone, Crash, StateBusy, Leaves, Over
<1>3. ASSUME NEW p \in Passes, NEW i \in Issues, LaunchBlocked(p, i) \/ LaunchAverted(p, i)
                      \/ LaunchFailed(p, i) \/ ReapIdleWriter(p, i)
      PROVE  Busy'
  BY <1>3 DEF LaunchBlocked, LaunchAverted, LaunchFailed, ReapIdleWriter, NoLaunch
<1>4. ASSUME NEW p \in Passes, NEW i \in Issues, NEW s \in Sessions, Spawn(p, i, s)
      PROVE  Busy'
  BY <1>4 DEF Spawn
<1>5. ASSUME NEW p \in Passes, Mark(p) \/ Register(p) \/ Release(p) \/ Label(p) PROVE Busy'
  BY <1>5 DEF Mark, Register, Release, Label
<1>6. ASSUME NEW p \in Passes, NEW i \in Issues, Record(p, i) PROVE Busy'
  BY <1>6 DEF Record
<1>7. ASSUME NEW s \in Sessions, Work(s) \/ Deliver(s) \/ Exit(s) PROVE Busy'
  BY <1>7 DEF Work, Deliver, Exit
<1>8. ASSUME NEW i \in Issues, Reclaim(i) \/ Relabel(i) \/ Age(i) \/ Forget(i)
                                \/ ClearStaleClaim(i) \/ Operate(i)
      PROVE  Busy'
  BY <1>8
  DEF Reclaim, Relabel, Age, Forget, ClearStaleClaim, Operate, ClaimMarker, ClaimRecord, ClaimBusy
<1>9. CASE UNCHANGED vars  BY <1>9 DEF vars
<1> QED
  BY <1>1, <1>2, <1>3, <1>4, <1>5, <1>6, <1>7, <1>8, <1>9 DEF Next, PassStep, Gone

\* The entries, the labels, the files and what each pass holds of them keep their
\* types, for every number of issues, passes and workers, crashes included.
THEOREM Typing == Spec => []TypeOK
<1>1. Init => TypeOK /\ Busy  BY TypeInit DEF Init, Busy
<1>2. TypeOK /\ Busy /\ [Next]_vars => (TypeOK /\ Busy)'  BY TypeNext, BusyNext
<1> QED  BY <1>1, <1>2, PTL DEF Spec
-----------------------------------------------------------------------------
(* What the steps of a pass, and of everybody else, do to the locals of passes. *)

\* The steps of no pass.
WorldStep ==
    \/ \E s \in Sessions : Work(s) \/ Deliver(s) \/ Exit(s)
    \/ \E i \in Issues : \/ Reclaim(i) \/ Relabel(i) \/ Age(i) \/ Forget(i)
                         \/ ClearStaleClaim(i) \/ Operate(i)

LEMMA Steps ==
    ASSUME Next
    PROVE  WorldStep \/ (\E p \in Passes : PassStep(p)) \/ \E p \in Passes : Gone(p)
  BY DEF Next, WorldStep, Gone

LEMMA WorldFrame == ASSUME WorldStep PROVE UNCHANGED <<passVars, lockVars>>
  BY DEF WorldStep, Work, Deliver, Exit, Reclaim, Relabel, Age, Forget, ClearStaleClaim,
         Operate, ClaimMarker, ClaimRecord, ClaimBusy

Others(p) ==
    \A q \in Passes \ {p} :
        /\ pc'[q] = pc[q] /\ batch'[q] = batch[q] /\ todo'[q] = todo[q]
        /\ current'[q] = current[q] /\ result'[q] = result[q] /\ got'[q] = got[q]

\* A step of p changes no other pass's locals.
LEMMA PassFrame == ASSUME TypeOK, NEW p \in Passes, PassStep(p) PROVE Others(p)
<1> USE DEF Others, TypeOK, passVars, Goto
<1>1. CASE List(p) \/ Permit(p) \/ Scan(p) \/ Filter(p)
  BY <1>1 DEF List, Permit, Scan, Filter
<1>2. CASE Claim(p) \/ Gate(p)
  BY <1>2 DEF Claim, Gate
<1>3. CASE Defer(p) \/ Return(p)
  BY <1>3 DEF Defer, Return, Over
<1>4. ASSUME NEW i \in Issues, LaunchBlocked(p, i) \/ LaunchAverted(p, i)
                      \/ LaunchFailed(p, i) \/ ReapIdleWriter(p, i)
      PROVE  Others(p)
  BY <1>4 DEF LaunchBlocked, LaunchAverted, LaunchFailed, ReapIdleWriter, NoLaunch
<1>5. ASSUME NEW i \in Issues, NEW s \in Sessions, Spawn(p, i, s) PROVE Others(p)
  BY <1>5 DEF Spawn
<1>6. CASE Mark(p) \/ Register(p)  BY <1>6 DEF Mark, Register
<1>7. CASE Release(p) \/ Label(p)  BY <1>7 DEF Release, Label
<1>8. ASSUME NEW i \in Issues, Record(p, i) PROVE Others(p)
  BY <1>8 DEF Record
<1> QED
  BY <1>1, <1>2, <1>3, <1>4, <1>5, <1>6, <1>7, <1>8 DEF PassStep

\* A pass that dies or gives up drops its locals and its own locks, and touches
\* nothing else.
LEMMA GoneEffect ==
    ASSUME TypeOK, NEW p \in Passes, Gone(p)
    PROVE  /\ Others(p) /\ pc'[p] = "idle" /\ Owned(p)' = {}
           /\ UNCHANGED <<entryVars, diskVars, runs>>
           /\ lost \subseteq lost' /\ InHand(p) \subseteq lost'
           /\ \A q \in Passes \ {p} : fleetLock = q => fleetLock' = q
  BY DEF Gone, Crash, StateBusy, Leaves, InHand, Over, DropFleet, Others, Owned, TypeOK, Goto

\* Inside the window p holds the fleet lock, and it takes it from nobody.
KeepsLock(p) ==
    /\ pc'[p] \in InWindow => fleetLock' = p
    /\ \A q \in Passes \ {p} : fleetLock = q => fleetLock' = q

LEMMA LockKept == ASSUME TypeOK, Locked, Held, NEW p \in Passes, PassStep(p) PROVE KeepsLock(p)
<1> USE DispatchAssumption
    DEF KeepsLock, Held, InWindow, TypeOK, passVars, lockVars, Goto
<1>1. CASE List(p) \/ Permit(p) \/ Scan(p) \/ Filter(p) \/ Claim(p) \/ Gate(p)
  BY <1>1 DEF List, Permit, Scan, Filter, Claim, Gate
<1>2. CASE Defer(p) \/ Return(p)
  BY <1>2 DEF Defer, Return, Over
<1>3. ASSUME NEW i \in Issues, LaunchBlocked(p, i) \/ LaunchAverted(p, i)
                      \/ LaunchFailed(p, i) \/ ReapIdleWriter(p, i)
      PROVE  KeepsLock(p)
  BY <1>3 DEF LaunchBlocked, LaunchAverted, LaunchFailed, ReapIdleWriter, NoLaunch
<1>4. ASSUME NEW i \in Issues, NEW s \in Sessions, Spawn(p, i, s) PROVE KeepsLock(p)
  BY <1>4 DEF Spawn, Launching
<1>5. CASE Mark(p) \/ Register(p) \/ Release(p) \/ Label(p)
  BY <1>5 DEF Mark, Register, Release, Label, DropFleet
<1>6. ASSUME NEW i \in Issues, Record(p, i) PROVE KeepsLock(p)
  BY <1>6 DEF Record
<1> QED
  BY <1>1, <1>2, <1>3, <1>4, <1>5, <1>6 DEF PassStep

LEMMA HeldStep == ASSUME TypeOK, Locked, Held, [Next]_vars PROVE Held'
<1>1. ASSUME NEW p \in Passes, PassStep(p) PROVE Held'
  BY <1>1, PassFrame, LockKept DEF Held, Others, KeepsLock
<1>2. CASE WorldStep \/ UNCHANGED vars
  BY <1>2, WorldFrame DEF vars, Held, passVars, lockVars
<1>3. ASSUME NEW p \in Passes, Gone(p) PROVE Held'
  BY <1>3, GoneEffect DEF Held, Others, InWindow
<1> QED  BY <1>1, <1>2, <1>3, Steps

LEMMA LocalKept == ASSUME TypeOK, Local, NEW p \in Passes, PassStep(p) PROVE LocalAt(p)'
<1> USE DEF Local, LocalAt, Starting, TypeOK, passVars, Goto
<1>1. CASE List(p) \/ Permit(p) \/ Scan(p) \/ Filter(p)
  BY <1>1 DEF List, Permit, Scan, Filter
<1>2. CASE Claim(p)
  BY <1>2 DEF Claim
<1>3. CASE Gate(p)
  BY <1>3 DEF Gate
<1>4. CASE Defer(p) \/ Return(p)
  BY <1>4 DEF Defer, Return, Over
<1>5. ASSUME NEW i \in Issues, LaunchBlocked(p, i) \/ LaunchAverted(p, i) \/ LaunchFailed(p, i)
      PROVE  LocalAt(p)'
  <2>1. /\ pc'[p] = "launching" /\ batch' = batch /\ todo'[p] = todo[p] \ {i}
        /\ \A j \in Issues \ {i} : result'[p][j] = result[p][j]
    BY <1>5 DEF LaunchBlocked, LaunchAverted, LaunchFailed, NoLaunch, Launching
  <2> QED  BY <1>5, <2>1 DEF LaunchBlocked, LaunchAverted, LaunchFailed, Launching
<1>6. ASSUME NEW i \in Issues, ReapIdleWriter(p, i) PROVE LocalAt(p)'
  BY <1>6 DEF ReapIdleWriter
<1>7. ASSUME NEW i \in Issues, NEW s \in Sessions, Spawn(p, i, s) PROVE LocalAt(p)'
  BY <1>7 DEF Spawn, Launching
<1>8. CASE Mark(p)  BY <1>8 DEF Mark
<1>9. CASE Register(p)
  <2>1. current[p] \in Issues  BY <1>9 DEF Register
  <2>2. /\ pc'[p] = "launching" /\ batch' = batch /\ todo'[p] = todo[p] \ {current[p]}
        /\ \A j \in Issues \ {current[p]} : result'[p][j] = result[p][j]
    BY <1>9, <2>1 DEF Register
  <2> QED  BY <1>9, <2>2 DEF Register
<1>10. CASE Release(p) \/ Label(p)  BY <1>10 DEF Release, Label
<1>11. ASSUME NEW i \in Issues, Record(p, i) PROVE LocalAt(p)'
  BY <1>11 DEF Record
<1> QED
  BY <1>1, <1>2, <1>3, <1>4, <1>5, <1>6, <1>7, <1>8, <1>9, <1>10, <1>11 DEF PassStep

LEMMA LocalStep == ASSUME TypeOK, Local, [Next]_vars PROVE Local'
<1>1. ASSUME NEW p \in Passes, PassStep(p) PROVE Local'
  BY <1>1, PassFrame, LocalKept DEF Local, LocalAt, Others
<1>2. CASE WorldStep \/ UNCHANGED vars
  BY <1>2, WorldFrame DEF vars, Local, LocalAt, passVars
<1>3. ASSUME NEW p \in Passes, Gone(p) PROVE Local'
  BY <1>3, GoneEffect DEF Local, LocalAt, Others, Starting
<1> QED  BY <1>1, <1>2, <1>3, Steps

-----------------------------------------------------------------------------
(* Who holds an issue. *)

\* Only a claim makes a pass hold what it did not, only a filter makes it have
\* filtered what it had not.
KeepsIssues(p) ==
    /\ Owned(p)' \subseteq Owned(p)
    /\ pc'[p] = "filtered" => pc[p] = "filtered" /\ batch'[p] = batch[p]

LEMMA IssuesKept ==
    ASSUME TypeOK, Local, NEW p \in Passes, PassStep(p), ~Claim(p), ~Filter(p)
    PROVE  KeepsIssues(p)
<1> USE DEF KeepsIssues, Owned, TypeOK, passVars, Goto
<1>1. CASE List(p) \/ Permit(p) \/ Scan(p) \/ Gate(p)
  BY <1>1 DEF List, Permit, Scan, Gate
<1>2. CASE Defer(p) \/ Return(p)
  BY <1>2 DEF Defer, Return, Over
<1>3. ASSUME NEW i \in Issues, LaunchBlocked(p, i) \/ LaunchAverted(p, i)
                      \/ LaunchFailed(p, i) \/ ReapIdleWriter(p, i)
      PROVE  KeepsIssues(p)
  BY <1>3 DEF LaunchBlocked, LaunchAverted, LaunchFailed, ReapIdleWriter, NoLaunch, Launching
<1>4. ASSUME NEW i \in Issues, NEW s \in Sessions, Spawn(p, i, s) PROVE KeepsIssues(p)
  BY <1>4 DEF Spawn, Launching
<1>5. CASE Mark(p) \/ Register(p)  BY <1>5 DEF Mark, Register
<1>6. CASE Release(p) \/ Label(p)  BY <1>6 DEF Release, Label
<1>7. ASSUME NEW i \in Issues, Record(p, i) PROVE KeepsIssues(p)
  BY <1>7 DEF Record
<1> QED
  BY <1>1, <1>2, <1>3, <1>4, <1>5, <1>6, <1>7 DEF PassStep
\* What the claim does to what its pass holds.
LEMMA ClaimEffect ==
    ASSUME TypeOK, NEW p \in Passes, Claim(p)
    PROVE  /\ pc[p] = "filtered" /\ pc'[p] = "claimed"
           /\ Owned(p)' \subseteq batch[p]
           /\ \A i \in Owned(p)' : status'[i] = "dispatch_pending" /\ i \notin aged'
           /\ \A i \in Issues \ Owned(p)' : status'[i] = status[i]
           /\ aged' \subseteq aged
  BY DEF Claim, Selections, Owned, TypeOK, Goto

LEMMA FilterEffect ==
    ASSUME TypeOK, NEW p \in Passes, Filter(p)
    PROVE  /\ pc[p] = "scanned" /\ pc'[p] = "filtered" /\ Owned(p) = {} /\ Owned(p)' = {}
           /\ \A i \in batch'[p] : /\ ~MarkedAt(i) /\ status[i] # "escalated"
                                   /\ status[i] = "dispatched" => ~GhostAlive(i)
           /\ UNCHANGED <<entryVars, githubVars, diskVars, runs>>
  BY DEF Filter, Candidates, LiveDispatched, DispatchBlocked, MarkedAt, Owned, TypeOK, Goto

LEMMA OthersOwn ==
    ASSUME NEW p \in Passes, Others(p), NEW q \in Passes \ {p}
    PROVE  Owned(q)' = Owned(q)
  BY DEF Others, Owned

\* The lock keeps everybody else out of the window.
LEMMA AloneInWindow ==
    ASSUME Held, NEW p \in Passes, NEW q \in Passes, pc[p] \in InWindow, pc[q] \in InWindow
    PROVE  p = q
  BY DEF Held

LEMMA ApartStep ==
    ASSUME TypeOK, Held, Local, Marked, Apart, [Next]_vars
    PROVE  Apart'
<1>1. ASSUME NEW p \in Passes, PassStep(p) PROVE Apart'
  <2>1. Others(p) /\ \A q \in Passes \ {p} : Owned(q)' = Owned(q)
    BY <1>1, PassFrame, OthersOwn
  <2>2. CASE ~Claim(p) /\ ~Filter(p)
    <3>1. KeepsIssues(p)  BY <1>1, <2>2, IssuesKept
    <3> QED  BY <2>1, <3>1 DEF Apart, Others, KeepsIssues
  <2>3. CASE Filter(p)
    <3>1. /\ Owned(p)' = {} /\ \A i \in batch'[p] : ~MarkedAt(i)  BY <2>3, FilterEffect
    <3>2. \A q \in Passes \ {p} : batch'[p] \cap Owned(q)' = {}
      BY <2>1, <3>1 DEF Marked
    <3> QED  BY <2>1, <3>1, <3>2 DEF Apart, Others
  <2>4. CASE Claim(p)
    <3>1. pc[p] = "filtered" /\ pc'[p] = "claimed" /\ Owned(p)' \subseteq batch[p]
      BY <2>4, ClaimEffect
    <3>2. \A q \in Passes \ {p} : pc'[q] # "filtered"
      BY <2>1, <3>1, AloneInWindow DEF Others, InWindow
    <3> QED  BY <2>1, <3>1, <3>2 DEF Apart, Others
  <2> QED  BY <2>2, <2>3, <2>4
<1>2. CASE WorldStep \/ UNCHANGED vars
  <2>1. UNCHANGED passVars  BY <1>2, WorldFrame DEF vars, passVars
  <2> QED  BY <2>1 DEF Apart, Owned, passVars
<1>3. ASSUME NEW p \in Passes, Gone(p) PROVE Apart'
  <2>1. Others(p) /\ pc'[p] = "idle" /\ Owned(p)' = {}  BY <1>3, GoneEffect
  <2>2. \A q \in Passes \ {p} : Owned(q)' = Owned(q)  BY <2>1, OthersOwn
  <2> QED  BY <2>1, <2>2 DEF Apart, Others
<1> QED  BY <1>1, <1>2, <1>3, Steps

\* Between claim and record a pass leaves the entries alone.
LEMMA EntriesKept ==
    ASSUME NEW p \in Passes, PassStep(p), ~Claim(p), \A i \in Issues : ~Record(p, i)
    PROVE  UNCHANGED entryVars
<1> USE DEF entryVars, passVars
<1>1. CASE List(p) \/ Permit(p) \/ Defer(p) \/ Scan(p) \/ Filter(p) \/ Gate(p)
  BY <1>1 DEF List, Permit, Defer, Scan, Filter, Gate
<1>2. ASSUME NEW i \in Issues, LaunchBlocked(p, i) \/ LaunchAverted(p, i)
                      \/ LaunchFailed(p, i) \/ ReapIdleWriter(p, i)
      PROVE  UNCHANGED entryVars
  BY <1>2 DEF LaunchBlocked, LaunchAverted, LaunchFailed, ReapIdleWriter, NoLaunch
<1>3. ASSUME NEW i \in Issues, NEW s \in Sessions, Spawn(p, i, s) PROVE UNCHANGED entryVars
  BY <1>3 DEF Spawn
<1>4. CASE Mark(p) \/ Register(p) \/ Release(p) \/ Label(p) \/ Return(p)
  BY <1>4 DEF Mark, Register, Release, Label, Return
<1> QED  BY <1>1, <1>2, <1>3, <1>4 DEF PassStep

\* The record changes the entry of an issue its pass holds, and lets go of it.
LEMMA RecordEffect ==
    ASSUME TypeOK, NEW p \in Passes, NEW i \in Issues, Record(p, i)
    PROVE  /\ pc[p] = "record" /\ pc'[p] = "label"
           /\ i \in Owned(p) /\ Owned(p)' = Owned(p) \ {i}
           /\ \A j \in Issues \ {i} :
                 /\ status'[j] = status[j] /\ pid'[j] = pid[j] /\ (j \in aged' <=> j \in aged)
                 /\ failed'[j] = failed[j] /\ blocked'[j] = blocked[j]
           /\ aged' \subseteq aged
<1>1. \E st, s, f, b, r : Entry(i, st, s, f, b, r)
  <2>1. CASE RecordOk(p, i) \/ RecordLive(p, i)  BY <2>1, Zenon DEF RecordOk, RecordLive
  <2>2. CASE RecordPhantom(p, i)  BY <2>2, Zenon DEF RecordPhantom
  <2>3. CASE RecordBlocked(p, i)  BY <2>3, Zenon DEF RecordBlocked
  <2>4. CASE RecordFailed(p, i)  BY <2>4, Zenon DEF RecordFailed
  <2> QED  BY <2>1, <2>2, <2>3, <2>4 DEF Record
<1>2. /\ \A j \in Issues \ {i} :
            /\ status'[j] = status[j] /\ pid'[j] = pid[j] /\ (j \in aged' <=> j \in aged)
            /\ failed'[j] = failed[j] /\ blocked'[j] = blocked[j]
      /\ aged' \subseteq aged
  BY <1>1 DEF Entry, TypeOK
<1>3. /\ pc[p] = "record" /\ pc'[p] = "label" /\ i \in Owned(p) /\ Owned(p)' = Owned(p) \ {i}
  BY DEF Record, Owned, TypeOK, Goto
<1> QED  BY <1>2, <1>3
LEMMA MarkedStep ==
    ASSUME TypeOK, Local, Marked, Apart, [Next]_vars
    PROVE  Marked'
<1>1. ASSUME NEW p \in Passes, PassStep(p) PROVE Marked'
  <2>1. Others(p) /\ \A q \in Passes \ {p} : Owned(q)' = Owned(q)
    BY <1>1, PassFrame, OthersOwn
  <2>2. \A q \in Passes : Owned(q) \subseteq Issues  BY DEF Owned, TypeOK
  <2>3. CASE Claim(p)
    <3>1. /\ \A i \in Owned(p)' : MarkedAt(i)'
          /\ \A i \in Issues \ Owned(p)' : MarkedAt(i) => MarkedAt(i)'
      BY <2>3, ClaimEffect DEF MarkedAt
    <3> QED  BY <2>1, <2>2, <3>1 DEF Marked
  <2>4. ASSUME NEW i \in Issues, Record(p, i) PROVE Marked'
    <3>1. /\ i \in Owned(p) /\ Owned(p)' = Owned(p) \ {i}
          /\ \A j \in Issues \ {i} : MarkedAt(j) => MarkedAt(j)'
      BY <2>4, RecordEffect DEF MarkedAt
    <3> QED  BY <2>1, <2>2, <3>1 DEF Marked, Apart
  <2>5. CASE ~Claim(p) /\ \A i \in Issues : ~Record(p, i)
    <3>1. \A i \in Issues : MarkedAt(i) => MarkedAt(i)'
      BY <1>1, <2>5, EntriesKept DEF MarkedAt, entryVars
    <3>2. Owned(p)' \subseteq Owned(p)
      BY <1>1, <2>5, IssuesKept, FilterEffect DEF KeepsIssues
    <3> QED  BY <2>1, <2>2, <3>1, <3>2 DEF Marked
  <2> QED  BY <2>3, <2>4, <2>5
<1>2. CASE WorldStep \/ UNCHANGED vars
  <2>1. \A p \in Passes : Owned(p)' = Owned(p) /\ Owned(p) \subseteq Issues
    BY <1>2, WorldFrame DEF Owned, passVars, vars, TypeOK
  <2>2. ASSUME NEW i \in Issues, MarkedAt(i), NEW p \in Passes, i \in Owned(p)
        PROVE  MarkedAt(i)'
    <3> USE DEF MarkedAt, TypeOK, entryVars
    <3>1. CASE \E s \in Sessions : Work(s) \/ Deliver(s) \/ Exit(s)
      BY <2>2, <3>1 DEF Work, Deliver, Exit
    <3>2. CASE \E j \in Issues : Reclaim(j) \/ Relabel(j) \/ Forget(j) \/ Operate(j)
      BY <2>2, <3>2 DEF Reclaim, Relabel, Forget, Operate, ClaimMarker, ClaimRecord, ClaimBusy
    <3>3. CASE \E j \in Issues : Age(j) \/ ClearStaleClaim(j)
      BY <2>2, <3>3 DEF Age, ClearStaleClaim
    <3>4. CASE UNCHANGED vars  BY <2>2, <3>4 DEF vars
    <3> QED  BY <1>2, <3>1, <3>2, <3>3, <3>4 DEF WorldStep
  <2> QED  BY <2>1, <2>2 DEF Marked
<1>3. ASSUME NEW p \in Passes, Gone(p) PROVE Marked'
  <2>1. Others(p) /\ Owned(p)' = {} /\ UNCHANGED entryVars  BY <1>3, GoneEffect
  <2>2. \A q \in Passes \ {p} : Owned(q)' = Owned(q)  BY <2>1, OthersOwn
  <2>3. \A i : MarkedAt(i) => MarkedAt(i)'  BY <2>1 DEF MarkedAt, entryVars
  <2> QED  BY <2>1, <2>2, <2>3 DEF Marked
<1> QED  BY <1>1, <1>2, <1>3, Steps

-----------------------------------------------------------------------------
(* Retries. *)

CappedAt(i) == failed[i] > Cap \/ blocked[i] > Cap => status[i] = "escalated"

\* The record of an issue within its retries leaves it so, or with a human.
LEMMA RecordCaps ==
    ASSUME TypeOK, NEW p \in Passes, NEW i \in Issues, Record(p, i), WithinAt(i)
    PROVE  CappedAt(i)'
<1> USE DispatchAssumption
<1>1. failed[i] \in Nat /\ blocked[i] \in Nat /\ failed[i] <= Cap /\ blocked[i] <= Cap
  BY DEF TypeOK, WithinAt
<1>2. \A n \in Nat : n < Cap => OneMore(n) <= Cap /\ OneMore(n) \in Nat
  BY DEF OneMore
<1>3. ASSUME NEW st, NEW s, NEW f, NEW b, NEW r, Entry(i, st, s, f, b, r)
      PROVE  status'[i] = st /\ failed'[i] = f /\ blocked'[i] = b
  BY <1>3 DEF Entry, TypeOK
<1>4. ASSUME NEW st, NEW s, NEW f, NEW b, NEW r, Entry(i, st, s, f, b, r),
             \/ st = "escalated"
             \/ f \in Nat /\ b \in Nat /\ f <= Cap /\ b <= Cap
      PROVE  CappedAt(i)'
  BY <1>3, <1>4 DEF CappedAt
<1>5. CASE RecordOk(p, i) \/ RecordLive(p, i)
  BY <1>1, <1>4, <1>5 DEF RecordOk, RecordLive
<1>6. CASE RecordPhantom(p, i)  BY <1>1, <1>4, <1>6 DEF RecordPhantom
<1>7. CASE RecordBlocked(p, i)  BY <1>1, <1>2, <1>4, <1>7 DEF RecordBlocked
<1>8. CASE RecordFailed(p, i)  BY <1>1, <1>2, <1>4, <1>8 DEF RecordFailed
<1> QED  BY <1>5, <1>6, <1>7, <1>8 DEF Record
\* What moves entries besides a pass counts no failures.
LEMMA WorldCaps ==
    ASSUME TypeOK, WorldStep \/ UNCHANGED vars, NEW i \in Issues
    PROVE  (WithinAt(i) => WithinAt(i)') /\ (CappedAt(i) => CappedAt(i)')
<1> USE DispatchAssumption DEF WithinAt, CappedAt, TypeOK, entryVars
<1>1. CASE \E s \in Sessions : Work(s) \/ Deliver(s) \/ Exit(s)
  BY <1>1 DEF Work, Deliver, Exit
<1>2. CASE \E j \in Issues : Relabel(j) \/ Age(j) \/ Operate(j)
  BY <1>2 DEF Relabel, Age, Operate, ClaimMarker, ClaimRecord, ClaimBusy
<1>3. CASE \E j \in Issues : Reclaim(j)
  BY <1>3 DEF Reclaim
<1>4. CASE \E j \in Issues : Forget(j) \/ ClearStaleClaim(j)
  BY <1>4 DEF Forget, ClearStaleClaim
<1>5. CASE UNCHANGED vars  BY <1>5 DEF vars
<1> QED  BY <1>1, <1>2, <1>3, <1>4, <1>5 DEF WorldStep

LEMMA CapsStep ==
    ASSUME TypeOK, Held, Local, Apart, Within, RetriesCapped, [Next]_vars
    PROVE  Within' /\ RetriesCapped'
<1> USE DEF RetriesCapped
<1>0. \A i \in Issues : CappedAt(i)  BY DEF CappedAt
<1>1. ASSUME NEW p \in Passes, PassStep(p) PROVE Within' /\ RetriesCapped'
  <2>1. Others(p) /\ \A q \in Passes \ {p} : Owned(q)' = Owned(q)
    BY <1>1, PassFrame, OthersOwn
  <2>2. \A q \in Passes : Owned(q) \subseteq Issues /\ batch[q] \subseteq Issues
    BY DEF Owned, TypeOK
  <2>3. CASE Claim(p)
    <3>1. /\ pc[p] = "filtered" /\ pc'[p] = "claimed" /\ Owned(p)' \subseteq batch[p]
          /\ \A i \in Issues \ Owned(p)' : status'[i] = status[i]
      BY <2>3, ClaimEffect
    <3>2. \A i \in Issues : WithinAt(i)' <=> WithinAt(i)
      BY <2>3 DEF Claim, WithinAt
    <3>3. Within'  BY <2>1, <2>2, <3>1, <3>2 DEF Within, Others
    <3>4. \A i \in Issues : WithinAt(i) => CappedAt(i)'
      BY <2>3, DispatchAssumption DEF Claim, WithinAt, CappedAt, TypeOK
    <3>5. \A i \in Issues \ Owned(p)' : CappedAt(i)'
      BY <1>0, <2>3, <3>1 DEF Claim, CappedAt
    <3>6. \A i \in Issues : CappedAt(i)'
      BY <3>1, <3>4, <3>5 DEF Within
    <3> QED  BY <3>3, <3>6 DEF CappedAt
  <2>4. ASSUME NEW i \in Issues, Record(p, i) PROVE Within' /\ RetriesCapped'
    <3>1. /\ pc'[p] = "label" /\ i \in Owned(p) /\ Owned(p)' = Owned(p) \ {i}
          /\ \A j \in Issues \ {i} : /\ WithinAt(j) => WithinAt(j)'
                                     /\ CappedAt(j) => CappedAt(j)'
      BY <2>4, RecordEffect DEF WithinAt, CappedAt
    <3>2. CappedAt(i)'  BY <2>4, <3>1, RecordCaps DEF Within
    <3>3. Within'
      BY <2>1, <2>2, <3>1 DEF Within, Apart, Others
    <3>4. \A j \in Issues : CappedAt(j)'  BY <1>0, <3>1, <3>2
    <3> QED  BY <3>3, <3>4 DEF CappedAt
  <2>5. CASE ~Claim(p) /\ \A i \in Issues : ~Record(p, i)
    <3>1. \A i \in Issues : (WithinAt(i)' <=> WithinAt(i)) /\ (CappedAt(i)' <=> CappedAt(i))
      BY <1>1, <2>5, EntriesKept DEF WithinAt, CappedAt, entryVars
    <3>2. Within'
      <4>1. CASE Filter(p)
        <5>1. pc'[p] = "filtered" /\ Owned(p)' = {} /\ \A i \in batch'[p] : status[i] # "escalated"
          BY <4>1, FilterEffect
        <5>2. batch'[p] \subseteq Issues  BY <4>1 DEF Filter, Candidates, TypeOK
        <5>3. \A i \in Issues : status[i] # "escalated" => WithinAt(i)
          BY <1>0, DispatchAssumption DEF CappedAt, WithinAt, TypeOK
        <5> QED  BY <2>1, <2>2, <3>1, <5>1, <5>2, <5>3 DEF Within, Others
      <4>2. CASE ~Filter(p)
        <5>1. KeepsIssues(p)  BY <1>1, <2>5, <4>2, IssuesKept
        <5> QED  BY <2>1, <2>2, <3>1, <5>1 DEF Within, Others, KeepsIssues
      <4> QED  BY <4>1, <4>2
    <3> QED  BY <1>0, <3>1, <3>2 DEF CappedAt
  <2> QED  BY <2>3, <2>4, <2>5
<1>2. CASE WorldStep \/ UNCHANGED vars
  <2>1. \A p \in Passes : /\ Owned(p)' = Owned(p) /\ Owned(p) \subseteq Issues
                          /\ pc'[p] = pc[p] /\ batch'[p] = batch[p] /\ batch[p] \subseteq Issues
    BY <1>2, WorldFrame DEF Owned, passVars, vars, TypeOK
  <2>2. \A i \in Issues : (WithinAt(i) => WithinAt(i)') /\ (CappedAt(i) => CappedAt(i)')
    BY <1>2, WorldCaps
  <2>3. Within'  BY <2>1, <2>2 DEF Within
  <2>4. \A i \in Issues : CappedAt(i)'  BY <1>0, <2>2
  <2> QED  BY <2>3, <2>4 DEF CappedAt
<1>3. ASSUME NEW p \in Passes, Gone(p) PROVE Within' /\ RetriesCapped'
  <2>1. Others(p) /\ pc'[p] = "idle" /\ Owned(p)' = {} /\ UNCHANGED entryVars
    BY <1>3, GoneEffect
  <2>2. \A q \in Passes \ {p} : Owned(q)' = Owned(q)  BY <2>1, OthersOwn
  <2>3. \A i : (WithinAt(i)' <=> WithinAt(i)) /\ (CappedAt(i)' <=> CappedAt(i))
    BY <2>1 DEF WithinAt, CappedAt, entryVars
  <2>4. Within'  BY <2>1, <2>2, <2>3 DEF Within, Others
  <2>5. \A i \in Issues : CappedAt(i)'  BY <1>0, <2>3
  <2> QED  BY <2>4, <2>5 DEF CappedAt
<1> QED  BY <1>1, <1>2, <1>3, Steps

-----------------------------------------------------------------------------
(* What the lock and the entries keep for the passes, whoever dies or gives up. *)

ClaimsInv ==
    TypeOK /\ Busy /\ Held /\ Local /\ Marked /\ Apart /\ Within /\ RetriesCapped

LEMMA ClaimsInit == Init => ClaimsInv
<1> SUFFICES ASSUME Init PROVE ClaimsInv  OBVIOUS
<1>1. TypeOK /\ Busy  BY TypeInit DEF Init, Busy
<1>2. \A p \in Passes : pc[p] = "idle" /\ Owned(p) = {}  BY DEF Init, Owned
<1>3. Held /\ Local /\ Marked /\ Apart /\ Within
  BY <1>2 DEF Held, InWindow, Local, LocalAt, Starting, Marked, Apart, Within
<1>4. RetriesCapped  BY DispatchAssumption DEF Init, RetriesCapped
<1> QED  BY <1>1, <1>3, <1>4 DEF ClaimsInv

LEMMA ClaimsNext == ASSUME Locked, ClaimsInv, [Next]_vars PROVE ClaimsInv'
  BY TypeNext, BusyNext, HeldStep, LocalStep, MarkedStep, ApartStep, CapsStep DEF ClaimsInv

LEMMA ClaimsInvariance == Locked => (Spec => []ClaimsInv)
<1>1. ASSUME Locked PROVE ClaimsInv /\ [Next]_vars => ClaimsInv'  BY <1>1, ClaimsNext
<1> SUFFICES ASSUME Locked PROVE Spec => []ClaimsInv  OBVIOUS
<1>2. ClaimsInv /\ [Next]_vars => ClaimsInv'  BY <1>1
<1> QED  BY <1>2, ClaimsInit, PTL DEF Spec

\* What a pass claimed is its own until it has recorded it, and stays its own when
\* another pass dies, gives up, restarts or waits through the staleness window: the fleet
\* lock spans filter and claim, and the claim outlives the lock.
THEOREM SoleClaimantHolds == Locked => (Spec => []SoleClaimant)
<1> SUFFICES ASSUME Locked PROVE Spec => []SoleClaimant  OBVIOUS
<1>1. Spec => []ClaimsInv  BY ClaimsInvariance
<1>2. ClaimsInv => SoleClaimant  BY DEF ClaimsInv, Apart, SoleClaimant
<1> QED  BY <1>1, <1>2, PTL

\* However many passes, issues, crashes and lock timeouts: an issue whose launches or environment
\* blocks exceed max_auto_redispatch is escalated and no pass takes it back, not
\* even one that filtered it before another counted its last failure.
THEOREM RetriesCappedHolds == Locked => (Spec => []RetriesCapped)
<1> SUFFICES ASSUME Locked PROVE Spec => []RetriesCapped  OBVIOUS
<1>1. Spec => []ClaimsInv  BY ClaimsInvariance
<1>2. ClaimsInv => RetriesCapped  BY DEF ClaimsInv
<1> QED  BY <1>1, <1>2, PTL
-----------------------------------------------------------------------------
(* Where the workers are. *)

\* Nobody but a launch makes a worker; every other step lets workers be, lose or end.
RunsShrink ==
    \A s \in Sessions \ lost' : Alive(s)' => s \notin lost /\ Alive(s) /\ runs'[s] = runs[s]

LEMMA OnlySpawnStarts ==
    ASSUME TypeOK, NEW p \in Passes, PassStep(p),
           \A i \in Issues, s \in Sessions : ~Spawn(p, i, s)
    PROVE  RunsShrink
<1> USE DEF RunsShrink, Alive, TypeOK, passVars, otherVars
<1>1. CASE List(p) \/ Permit(p) \/ Defer(p) \/ Scan(p) \/ Filter(p) \/ Claim(p) \/ Gate(p)
  BY <1>1 DEF List, Permit, Defer, Scan, Filter, Claim, Gate
<1>2. ASSUME NEW i \in Issues, LaunchBlocked(p, i) \/ LaunchAverted(p, i)
                      \/ LaunchFailed(p, i) \/ ReapIdleWriter(p, i)
      PROVE  RunsShrink
  BY <1>2 DEF LaunchBlocked, LaunchAverted, LaunchFailed, ReapIdleWriter, NoLaunch
<1>3. CASE Mark(p) \/ Register(p) \/ Release(p) \/ Label(p) \/ Return(p)
  BY <1>3 DEF Mark, Register, Release, Label, Return
<1>4. ASSUME NEW i \in Issues, Record(p, i) PROVE RunsShrink
  BY <1>4 DEF Record, RecordOk, RecordLive, RecordPhantom, RecordBlocked, RecordFailed, Unlabelled
<1> QED  BY <1>1, <1>2, <1>3, <1>4 DEF PassStep

LEMMA WorldShrinks == ASSUME TypeOK, WorldStep \/ UNCHANGED vars PROVE RunsShrink
<1> USE DEF RunsShrink, Alive, TypeOK, otherVars
<1>1. CASE \E s \in Sessions : Work(s) \/ Deliver(s) \/ Exit(s)
  BY <1>1 DEF Work, Deliver, Exit
<1>2. CASE \E i \in Issues : \/ Reclaim(i) \/ Relabel(i) \/ Age(i) \/ Forget(i)
                            \/ ClearStaleClaim(i) \/ Operate(i)
  BY <1>2
  DEF Reclaim, Relabel, Age, Forget, ClearStaleClaim, Operate, ClaimMarker, ClaimRecord, ClaimBusy
<1> QED  BY <1>1, <1>2 DEF WorldStep, vars

\* A worker of an issue that p holds is one p has launched: before its sidecar is
\* written the issue is current, afterwards the result says so.
LEMMA WorkerOfHeld ==
    ASSUME TypeOK, Local, Marked, Apart, Placed,
           NEW p \in Passes, NEW s \in Sessions \ lost, Alive(s), runs[s] \in Owned(p)
    PROVE  Spawned(p, s) \/ Launched(p, s)
<1>1. ~Recorded(s) /\ ~Left(s)  BY DEF Marked, MarkedAt, Recorded, Left
<1>2. ASSUME NEW q \in Passes, Spawned(q, s) \/ Launched(q, s) PROVE runs[s] \in Owned(q)
  BY <1>2 DEF Spawned, Launched, Local, LocalAt, Owned, Starting
<1> QED  BY <1>1, <1>2 DEF Placed, PlacedAt, Apart

\* So an issue that p still has to launch has no worker but lost ones.
LEMMA NoWorkerYet ==
    ASSUME TypeOK, Local, Marked, Apart, Placed, NEW p \in Passes, pc[p] = "launching",
           NEW i \in todo[p], NEW s \in Sessions \ lost, Alive(s)
    PROVE  runs[s] # i
<1> SUFFICES ASSUME runs[s] = i PROVE FALSE  OBVIOUS
<1>1. i \in Owned(p) /\ result[p][i] = "none"
  BY DEF Local, LocalAt, Owned, Starting
<1>2. Spawned(p, s) \/ Launched(p, s)  BY <1>1, WorkerOfHeld
<1> QED  BY <1>1, <1>2 DEF Spawned, Launched

LEMMA QuietStep ==
    ASSUME TypeOK, Held, Local, Marked, Apart, Placed, Quiet, [Next]_vars
    PROVE  Quiet'
<1>1. ASSUME NEW p \in Passes, PassStep(p) PROVE Quiet'
  <2>1. Others(p)  BY <1>1, PassFrame
  <2>2. CASE Filter(p)
    <3>1. /\ pc'[p] = "filtered"
          /\ \A i \in batch'[p] : ~MarkedAt(i) /\ (status[i] = "dispatched" => ~GhostAlive(i))
          /\ UNCHANGED <<runs, lost>>
      BY <2>2, FilterEffect DEF Filter, otherVars
    <3>2. ASSUME NEW s \in Sessions \ lost, Alive(s), runs[s] \in batch'[p] PROVE FALSE
      <4>1. ~Recorded(s) /\ ~Left(s)  BY <3>1, <3>2 DEF Recorded, GhostAlive, Left
      <4>2. PICK q \in Passes : Spawned(q, s) \/ Launched(q, s)
        BY <3>2, <4>1 DEF Placed, PlacedAt
      <4>3. runs[s] \in Owned(q)
        BY <4>2 DEF Spawned, Launched, Local, LocalAt, Owned, Starting
      <4> QED  BY <3>1, <3>2, <4>3 DEF Marked
    <3> QED  BY <2>1, <3>1, <3>2 DEF Quiet, Others, Alive
  <2>3. ASSUME NEW i \in Issues, NEW s \in Sessions, Spawn(p, i, s) PROVE Quiet'
    <3>1. pc[p] = "launching" /\ pc'[p] = "spawned"
      BY <2>3 DEF Spawn, Launching, Goto, TypeOK
    <3>2. \A q \in Passes : pc'[q] # "filtered"
      BY <2>1, <3>1, AloneInWindow DEF Others, InWindow
    <3> QED  BY <3>2 DEF Quiet
  <2>4. CASE ~Filter(p) /\ \A i \in Issues, s \in Sessions : ~Spawn(p, i, s)
    <3>1. RunsShrink  BY <1>1, <2>4, OnlySpawnStarts
    <3>2. pc'[p] = "filtered" => pc[p] = "filtered" /\ batch'[p] = batch[p]
      BY <1>1, <2>4, IssuesKept, ClaimEffect DEF KeepsIssues
    <3> QED  BY <2>1, <3>1, <3>2 DEF Quiet, Others, RunsShrink
  <2> QED  BY <2>2, <2>3, <2>4
<1>2. CASE WorldStep \/ UNCHANGED vars
  BY <1>2, WorldFrame, WorldShrinks DEF Quiet, RunsShrink, passVars, vars
<1>3. ASSUME NEW p \in Passes, Gone(p) PROVE Quiet'
  BY <1>3, GoneEffect DEF Quiet, Others, Alive
<1> QED  BY <1>1, <1>2, <1>3, Steps

\* A worker keeps its place in a step of p that leaves its entry and its sidecar
\* alone, if it keeps the one it may have with p.
SameEntry(i) == status'[i] = status[i] /\ pid'[i] = pid[i] /\ sidecar'[i] = sidecar[i]

\* What was left stays left: no pass has filtered it, so none can claim it.
LEMMA LeftKept ==
    ASSUME TypeOK, Local, Quiet, NEW p \in Passes, PassStep(p), NEW s \in Sessions \ lost,
           Alive(s), Left(s), runs'[s] = runs[s], SameEntry(runs[s])
    PROVE  Left(s)'
<1>1. Others(p) /\ \A q \in Passes \ {p} : Owned(q)' = Owned(q)
  BY PassFrame, OthersOwn
<1>2. runs[s] \in Issues /\ \A q \in Passes : runs[s] \notin Owned(q)
  BY DEF Alive, TypeOK, Left
<1>3. CASE Claim(p)
  <2>1. runs[s] \notin Owned(p)' /\ aged' \subseteq aged
    BY <1>3, ClaimEffect DEF Quiet
  <2> QED  BY <1>1, <1>2, <2>1 DEF Left, MarkedAt, SameEntry
<1>4. ASSUME NEW i \in Issues, Record(p, i) PROVE Left(s)'
  <2>1. runs[s] \notin Owned(p)' /\ aged' \subseteq aged
    BY <1>2, <1>4, RecordEffect
  <2> QED  BY <1>1, <1>2, <2>1 DEF Left, MarkedAt, SameEntry
<1>5. CASE ~Claim(p) /\ \A i \in Issues : ~Record(p, i)
  <2>1. UNCHANGED aged  BY <1>5, EntriesKept DEF entryVars
  <2>2. Owned(p)' \subseteq Owned(p)
    BY <1>5, IssuesKept, FilterEffect DEF KeepsIssues
  <2> QED  BY <1>1, <1>2, <2>1, <2>2 DEF Left, MarkedAt, SameEntry
<1> QED  BY <1>3, <1>4, <1>5

LEMMA PlaceKept ==
    ASSUME TypeOK, Local, Quiet, NEW p \in Passes, PassStep(p), NEW s \in Sessions \ lost,
           Alive(s), PlacedAt(s), runs'[s] = runs[s], SameEntry(runs[s]),
           Spawned(p, s) => Spawned(p, s)' \/ Launched(p, s)',
           Launched(p, s) => Launched(p, s)' \/ Recorded(s)'
    PROVE  PlacedAt(s)'
<1>0. Others(p)  BY PassFrame
<1>1. (Recorded(s) => Recorded(s)') /\ (Left(s) => Left(s)')
  BY LeftKept DEF Recorded, SameEntry
<1>2. ASSUME NEW q \in Passes \ {p}
      PROVE  (Spawned(q, s) => Spawned(q, s)') /\ (Launched(q, s) => Launched(q, s)')
  <2>1. Owned(q)' = Owned(q)  BY <1>0, OthersOwn
  <2> QED  BY <1>0, <2>1 DEF Spawned, Launched, Others, SameEntry
<1> QED  BY <1>1, <1>2 DEF PlacedAt

LEMMA PlacedPassStep ==
    ASSUME TypeOK, Held, Local, Marked, Apart, Placed, Quiet,
           NEW p \in Passes, PassStep(p), NEW s \in Sessions \ lost', Alive(s)'
    PROVE  PlacedAt(s)'
<1>1. CASE ~\E i \in Issues, t \in Sessions : Spawn(p, i, t)
  <2>0. s \notin lost /\ Alive(s) /\ runs'[s] = runs[s] /\ runs[s] \in Issues /\ PlacedAt(s)
    BY <1>1, OnlySpawnStarts DEF RunsShrink, Alive, Placed, TypeOK
  <2> USE DEF entryVars, diskVars, passVars, Goto
  <2>1. CASE List(p) \/ Permit(p) \/ Scan(p) \/ Filter(p) \/ Gate(p)
    <3>1. ~Spawned(p, s) /\ ~Launched(p, s)
      BY <2>1 DEF List, Permit, Scan, Filter, Gate, Spawned, Launched, Starting
    <3>2. SameEntry(runs[s])
      BY <2>1 DEF List, Permit, Scan, Filter, Gate, SameEntry
    <3> QED  BY <2>0, <3>1, <3>2, PlaceKept
  <2>2. CASE Defer(p) \/ Return(p)
    <3>1. ~Spawned(p, s) /\ ~Launched(p, s)
      BY <2>2 DEF Defer, Return, Spawned, Launched, Starting, Owned
    <3>2. SameEntry(runs[s])
      BY <2>2 DEF Defer, Return, SameEntry
    <3> QED  BY <2>0, <3>1, <3>2, PlaceKept
  <2>3. CASE Claim(p)
    <3>1. pc[p] = "filtered" /\ Owned(p)' \subseteq batch[p]
      BY <2>3, ClaimEffect
    <3>2. ~Spawned(p, s) /\ ~Launched(p, s)
      BY <3>1 DEF Spawned, Launched, Starting
    <3>3. runs[s] \notin Owned(p)'  BY <2>0, <3>1 DEF Quiet
    <3>4. SameEntry(runs[s])
      BY <2>0, <2>3, <3>3, ClaimEffect DEF Claim, SameEntry
    <3> QED  BY <2>0, <3>2, <3>4, PlaceKept
  <2>4. ASSUME NEW i \in Issues, LaunchBlocked(p, i) \/ LaunchAverted(p, i) \/ LaunchFailed(p, i)
        PROVE  PlacedAt(s)'
    <3>1. /\ pc[p] = "launching" /\ i \in todo[p] /\ pc'[p] = "launching"
          /\ UNCHANGED <<status, pid, batch>>
      BY <2>4 DEF LaunchBlocked, LaunchAverted, LaunchFailed, Launching, NoLaunch
    <3>2. runs[s] # i  BY <2>0, <3>1, NoWorkerYet
    <3>3. /\ SameEntry(runs[s]) /\ result'[p][runs[s]] = result[p][runs[s]]
          /\ got'[p][runs[s]] = got[p][runs[s]]
      BY <2>0, <2>4, <3>1, <3>2
      DEF LaunchBlocked, LaunchAverted, LaunchFailed, NoLaunch, SameEntry, TypeOK
    <3>4. ~Spawned(p, s) /\ (Launched(p, s) => Launched(p, s)')
      BY <2>0, <3>1, <3>3 DEF Spawned, Launched, Owned, SameEntry
    <3> QED  BY <2>0, <3>3, <3>4, PlaceKept
  <2>5. ASSUME NEW i \in Issues, ReapIdleWriter(p, i) PROVE PlacedAt(s)'
    <3>1. SameEntry(runs[s]) /\ UNCHANGED passVars
      BY <2>5 DEF ReapIdleWriter, SameEntry
    <3>2. (Spawned(p, s) => Spawned(p, s)') /\ (Launched(p, s) => Launched(p, s)')
      BY <2>0, <3>1 DEF Spawned, Launched, Owned, SameEntry
    <3> QED  BY <2>0, <3>1, <3>2, PlaceKept
  <2>6. CASE Mark(p) \/ Label(p)
    <3>1. /\ SameEntry(runs[s]) /\ UNCHANGED <<batch, todo, result, got>>
          /\ Mark(p) => pc[p] = "spawned" /\ pc'[p] = "marked" /\ UNCHANGED current
          /\ Label(p) => pc[p] = "label" /\ pc'[p] = "record"
      BY <2>6 DEF Mark, Label, SameEntry, TypeOK
    <3>2. (Spawned(p, s) => Spawned(p, s)') /\ (Launched(p, s) => Launched(p, s)')
      BY <2>0, <2>6, <3>1 DEF Spawned, Launched, Owned, SameEntry, Starting
    <3> QED  BY <2>0, <3>1, <3>2, PlaceKept
  <2>7. CASE Register(p)
    <3>1. /\ pc[p] = "marked" /\ pc'[p] = "launching" /\ current[p] \in todo[p]
          /\ current[p] \in Issues /\ UNCHANGED <<status, pid, batch, got>>
      BY <2>7 DEF Register, Local, LocalAt, TypeOK
    <3>2. CASE runs[s] = current[p]
      <4>1. runs[s] \in Owned(p) /\ result[p][runs[s]] # "ok"
        BY <3>1, <3>2 DEF Local, LocalAt, Owned, Starting
      <4>2. Spawned(p, s)
        BY <2>0, <4>1, WorkerOfHeld DEF Launched
      <4>3. sidecar'[runs[s]] = s /\ result'[p][runs[s]] = "ok" /\ got'[p][runs[s]] = s
        BY <2>7, <3>1, <3>2, <4>2 DEF Register, Spawned, TypeOK
      <4>4. Launched(p, s)'
        BY <2>0, <3>1, <4>1, <4>3 DEF Launched, Owned, Starting
      <4> QED  BY <4>4 DEF PlacedAt
    <3>3. CASE runs[s] # current[p]
      <4>1. SameEntry(runs[s]) /\ result'[p][runs[s]] = result[p][runs[s]]
        BY <2>0, <2>7, <3>1, <3>3 DEF Register, SameEntry, TypeOK
      <4>2. ~Spawned(p, s) /\ (Launched(p, s) => Launched(p, s)')
        BY <2>0, <3>1, <3>3, <4>1 DEF Spawned, Launched, Owned, SameEntry, Starting
      <4> QED  BY <2>0, <4>1, <4>2, PlaceKept
    <3> QED  BY <3>2, <3>3
  <2>8. CASE Release(p)
    <3>1. /\ SameEntry(runs[s]) /\ pc[p] = "launching" /\ pc'[p] = "record"
          /\ todo'[p] = batch[p] /\ UNCHANGED <<batch, got>>
          /\ result[p][runs[s]] = "ok" => result'[p][runs[s]] = "ok"
      BY <2>0, <2>8 DEF Release, SameEntry, TypeOK
    <3>2. ~Spawned(p, s) /\ (Launched(p, s) => Launched(p, s)')
      BY <2>0, <3>1 DEF Spawned, Launched, Owned, SameEntry
    <3> QED  BY <2>0, <3>1, <3>2, PlaceKept
  <2>9. ASSUME NEW i \in Issues, Record(p, i) PROVE PlacedAt(s)'
    <3>1. /\ pc[p] = "record" /\ pc'[p] = "label" /\ i \in Owned(p) /\ Owned(p)' = Owned(p) \ {i}
          /\ \A j \in Issues \ {i} : status'[j] = status[j] /\ pid'[j] = pid[j]
          /\ UNCHANGED <<result, got>>
      BY <2>9, RecordEffect DEF Record
    <3>2. CASE runs[s] = i
      <4>1. Launched(p, s)  BY <2>0, <3>1, <3>2, WorkerOfHeld DEF Spawned
      <4>2. RecordOk(p, i)
        BY <2>9, <3>2, <4>1
        DEF Record, Launched, RecordLive, RecordPhantom, RecordBlocked, RecordFailed
      <4>3. status'[i] = "dispatched" /\ pid'[i] = got[p][i] /\ UNCHANGED sidecar
        BY <4>2 DEF RecordOk, Entry, Unlabelled, diskVars, TypeOK
      <4>4. Recorded(s)'  BY <2>0, <3>2, <4>1, <4>3 DEF Recorded, Launched
      <4> QED  BY <4>4 DEF PlacedAt
    <3>3. CASE runs[s] # i
      <4>1. sidecar'[runs[s]] = sidecar[runs[s]]
        BY <2>0, <2>9, <3>3
        DEF Record, RecordOk, RecordLive, RecordPhantom, RecordBlocked, RecordFailed,
            Unlabelled, TypeOK
      <4>2. SameEntry(runs[s])  BY <2>0, <3>1, <3>3, <4>1 DEF SameEntry
      <4>3. ~Spawned(p, s) /\ (Launched(p, s) => Launched(p, s)')
        BY <2>0, <3>1, <3>3, <4>1 DEF Spawned, Launched
      <4> QED  BY <2>0, <4>2, <4>3, PlaceKept
    <3> QED  BY <3>2, <3>3
  <2> QED
    BY <1>1, <2>1, <2>2, <2>3, <2>4, <2>5, <2>6, <2>7, <2>8, <2>9 DEF PassStep
<1>2. ASSUME NEW i \in Issues, NEW t \in Sessions, Spawn(p, i, t) PROVE PlacedAt(s)'
  <2>1. /\ pc[p] = "launching" /\ pc'[p] = "spawned" /\ i \in todo[p]
        /\ runs' = [runs EXCEPT ![t] = i] /\ current'[p] = i
        /\ got' = [got EXCEPT ![p][i] = t] /\ runs[t] = NoIssue
        /\ lost' = lost \ {t} /\ UNCHANGED <<status, pid, sidecar, batch, result>>
    BY <1>2 DEF Spawn, Launching, Fresh, Goto, TypeOK, entryVars
  <2>2. CASE s = t
    <3>1. Spawned(p, s)'  BY <2>1, <2>2 DEF Spawned, TypeOK
    <3> QED  BY <3>1 DEF PlacedAt
  <2>3. CASE s # t
    <3>1. s \notin lost /\ Alive(s) /\ runs'[s] = runs[s] /\ runs[s] \in Issues /\ PlacedAt(s)
      BY <2>1, <2>3 DEF Alive, Placed, TypeOK
    <3>2. runs[s] # i  BY <2>1, <3>1, NoWorkerYet
    <3>3. SameEntry(runs[s]) /\ got'[p][runs[s]] = got[p][runs[s]]
      BY <2>1, <3>1, <3>2 DEF SameEntry, TypeOK
    <3>4. ~Spawned(p, s) /\ (Launched(p, s) => Launched(p, s)')
      BY <2>1, <3>1, <3>3 DEF Spawned, Launched, Owned, SameEntry, Starting
    <3> QED  BY <3>1, <3>3, <3>4, PlaceKept
  <2> QED  BY <2>2, <2>3
<1> QED  BY <1>1, <1>2

LEMMA PlacedStep ==
    ASSUME TypeOK, Held, Local, Marked, Apart, Placed, Quiet, [Next]_vars
    PROVE  Placed'
<1>1. ASSUME NEW p \in Passes, PassStep(p) PROVE Placed'
  BY <1>1, PlacedPassStep DEF Placed
<1>2. CASE WorldStep \/ UNCHANGED vars
  <2> SUFFICES ASSUME NEW s \in Sessions \ lost', Alive(s)' PROVE PlacedAt(s)'
    BY DEF Placed
  <2>1. s \notin lost /\ Alive(s) /\ runs'[s] = runs[s] /\ runs[s] \in Issues /\ PlacedAt(s)
    BY <1>2, WorldShrinks DEF RunsShrink, Alive, Placed, TypeOK
  <2>2. UNCHANGED passVars  BY <1>2, WorldFrame DEF vars, passVars
  <2>3. sidecar[runs[s]] = s => sidecar'[runs[s]] = s
    <3>1. CASE \E i \in Issues : Reclaim(i)
      BY <2>1, <3>1 DEF Reclaim, SidecarLive, TypeOK
    <3>2. CASE ~\E i \in Issues : Reclaim(i)
      BY <1>2, <3>2
      DEF WorldStep, Work, Deliver, Exit, Relabel, Age, Forget, ClearStaleClaim, Operate,
          ClaimMarker, ClaimRecord, ClaimBusy, diskVars, vars
    <3> QED  BY <3>1, <3>2
  <2>4. Recorded(s) => Recorded(s)'
    <3> SUFFICES ASSUME Recorded(s) PROVE status'[runs[s]] = "dispatched" /\ pid'[runs[s]] = s
      BY <2>1, <2>3 DEF Recorded
    <3> USE DEF Recorded, entryVars, TypeOK
    <3>1. CASE \E i \in Issues : Reclaim(i) \/ Relabel(i) \/ Operate(i)
      BY <2>1, <3>1 DEF Reclaim, SidecarLive, Relabel, Operate, ClaimMarker, ClaimRecord, ClaimBusy
    <3>2. CASE \E i \in Issues : Age(i) \/ Forget(i) \/ ClearStaleClaim(i)
      BY <2>1, <3>2 DEF Age, Forget, ClearStaleClaim
    <3>3. CASE \E t \in Sessions : Work(t) \/ Deliver(t) \/ Exit(t)
      BY <3>3 DEF Work, Deliver, Exit
    <3>4. CASE UNCHANGED vars  BY <3>4 DEF vars
    <3> QED  BY <1>2, <3>1, <3>2, <3>3, <3>4 DEF WorldStep
  <2>5. \A p \in Passes : /\ Spawned(p, s) => Spawned(p, s)'
                          /\ Launched(p, s) => Launched(p, s)'
    BY <2>1, <2>2, <2>3 DEF Spawned, Launched, Owned, passVars
  <2>6. Left(s) => Left(s)'
    <3> SUFFICES ASSUME MarkedAt(runs[s]) PROVE MarkedAt(runs[s])'
      BY <2>1, <2>2, <2>3 DEF Left, Owned, passVars
    <3> USE DEF MarkedAt, entryVars, TypeOK
    <3>1. CASE \E i \in Issues : Reclaim(i) \/ Relabel(i) \/ Operate(i)
      BY <2>1, <3>1 DEF Reclaim, Relabel, Operate, ClaimMarker, ClaimRecord, ClaimBusy
    <3>2. CASE \E i \in Issues : Age(i)
      BY <2>1, <3>2 DEF Age
    <3>3. CASE \E i \in Issues : Forget(i) \/ ClearStaleClaim(i)
      BY <2>1, <3>3 DEF Forget, ClearStaleClaim
    <3>4. CASE \E t \in Sessions : Work(t) \/ Deliver(t) \/ Exit(t)
      BY <2>1, <3>4 DEF Work, Deliver, Exit
    <3>5. CASE UNCHANGED vars  BY <3>5 DEF vars
    <3> QED  BY <1>2, <3>1, <3>2, <3>3, <3>4, <3>5 DEF WorldStep
  <2> QED  BY <2>1, <2>4, <2>5, <2>6 DEF PlacedAt
<1>3. ASSUME NEW p \in Passes, Gone(p), NEW s \in Sessions \ lost', Alive(s)'
      PROVE  PlacedAt(s)'
  <2>1. /\ Others(p) /\ pc'[p] = "idle" /\ Owned(p)' = {} /\ UNCHANGED <<entryVars, diskVars, runs>>
        /\ \A q \in Passes \ {p} : Owned(q)' = Owned(q)
        /\ s \notin lost /\ s \notin InHand(p)
    BY <1>3, GoneEffect, OthersOwn
  <2>2. Alive(s) /\ PlacedAt(s)  BY <1>3, <2>1 DEF Alive, Placed
  <2>3. ~Spawned(p, s)  BY <2>1 DEF Spawned, InHand
  <2>4. Launched(p, s) => Left(s)'
    <3> SUFFICES ASSUME Launched(p, s) PROVE Left(s)'  OBVIOUS
    <3>1. runs[s] \in Owned(p) /\ sidecar[runs[s]] = s  BY DEF Launched
    <3>2. MarkedAt(runs[s])'  BY <2>1, <3>1 DEF Marked, MarkedAt, entryVars
    <3> QED  BY <2>1, <3>1, <3>2 DEF Left, Apart, diskVars
  <2>5. (Recorded(s) => Recorded(s)') /\ (Left(s) => Left(s)')
    BY <2>1 DEF Recorded, Left, MarkedAt, entryVars, diskVars
  <2>6. \A q \in Passes \ {p} : /\ Spawned(q, s) => Spawned(q, s)'
                                /\ Launched(q, s) => Launched(q, s)'
    BY <2>1 DEF Spawned, Launched, Others, diskVars
  <2> QED  BY <2>2, <2>3, <2>4, <2>5, <2>6 DEF PlacedAt
<1>4. ASSUME NEW p \in Passes, Gone(p) PROVE Placed'
  BY <1>3, <1>4 DEF Placed
<1> QED  BY <1>1, <1>2, <1>4, Steps
-----------------------------------------------------------------------------
(* The theorems. *)

IInv == ClaimsInv /\ Placed /\ Quiet

LEMMA InvInit == Init => IInv
<1> SUFFICES ASSUME Init PROVE IInv  OBVIOUS
<1>1. \A p \in Passes : pc[p] = "idle"  BY DEF Init
<1>2. \A s \in Sessions : ~Alive(s)  BY DEF Init, Alive
<1>3. Placed /\ Quiet  BY <1>1, <1>2 DEF Placed, Quiet
<1> QED  BY <1>3, ClaimsInit DEF IInv

LEMMA InvNext == ASSUME Locked, IInv, [Next]_vars PROVE IInv'
  BY ClaimsNext, PlacedStep, QuietStep DEF IInv, ClaimsInv

LEMMA Invariance == Locked => (Spec => []IInv)
<1>1. ASSUME Locked PROVE IInv /\ [Next]_vars => IInv'  BY <1>1, InvNext
<1> SUFFICES ASSUME Locked PROVE Spec => []IInv  OBVIOUS
<1>2. IInv /\ [Next]_vars => IInv'  BY <1>1
<1> QED  BY <1>2, InvInit, PTL DEF Spec

\* At most one worker process runs for an issue, lost ones apart: the fleet lock
\* spans filter, claim and launch, what it does not span the entry says, and a
\* pass that dies or gives up leaves a claim that keeps others out while fresh.
THEOREM OneWorkerHolds == Locked => (Spec => []OneWorker)
<1>1. ASSUME IInv PROVE OneWorker
  <2> SUFFICES ASSUME NEW s \in Sessions \ lost, NEW t \in Sessions \ lost,
                      Alive(s), Alive(t), runs[s] = runs[t]
               PROVE  s = t
    BY DEF OneWorker
  <2> USE <1>1 DEF IInv, ClaimsInv
  <2>1. PlacedAt(s) /\ PlacedAt(t)  BY DEF Placed
  <2>2. ASSUME NEW p \in Passes, runs[s] \in Owned(p) PROVE s = t
    <3>1. (Spawned(p, s) \/ Launched(p, s)) /\ (Spawned(p, t) \/ Launched(p, t))
      BY <2>2, WorkerOfHeld
    <3> QED  BY <3>1 DEF Spawned, Launched
  <2>3. \A p \in Passes : /\ Spawned(p, s) \/ Launched(p, s) => runs[s] \in Owned(p)
                          /\ Spawned(p, t) \/ Launched(p, t) => runs[t] \in Owned(p)
    BY DEF Spawned, Launched, Local, LocalAt, Owned, Starting
  <2>4. (Recorded(s) \/ Left(s)) /\ (Recorded(t) \/ Left(t)) => s = t
    BY DEF Recorded, Left
  <2> QED  BY <2>1, <2>2, <2>3, <2>4 DEF PlacedAt
<1> SUFFICES ASSUME Locked PROVE Spec => []OneWorker  OBVIOUS
<1>2. Spec => []IInv  BY Invariance
<1> QED  BY <1>1, <1>2, PTL

\* A running worker that is not lost can be found by its sidecar, by the pid on
\* record, or it is in the hands of the pass that launched it: no reclaim, record
\* or failed launch takes away the only trace of a live one, and neither does a
\* pass that dies or gives up after the sidecar is written.
THEOREM NoStrayWorkerHolds == Locked => (Spec => []NoStrayWorker)
<1>1. ASSUME IInv PROVE NoStrayWorker
  <2> SUFFICES ASSUME NEW s \in Sessions \ lost, Alive(s)
               PROVE  \/ \E i \in Issues : s \in {sidecar[i], pid[i]}
                      \/ \E p \in Passes : s \in InHand(p)
    BY DEF NoStrayWorker
  <2>1. runs[s] \in Issues /\ PlacedAt(s)
    BY <1>1 DEF IInv, ClaimsInv, Placed, TypeOK, Alive
  <2> QED  BY <2>1 DEF PlacedAt, Recorded, Left, Spawned, Launched, InHand
<1> SUFFICES ASSUME Locked PROVE Spec => []NoStrayWorker  OBVIOUS
<1>2. Spec => []IInv  BY Invariance
<1> QED  BY <1>1, <1>2, PTL

\* create_worktree resets no tree under the worker writing it, although it takes a
\* marker of ours for harmless: the issue it launches for has no worker but lost
\* ones, and those the tree's own guard keeps while the marker names a live one.
THEOREM LiveWorkKeptHolds == Locked => (Spec => LiveWorkKept)
<1> DEFINE WorkKeptNow ==
      \A s \in Sessions :
         /\ Alive(s) /\ tree[runs[s]] = "work"
         /\ s \notin lost \/ Alive(marker[runs[s]])
         => tree'[runs[s]] = "work"
<1>1. ASSUME Locked, IInv, [Next]_vars
      PROVE  [WorkKeptNow]_vars
  <2> SUFFICES ASSUME NEW s \in Sessions, Alive(s), tree[runs[s]] = "work",
                      s \notin lost \/ Alive(marker[runs[s]])
               PROVE  tree'[runs[s]] = "work"
    OBVIOUS
  <2> USE <1>1 DEF IInv, ClaimsInv
  <2>1. runs[s] \in Issues /\ tree \in [Issues -> {"absent", "pristine", "work"}]
    BY DEF TypeOK, Alive
  <2>2. ASSUME NEW p \in Passes, PassStep(p) PROVE tree'[runs[s]] = "work"
    <3>1. ASSUME NEW i \in Issues, NEW t \in Sessions, Spawn(p, i, t)
          PROVE  tree'[runs[s]] = "work"
      <4>1. pc[p] = "launching" /\ i \in todo[p]  BY <3>1 DEF Spawn, Launching
      <4>2. CASE s \notin lost
        <5>1. runs[s] # i  BY <4>1, <4>2, NoWorkerYet
        <5> QED  BY <2>1, <3>1, <5>1 DEF Spawn
      <4>3. CASE Alive(marker[runs[s]])
        BY <2>1, <3>1, <4>3 DEF Spawn, BusyTree
      <4> QED  BY <4>2, <4>3
    <3>2. CASE ~\E i \in Issues, t \in Sessions : Spawn(p, i, t)
      <4> USE DEF diskVars, passVars
      <4>1. CASE \/ List(p) \/ Permit(p) \/ Defer(p) \/ Scan(p) \/ Filter(p) \/ Claim(p)
                 \/ Gate(p)
        BY <4>1 DEF List, Permit, Defer, Scan, Filter, Claim, Gate
      <4>2. CASE \E i \in Issues : \/ LaunchBlocked(p, i) \/ ReapIdleWriter(p, i)
                                   \/ LaunchAverted(p, i) \/ LaunchFailed(p, i)
        BY <4>2 DEF LaunchBlocked, ReapIdleWriter, LaunchAverted, LaunchFailed, NoLaunch
      <4>3. CASE \E i \in Issues : Record(p, i)
        BY <4>3
        DEF Record, RecordOk, RecordLive, RecordPhantom, RecordBlocked, RecordFailed,
            Unlabelled
      <4>4. CASE Mark(p) \/ Register(p) \/ Release(p) \/ Label(p) \/ Return(p)
        BY <4>4 DEF Mark, Register, Release, Label, Return
      <4> QED  BY <2>2, <3>2, <4>1, <4>2, <4>3, <4>4 DEF PassStep
    <3> QED  BY <3>1, <3>2
  <2>3. CASE WorldStep \/ UNCHANGED vars
    <3>1. CASE \E t \in Sessions : Work(t)  BY <2>1, <3>1 DEF Work
    <3>2. CASE ~\E t \in Sessions : Work(t)
      BY <2>3, <3>2
      DEF WorldStep, Deliver, Exit, Reclaim, Relabel, Age, Forget, ClearStaleClaim,
          Operate, ClaimMarker, ClaimRecord, ClaimBusy, diskVars, vars
    <3> QED  BY <3>1, <3>2
  <2>4. ASSUME NEW p \in Passes, Gone(p) PROVE tree'[runs[s]] = "work"
    BY <2>4, GoneEffect DEF diskVars
  <2> QED  BY <2>2, <2>3, <2>4, <1>1, Steps
<1> SUFFICES ASSUME Locked PROVE Spec => LiveWorkKept  OBVIOUS
<1>2. Spec => []IInv  BY Invariance
<1>3. IInv /\ [Next]_vars => [WorkKeptNow]_vars  BY <1>1
<1> QED  BY <1>2, <1>3, PTL DEF Spec, LiveWorkKept
=============================================================================
