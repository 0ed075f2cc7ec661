------------------------- MODULE StrandedWorkProofs -------------------------
(***************************************************************************)
(* What holds of StrandedWork for every limit and every bound.             *)
(***************************************************************************)
EXTENDS StrandedWork, TLAPS

-----------------------------------------------------------------------------
(* Commits. *)

GitTypes == [local : SUBSET Commits, origin : SUBSET Commits,
             rescued : SUBSET Commits, made : SUBSET Commits]

\* What may happen to the branch: a commit, a push that is a fast-forward, or a
\* checkout that keeps what origin does not have.
GitStep ==
    \/ git' = git
    \/ \E c \in Commits :
          git' = [git EXCEPT !.local = @ \cup {c}, !.made = @ \cup {c}]
    \/ git.origin \subseteq git.local /\ git' = [git EXCEPT !.origin = git.local]
    \/ \E L \in {{}, git.origin} :
          git' = [git EXCEPT !.local = L,
                    !.rescued = IF git.local \subseteq git.origin THEN @ ELSE @ \cup git.local]

LEMMA GitSteps ==
  ASSUME git \in GitTypes, Next  PROVE GitStep
<1> USE DEF GitStep
<1>1. CASE Worker  BY <1>1 DEF Worker, Commit, Publish, OpenPr, Die
<1>2. ASSUME NEW p \in Procs, Dispatch(p)  PROVE GitStep
  <2>1. CASE Claim(p) \/ ClaimSlot(p) \/ Note(p) \/ Record(p)
    BY <2>1 DEF Claim, ClaimSlot, Note, Record
  <2>2. CASE RetryPush(p)  BY <2>2 DEF RetryPush, SalvagePush, Stranded, Landing
  <2>3. CASE Place(p)
    <3>1. CASE Attach(p)  BY <3>1 DEF Attach, GitTypes
    <3>2. CASE Reset(p)  BY <3>2 DEF Reset, Unsafe
    <3>3. CASE Fails(p)  BY <3>3 DEF Fails
    <3> QED  BY <2>3, <3>1, <3>2, <3>3 DEF Place
  <2> QED  BY <1>2, <2>1, <2>2, <2>3 DEF Dispatch
<1>3. CASE Pass
  <2>1. CASE Dispatch("pass")  BY <1>2, <2>1 DEF Procs
  <2>2. CASE LanePush \/ SweepPush
    BY <2>2 DEF LanePush, SweepPush, SalvagePush, Stranded, Landing
  <2>3. CASE StartPass \/ Lane \/ Count \/ Relabel \/ Create \/ Precheck \/ ReconcileDue
             \/ ReconcileNotDue \/ Snapshot \/ Triage \/ Probe \/ Lock
    BY <2>3 DEF StartPass, Lane, Count, Relabel, Create, Precheck, ReconcileDue,
                ReconcileNotDue, Snapshot, Triage, Probe, Lock
  <2> QED  BY <1>3, <2>1, <2>2, <2>3 DEF Pass
<1>4. CASE StartOperator \/ \E p \in Procs : Crash(p)  BY <1>4 DEF StartOperator, Crash
<1> QED  BY <1>1, <1>2, <1>3, <1>4 DEF Next, Procs

LEMMA GitKept ==
  ASSUME git \in GitTypes, WorkKept, GitStep
  PROVE  git' \in GitTypes /\ WorkKept'
  BY DEF GitStep, GitTypes, WorkKept

-----------------------------------------------------------------------------
(* Type correctness. *)

SpentTypes == [fault : 0 .. MaxFaults, crash : 0 .. MaxCrashes, command : 0 .. MaxCommands]

LEMMA TypeInit == Init => TypeOK
<1> SUFFICES ASSUME Init PROVE TypeOK  OBVIOUS
<1> USE StrandedAssumption DEF Init
<1>1. entry \in Entry  BY DEF Entry, NoHead
<1>2. sweep \in Sweep  BY DEF Sweep, NoSweep, Outcomes, NoHead
<1>3. job \in [Procs -> Job]  BY DEF Job, NoJob, Outcomes
<1>4. spent \in SpentTypes  BY DEF SpentTypes
<1>5. pr \in BOOLEAN  BY Zenon
<1>6. git \in GitTypes /\ at \in [Procs -> Places]  BY DEF GitTypes, Places
<1>7. worker \in [alive : BOOLEAN, sidecar : BOOLEAN]  OBVIOUS
<1> QED  BY <1>1, <1>2, <1>3, <1>4, <1>5, <1>6, <1>7 DEF TypeOK, GitTypes, SpentTypes

LEMMA HeadFacts == /\ git \in GitTypes => <<git.origin, git.local>> \in Heads \cup {NoHead}
                   /\ git \in GitTypes => <<{Unknown}, git.local>> \in Heads \cup {NoHead}
  BY DEF Heads, GitTypes

Statuses == {"dispatched", "pending", "failed", "escalated", "passive"}
Newests == {"none", "landed", "timeout", "other"}

LEMMA EntryFacts ==
  ASSUME TypeOK
  PROVE  /\ entry.status \in Statuses /\ entry.newest \in Newests /\ 0 \in Nat
         /\ entry.redispatches + 1 \in Nat /\ entry.failures + 1 \in Nat
         /\ entry.tries + 1 \in Nat /\ Deaths \in Nat
         /\ sweep.event \in Outcomes /\ sweep.head \in Heads \cup {NoHead}
         /\ \A out \in Outcomes : Newest(out) \in Newests
<1>1. /\ entry.status \in Statuses /\ entry.newest \in Newests /\ 0 \in Nat
      /\ entry.redispatches + 1 \in Nat /\ entry.failures + 1 \in Nat
      /\ entry.tries + 1 \in Nat /\ entry.deaths \in Nat
  BY DEF TypeOK, Entry, Statuses, Newests
<1>2. sweep.event \in Outcomes /\ sweep.head \in Heads \cup {NoHead}
  BY DEF TypeOK, Sweep
<1>3. \A out \in Outcomes : Newest(out) \in Newests
  BY <1>1 DEF Newest, Outcomes, Newests
<1> QED  BY <1>1, <1>2, <1>3 DEF Deaths

\* The updates the steps make of a sweep's, a job's and an entry's record.
LEMMA SweepUpdates ==
  ASSUME NEW s \in Sweep
  PROVE  /\ [s EXCEPT !.lost = TRUE] \in Sweep
         /\ [s EXCEPT !.attempt = 0, !.lost = FALSE] \in Sweep
         /\ [s EXCEPT !.listed = "unread", !.label = "unread"] \in Sweep
         /\ [s EXCEPT !.listed = "none", !.label = "unread"] \in Sweep
         /\ [s EXCEPT !.attempt = 0, !.lost = FALSE, !.listed = "open",
                      !.label = "unread"] \in Sweep
<1> USE DEF Sweep
<1>1. [s EXCEPT !.lost = TRUE] \in Sweep  OBVIOUS
<1>2. [s EXCEPT !.attempt = 0, !.lost = FALSE] \in Sweep  OBVIOUS
<1>3. [s EXCEPT !.listed = "unread", !.label = "unread"] \in Sweep  OBVIOUS
<1>4. [s EXCEPT !.listed = "none", !.label = "unread"] \in Sweep  OBVIOUS
<1>5. [s EXCEPT !.attempt = 0, !.lost = FALSE, !.listed = "open",
                !.label = "unread"] \in Sweep
  OBVIOUS
<1> HIDE DEF Sweep
<1> QED  BY <1>1, <1>2, <1>3, <1>4, <1>5

LEMMA SweepReadings ==
  ASSUME NEW s \in Sweep, NEW l \in {"open", "none"},
         NEW m \in {"active", "ready", "pr_open"}, NEW b \in BOOLEAN,
         NEW h \in Heads \cup {NoHead}
  PROVE  /\ [s EXCEPT !.listed = l, !.label = m, !.returned = b] \in Sweep
         /\ [s EXCEPT !.listed = l, !.label = m] \in Sweep
         /\ [s EXCEPT !.head = h, !.candidate = b] \in Sweep
         /\ [s EXCEPT !.head = h] \in Sweep
<1> USE DEF Sweep
<1>1. [s EXCEPT !.listed = l, !.label = m, !.returned = b] \in Sweep  OBVIOUS
<1>2. [s EXCEPT !.listed = l, !.label = m] \in Sweep  OBVIOUS
<1>3. [s EXCEPT !.head = h, !.candidate = b] \in Sweep  OBVIOUS
<1>4. [s EXCEPT !.head = h] \in Sweep  OBVIOUS
<1> HIDE DEF Sweep
<1> QED  BY <1>1, <1>2, <1>3, <1>4

LEMMA JobUpdates ==
  ASSUME NEW j \in [Procs -> Job], NEW p \in Procs, NEW b \in BOOLEAN,
         NEW x \in {"none", "ok", "failed", "unsafe"}
  PROVE  [j EXCEPT ![p].rework = b, ![p].result = x] \in [Procs -> Job]
<1>1. [j[p] EXCEPT !.rework = b, !.result = x] \in Job  BY DEF Job
<1>2. [j EXCEPT ![p].rework = b, ![p].result = x]
        = [j EXCEPT ![p] = [j[p] EXCEPT !.rework = b, !.result = x]]
  OBVIOUS
<1> QED  BY <1>1, <1>2

LEMMA EntryUpdates ==
  ASSUME NEW e \in Entry, NEW n \in Newests, NEW k \in Nat, NEW b \in BOOLEAN,
         NEW h \in Heads \cup {NoHead}
  PROVE  /\ [e EXCEPT !.newest = n] \in Entry
         /\ [e EXCEPT !.newest = n, !.tries = k] \in Entry
         /\ [e EXCEPT !.newest = n, !.status = "escalated", !.armed = FALSE] \in Entry
         /\ [e EXCEPT !.newest = n, !.status = "escalated", !.head = h, !.deaths = k,
                      !.counted = FALSE, !.armed = FALSE] \in Entry
         /\ [e EXCEPT !.newest = n, !.head = h, !.deaths = k, !.counted = TRUE,
                      !.armed = b] \in Entry
<1> USE DEF Entry, Newests
<1>1. [e EXCEPT !.newest = n] \in Entry  OBVIOUS
<1>2. [e EXCEPT !.newest = n, !.tries = k] \in Entry  OBVIOUS
<1>3. [e EXCEPT !.newest = n, !.status = "escalated", !.armed = FALSE] \in Entry
  OBVIOUS
<1>4. [e EXCEPT !.newest = n, !.status = "escalated", !.head = h, !.deaths = k,
                !.counted = FALSE, !.armed = FALSE] \in Entry
  OBVIOUS
<1>5. [e EXCEPT !.newest = n, !.head = h, !.deaths = k, !.counted = TRUE,
                !.armed = b] \in Entry
  OBVIOUS
<1> HIDE DEF Entry, Newests
<1> QED  BY <1>1, <1>2, <1>3, <1>4, <1>5

\* A further attempt, or none.
LEMMA NextAttemptTypes ==
  ASSUME TypeOK, NEW s \in Sweep, NextAttempt(s)
  PROVE  sweep' \in Sweep /\ entry' \in Entry
<1>1. s.attempt + 1 \in Nat  BY DEF Sweep
<1>2. [s EXCEPT !.attempt = @ + 1] \in Sweep  BY <1>1 DEF Sweep, Outcomes
<1>3. [s EXCEPT !.attempt = 0, !.lost = FALSE] \in Sweep  BY DEF Sweep, Outcomes
<1>4. \A n \in Newests : [entry EXCEPT !.armed = TRUE, !.newest = n] \in Entry
  BY DEF TypeOK, Entry, Newests
<1>5. entry \in Entry  BY DEF TypeOK
<1> QED  BY <1>2, <1>3, <1>4, <1>5, EntryFacts DEF NextAttempt, GaveUp

LEMMA OpenedTypes == ASSUME TypeOK, Opened  PROVE entry' \in Entry
<1>1. \A n \in Newests : [entry EXCEPT !.status = "passive", !.newest = n] \in Entry
  BY DEF TypeOK, Entry, Newests
<1>2. entry \in Entry  BY DEF TypeOK
<1> QED  BY <1>1, <1>2, EntryFacts DEF Opened

\* A process never leaves its places.
LEMMA AtTypes == ASSUME TypeOK, Next  PROVE at' \in [Procs -> Places]
<1> USE DEF TypeOK, Goto, Places, Procs
<1>1. CASE Worker  BY <1>1 DEF Worker, Commit, Publish, OpenPr, Die
<1>2. ASSUME NEW p \in Procs, Dispatch(p)  PROVE at' \in [Procs -> Places]
  BY <1>2 DEF Dispatch, Claim, ClaimSlot, RetryPush, Note, Place, Record
<1>3. CASE Pass
  <2>1. CASE Dispatch("pass")  BY <1>2, <2>1
  <2>2. CASE StartPass \/ Lane \/ LanePush \/ Count \/ Relabel \/ ReconcileDue
             \/ ReconcileNotDue
    BY <2>2 DEF StartPass, Lane, LanePush, Count, Relabel, ReconcileDue, ReconcileNotDue
  <2>3. CASE Create \/ Precheck
    BY <2>3 DEF Create, Precheck, Opened, NextAttempt, GaveUp
  <2>4. CASE Snapshot \/ Triage \/ SweepPush \/ Probe
    BY <2>4 DEF Snapshot, Triage, SweepPush, Probe
  <2>5. CASE Lock  BY <2>5 DEF Lock, LockSkip, LockReap, LockOpen, LockCap, LockWithPr
  <2> QED  BY <1>3, <2>1, <2>2, <2>3, <2>4, <2>5 DEF Pass
<1>4. CASE StartOperator \/ \E p \in Procs : Crash(p)  BY <1>4 DEF StartOperator, Crash
<1> QED  BY <1>1, <1>2, <1>3, <1>4 DEF Next

\* What the sweep remembers is well formed after each of its steps.
LEMMA SweepTypes == ASSUME TypeOK, Next  PROVE sweep' \in Sweep
<1> USE DEF TypeOK, Sweep, Outcomes
<1>0. NoSweep \in Sweep  BY DEF NoSweep, NoHead
<1>1. CASE Worker  BY <1>1 DEF Worker, Commit, Publish, OpenPr, Die
<1>2. ASSUME NEW p \in Procs, Dispatch(p)  PROVE sweep' \in Sweep
  BY <1>0, <1>2 DEF Dispatch, Claim, ClaimSlot, RetryPush, Note, Place, Record
<1>3. CASE Pass
  <2>1. CASE Dispatch("pass")  BY <1>2, <2>1 DEF Procs
  <2>2. CASE StartPass \/ LanePush \/ Count \/ Relabel \/ ReconcileDue \/ ReconcileNotDue
             \/ Snapshot
    BY <2>2 DEF StartPass, LanePush, Count, Relabel, ReconcileDue, ReconcileNotDue, Snapshot
  <2>3. CASE Lane  BY <2>3 DEF Lane, Listed
  <2>4. CASE Create
    <3>0. sweep \in Sweep  OBVIOUS
    <3> HIDE DEF Sweep, TypeOK
    <3>1. /\ [sweep EXCEPT !.lost = TRUE] \in Sweep
          /\ [sweep EXCEPT !.attempt = 0, !.lost = FALSE] \in Sweep
      BY <3>0, SweepUpdates
    <3> QED  BY <2>4, <3>0, <3>1, NextAttemptTypes DEF Create
  <2>5. CASE Precheck
    <3>0. sweep \in Sweep  OBVIOUS
    <3> HIDE DEF Sweep, TypeOK
    <3>1. /\ [sweep EXCEPT !.listed = "unread", !.label = "unread"] \in Sweep
          /\ [sweep EXCEPT !.listed = "none", !.label = "unread"] \in Sweep
          /\ [sweep EXCEPT !.attempt = 0, !.lost = FALSE, !.listed = "open",
                           !.label = "unread"] \in Sweep
      BY <3>0, SweepUpdates
    <3> QED  BY <2>5, <3>0, <3>1, NextAttemptTypes DEF Precheck
  <2>6. CASE Triage
    <3>1. Listed \in {"open", "none"}  BY DEF Listed
    <3>2. label \in {"active", "ready", "pr_open"} /\ (label' = "ready") \in BOOLEAN
      OBVIOUS
    <3>3. \/ sweep' = [sweep EXCEPT !.listed = Listed, !.label = label,
                                    !.returned = (label' = "ready")]
          \/ sweep' = [sweep EXCEPT !.listed = Listed, !.label = label]
      BY <2>6 DEF Triage
    <3> HIDE DEF Sweep, TypeOK
    <3>4. sweep \in Sweep  BY DEF TypeOK
    <3>5. /\ [sweep EXCEPT !.listed = Listed, !.label = label,
                           !.returned = (label' = "ready")] \in Sweep
          /\ [sweep EXCEPT !.listed = Listed, !.label = label] \in Sweep
      BY <3>1, <3>2, <3>4, EntryFacts, SweepReadings
    <3> QED  BY <3>3, <3>5, Zenon
  <2>7. CASE SweepPush  BY <2>7 DEF SweepPush
  <2>8. CASE Probe
    <3>2. (sweep.listed = "none" /\ git.origin # {}) \in BOOLEAN  OBVIOUS
    <3>3. git \in GitTypes  BY DEF GitTypes
    <3>4. \/ sweep' = [sweep EXCEPT !.head = <<git.origin, git.local>>,
                         !.candidate = (sweep.listed = "none" /\ git.origin # {})]
          \/ sweep' = [sweep EXCEPT !.head = <<{Unknown}, git.local>>]
      BY <2>8 DEF Probe
    <3> HIDE DEF Sweep, TypeOK
    <3>5. sweep \in Sweep  BY DEF TypeOK
    <3>6. /\ [sweep EXCEPT !.head = <<git.origin, git.local>>,
                !.candidate = (sweep.listed = "none" /\ git.origin # {})] \in Sweep
          /\ [sweep EXCEPT !.head = <<{Unknown}, git.local>>] \in Sweep
      BY <3>2, <3>3, <3>5, SweepReadings, HeadFacts
    <3> QED  BY <3>4, <3>6, Zenon
  <2>9. CASE Lock  BY <2>9 DEF Lock, LockSkip, LockReap, LockOpen, LockCap, LockWithPr
  <2> QED  BY <1>3, <2>1, <2>2, <2>3, <2>4, <2>5, <2>6, <2>7, <2>8, <2>9 DEF Pass
<1>4. CASE StartOperator \/ \E p \in Procs : Crash(p)
  BY <1>0, <1>4 DEF StartOperator, Crash
<1> QED  BY <1>1, <1>2, <1>3, <1>4 DEF Next, Procs

\* ... and so is what a dispatch remembers.
LEMMA JobTypes == ASSUME TypeOK, Next  PROVE job' \in [Procs -> Job]
<1> USE DEF TypeOK, Job, Outcomes
<1>0. NoJob \in Job  BY DEF NoJob
<1>1. CASE Worker  BY <1>1 DEF Worker, Commit, Publish, OpenPr, Die
<1>2. ASSUME NEW p \in Procs, Dispatch(p)  PROVE job' \in [Procs -> Job]
  <2>1. CASE Claim(p)
    <3>1. [NoJob EXCEPT !.recover = entry.status = "dispatched"] \in Job
      BY DEF NoJob
    <3> QED  BY <2>1, <3>1 DEF Claim
  <2>2. CASE ClaimSlot(p)  BY <2>2 DEF ClaimSlot, SpendSlot, Entry
  <2>3. CASE RetryPush(p)  BY <2>3 DEF RetryPush
  <2>4. CASE Note(p)
    <3>1. \E b \in BOOLEAN, x \in {job[p].result, "failed"} :
             job' = [job EXCEPT ![p].rework = b, ![p].result = x]
      BY <2>4 DEF Note
    <3>2. job[p].result \in {"none", "ok", "failed", "unsafe"}  OBVIOUS
    <3> HIDE DEF Job
    <3>3. job \in [Procs -> Job]  OBVIOUS
    <3>4. PICK b \in BOOLEAN, x \in {job[p].result, "failed"} :
             job' = [job EXCEPT ![p].rework = b, ![p].result = x]
      BY <3>1
    <3>5. x \in {"none", "ok", "failed", "unsafe"}  BY <3>2
    <3> QED  BY <3>3, <3>4, <3>5, JobUpdates, Zenon
  <2>5. CASE Place(p)
    <3>1. \E x \in {"ok", "failed", "unsafe"} : job' = [job EXCEPT ![p].result = x]
      BY <2>5 DEF Place, Attach, Reset, Fails, Launched, Ends
    <3> QED  BY <3>1
  <2>6. CASE Record(p)  BY <1>0, <2>6 DEF Record
  <2> QED  BY <1>2, <2>1, <2>2, <2>3, <2>4, <2>5, <2>6 DEF Dispatch
<1>3. CASE Pass
  <2>1. CASE Dispatch("pass")  BY <1>2, <2>1 DEF Procs
  <2>2. CASE StartPass \/ Lane \/ LanePush \/ Count \/ Relabel \/ Create \/ Precheck
             \/ ReconcileDue \/ ReconcileNotDue \/ Snapshot \/ Triage \/ SweepPush
             \/ Probe \/ Lock
    BY <2>2 DEF StartPass, Lane, LanePush, Count, Relabel, Create, Precheck, ReconcileDue,
                ReconcileNotDue, Snapshot, Triage, SweepPush, Probe, Lock
  <2> QED  BY <1>3, <2>1, <2>2 DEF Pass
<1>4. CASE StartOperator \/ \E p \in Procs : Crash(p)
  BY <1>0, <1>4 DEF StartOperator, Crash
<1> QED  BY <1>1, <1>2, <1>3, <1>4 DEF Next, Procs

\* ... and the issue's entry.
LEMMA EntryTypes == ASSUME TypeOK, Next  PROVE entry' \in Entry
<1> USE DEF TypeOK, Entry
<1> USE EntryFacts DEF Statuses, Newests
<1>1. CASE Worker  BY <1>1 DEF Worker, Commit, Publish, OpenPr, Die
<1>2. ASSUME NEW p \in Procs, Dispatch(p)  PROVE entry' \in Entry
  <2>1. CASE Claim(p)  BY <2>1 DEF Claim
  <2>2. CASE ClaimSlot(p)  BY <2>2 DEF ClaimSlot, SpendSlot
  <2>3. CASE Note(p)
    <3>1. Newest(job[p].out) \in Newests  BY DEF Job
    <3>2. entry' = [entry EXCEPT !.newest = Newest(job[p].out),
                      !.tries = IF job[p].out = "landed" THEN 0 ELSE entry.tries]
      BY <2>3 DEF Note
    <3>3. (IF job[p].out = "landed" THEN 0 ELSE entry.tries) \in Nat  OBVIOUS
    <3> HIDE DEF Entry
    <3>4. [entry EXCEPT !.newest = Newest(job[p].out),
             !.tries = IF job[p].out = "landed" THEN 0 ELSE entry.tries] \in Entry
      BY <3>1, <3>3, EntryUpdates
    <3> QED  BY <3>2, <3>4, Zenon
  <2>4. CASE Record(p)
    <3>1. CASE entry' = [entry EXCEPT !.status = "dispatched", !.counted = FALSE,
                                      !.armed = FALSE, !.failures = 0]
      BY <3>1
    <3>2. CASE entry' = [entry EXCEPT !.status = "escalated", !.failures = @ + 1]
      BY <3>2
    <3>3. CASE \E x \in {"escalated", "failed"} :
                  entry' = [entry EXCEPT !.failures = @ + 1, !.status = x]
      BY <3>3
    <3> QED  BY <2>4, <3>1, <3>2, <3>3 DEF Record
  <2>5. CASE RetryPush(p) \/ Place(p)  BY <2>5 DEF RetryPush, Place
  <2> QED  BY <1>2, <2>1, <2>2, <2>3, <2>4, <2>5 DEF Dispatch
<1>3. CASE Pass
  <2>1. CASE Dispatch("pass")  BY <1>2, <2>1 DEF Procs
  <2>2. CASE StartPass \/ Lane \/ LanePush \/ Relabel \/ ReconcileDue \/ ReconcileNotDue
             \/ Snapshot \/ Triage \/ SweepPush \/ Probe
    BY <2>2 DEF StartPass, Lane, LanePush, Relabel, ReconcileDue, ReconcileNotDue,
                Snapshot, Triage, SweepPush, Probe
  <2>3. CASE Count
    <3>1. \E x \in Statuses :
             entry' = [entry EXCEPT !.redispatches = @ + 1, !.status = x]
      BY <2>3 DEF Count
    <3> QED  BY <3>1
  <2>4. CASE Create
    <3>1. [sweep EXCEPT !.lost = TRUE] \in Sweep  BY DEF Sweep, Outcomes
    <3> QED  BY <2>4, <3>1, OpenedTypes, NextAttemptTypes DEF Create
  <2>5. CASE Precheck
    <3>1. [sweep EXCEPT !.listed = "unread", !.label = "unread"] \in Sweep
      BY DEF Sweep, Outcomes
    <3> QED  BY <2>5, <3>1, OpenedTypes, NextAttemptTypes DEF Precheck
  <2>6. CASE Lock
    <3>1. Newest(sweep.event) \in Newests  OBVIOUS
    <3>2. CASE LockSkip \/ LockReap \/ LockOpen \/ LockWithPr
      <4>1. \/ entry' = entry
            \/ entry' = [entry EXCEPT !.newest = Newest(sweep.event)]
            \/ entry' = [entry EXCEPT !.newest = Newest(sweep.event),
                           !.status = "escalated", !.armed = FALSE]
        BY <3>2 DEF LockSkip, LockReap, LockOpen, LockWithPr
      <4> HIDE DEF Entry
      <4>2. /\ [entry EXCEPT !.newest = Newest(sweep.event)] \in Entry
            /\ [entry EXCEPT !.newest = Newest(sweep.event),
                  !.status = "escalated", !.armed = FALSE] \in Entry
        BY <3>1, EntryUpdates
      <4> QED  BY <4>1, <4>2
    <3>3. CASE LockCap
      <4>1. (entry.armed \/ ~sweep.returned) \in BOOLEAN  OBVIOUS
      <4>2. \/ entry' = [entry EXCEPT !.newest = Newest(sweep.event),
                           !.status = "escalated", !.head = sweep.head,
                           !.deaths = Deaths, !.counted = FALSE, !.armed = FALSE]
            \/ entry' = [entry EXCEPT !.newest = Newest(sweep.event),
                           !.head = sweep.head, !.deaths = Deaths, !.counted = TRUE,
                           !.armed = (entry.armed \/ ~sweep.returned)]
        BY <3>3 DEF LockCap
      <4> HIDE DEF Entry
      <4>3. /\ [entry EXCEPT !.newest = Newest(sweep.event),
                  !.status = "escalated", !.head = sweep.head,
                  !.deaths = Deaths, !.counted = FALSE, !.armed = FALSE] \in Entry
            /\ [entry EXCEPT !.newest = Newest(sweep.event),
                  !.head = sweep.head, !.deaths = Deaths, !.counted = TRUE,
                  !.armed = (entry.armed \/ ~sweep.returned)] \in Entry
        BY <3>1, <4>1, EntryUpdates
      <4> QED  BY <4>2, <4>3, Zenon
    <3> QED  BY <2>6, <3>2, <3>3 DEF Lock
  <2> QED  BY <1>3, <2>1, <2>2, <2>3, <2>4, <2>5, <2>6 DEF Pass
<1>4. CASE StartOperator \/ \E p \in Procs : Crash(p)  BY <1>4 DEF StartOperator, Crash
<1> QED  BY <1>1, <1>2, <1>3, <1>4 DEF Next, Procs

Labels == {"active", "ready", "pr_open"}

LEMMA LabelTypes == ASSUME TypeOK, Next  PROVE label' \in Labels
<1> USE DEF TypeOK, Labels, Relabelled
<1>1. CASE Worker  BY <1>1 DEF Worker, Commit, Publish, OpenPr, Die
<1>2. ASSUME NEW p \in Procs, Dispatch(p)  PROVE label' \in Labels
  BY <1>2 DEF Dispatch, Claim, ClaimSlot, RetryPush, Note, Place, Record
<1>3. CASE Pass
  <2>1. CASE Dispatch("pass")  BY <1>2, <2>1 DEF Procs
  <2>2. CASE Create \/ Precheck
    BY <2>2 DEF Create, Precheck, Opened, NextAttempt, GaveUp
  <2>3. CASE StartPass \/ Lane \/ LanePush \/ Count \/ Relabel \/ ReconcileDue
             \/ ReconcileNotDue \/ Snapshot \/ Triage \/ SweepPush \/ Probe \/ Lock
    BY <2>3 DEF StartPass, Lane, LanePush, Count, Relabel, ReconcileDue,
                ReconcileNotDue, Snapshot, Triage, SweepPush, Probe, Lock
  <2> QED  BY <1>3, <2>1, <2>2, <2>3 DEF Pass
<1>4. CASE StartOperator \/ \E p \in Procs : Crash(p)  BY <1>4 DEF StartOperator, Crash
<1> QED  BY <1>1, <1>2, <1>3, <1>4 DEF Next, Procs

\* The pull request, the worker and the counts of the bounds.
LEMMA RestTypes ==
  ASSUME TypeOK, Next
  PROVE  /\ pr' \in BOOLEAN /\ worker' \in [alive : BOOLEAN, sidecar : BOOLEAN]
         /\ tried' \in Nat /\ spent' \in SpentTypes
<1> DEFINE Rest == /\ pr' \in BOOLEAN
                   /\ worker' \in [alive : BOOLEAN, sidecar : BOOLEAN]
                   /\ tried' \in Nat /\ spent' \in SpentTypes
<1>0. spent \in SpentTypes /\ (Fault \/ NoFault => spent' \in SpentTypes)
  BY StrandedAssumption DEF TypeOK, SpentTypes, Fault, NoFault
<1> USE DEF TypeOK, Relabelled
<1>1. CASE Worker
  BY <1>0, <1>1, Zenon DEF Worker, Commit, Publish, OpenPr, Die
<1>2. ASSUME NEW p \in Procs, Dispatch(p)  PROVE Rest
  <2>1. CASE Claim(p) \/ ClaimSlot(p) \/ Note(p)
    BY <1>0, <2>1 DEF Claim, ClaimSlot, Note
  <2>2. CASE RetryPush(p)
    BY <1>0, <2>2 DEF RetryPush, SalvagePush
  <2>3. CASE Place(p)
    <3>1. UNCHANGED <<pr, tried>> /\ (Fault \/ NoFault)
      BY <2>3 DEF Place, Attach, Reset, Fails
    <3>2. worker' \in {worker, [alive |-> TRUE, sidecar |-> TRUE]}
      BY <2>3 DEF Place, Attach, Reset, Fails, Launched
    <3>3. worker' \in [alive : BOOLEAN, sidecar : BOOLEAN]
      <4>1. worker \in [alive : BOOLEAN, sidecar : BOOLEAN]  OBVIOUS
      <4> HIDE DEF TypeOK
      <4>2. [alive |-> TRUE, sidecar |-> TRUE] \in [alive : BOOLEAN, sidecar : BOOLEAN]
        OBVIOUS
      <4> QED  BY <3>2, <4>1, <4>2, Zenon
    <3>4. pr' = pr /\ tried' = tried /\ spent' \in SpentTypes  BY <1>0, <3>1
    <3> QED  BY <3>3, <3>4, Zenon
  <2>4. CASE Record(p)
    BY <1>0, <2>4 DEF Record
  <2> QED  BY <1>2, <2>1, <2>2, <2>3, <2>4 DEF Dispatch
<1>3. CASE Pass
  <2>1. CASE Dispatch("pass")  BY <1>2, <2>1 DEF Procs
  <2>2. CASE Create
    <3>1. pr' \in {pr, TRUE} /\ UNCHANGED <<worker, tried>>  BY <2>2 DEF Create
    <3>2. Fault \/ NoFault  BY <2>2 DEF Create, Opened
    <3> QED  BY <1>0, <3>1, <3>2
  <2>3. CASE Precheck
    <3>1. UNCHANGED <<pr, worker, tried>>  BY <2>3 DEF Precheck
    <3>2. Fault \/ NoFault  BY <2>3 DEF Precheck, Opened
    <3> QED  BY <1>0, <3>1, <3>2
  <2>4. CASE Lane  BY <1>0, <2>4 DEF Lane
  <2>5. CASE LanePush \/ SweepPush
    <3>1. UNCHANGED <<pr, worker, tried>>  BY <2>5 DEF LanePush, SweepPush
    <3>2. Fault \/ NoFault  BY <2>5 DEF LanePush, SweepPush, SalvagePush
    <3> QED  BY <1>0, <3>1, <3>2
  <2>6. CASE StartPass \/ Count \/ Relabel \/ ReconcileDue \/ ReconcileNotDue
             \/ Snapshot \/ Triage \/ Probe \/ Lock
    <3>1. UNCHANGED <<pr, worker, tried>>
      BY <2>6 DEF StartPass, Count, Relabel, ReconcileDue, ReconcileNotDue, Snapshot,
                  Triage, Probe, Lock
    <3>2. Fault \/ NoFault
      BY <2>6 DEF StartPass, Count, Relabel, ReconcileDue, ReconcileNotDue, Snapshot,
                  Triage, Probe, Lock, NoFault
    <3> QED  BY <1>0, <3>1, <3>2
  <2> QED  BY <1>3, <2>1, <2>2, <2>3, <2>4, <2>5, <2>6 DEF Pass
<1>4. CASE StartOperator \/ \E p \in Procs : Crash(p)
  <2>1. UNCHANGED <<pr, worker, tried>>  BY <1>4 DEF StartOperator, Crash
  <2>2. \/ spent.command < MaxCommands /\ spent' = [spent EXCEPT !.command = @ + 1]
        \/ spent.crash < MaxCrashes /\ spent' = [spent EXCEPT !.crash = @ + 1]
    BY <1>4 DEF StartOperator, Crash
  <2>3. spent' \in SpentTypes
    BY <1>0, <2>2, StrandedAssumption DEF SpentTypes
  <2> QED  BY <2>1, <2>3
<1> QED  BY <1>1, <1>2, <1>3, <1>4 DEF Next, Procs

LEMMA TypeNext == ASSUME TypeOK, WorkKept, [Next]_vars  PROVE TypeOK' /\ WorkKept'
<1>1. CASE Next
  <2>1. git \in GitTypes  BY DEF TypeOK, GitTypes
  <2>2. git' \in GitTypes /\ WorkKept'  BY <1>1, <2>1, GitSteps, GitKept
  <2> QED
    BY <1>1, <2>2, AtTypes, SweepTypes, JobTypes, EntryTypes, LabelTypes, RestTypes
    DEF TypeOK, GitTypes, Labels, SpentTypes
<1>2. CASE UNCHANGED vars  BY <1>2 DEF vars, TypeOK, WorkKept
<1> QED  BY <1>1, <1>2

-----------------------------------------------------------------------------
(* Retries of a salvage push. *)

\* One process at a time dispatches the issue, and what it claimed is claimed no
\* more.
OneDispatch ==
    /\ \A p \in Procs : Dispatching(p) => entry.status \notin {"dispatched", "failed"}
    /\ \A p, q \in Procs : Dispatching(p) /\ Dispatching(q) => p = q

\* An attempt is on the entry before its push, and only there until then.
Spent ==
    /\ entry.tries <= Limit /\ tried <= entry.tries
    /\ \A p \in Procs : at[p] = "push" => tried < entry.tries

\* A step that neither claims nor retries.
Bystands ==
    /\ entry'.status \in {entry.status, "escalated", "passive"}
    /\ entry'.tries = entry.tries /\ tried' = tried
    /\ \A p \in Procs : /\ Dispatching(p)' => Dispatching(p)
                        /\ at'[p] = "push" => at[p] = "push"

LEMMA BystandsKeeps ==
  ASSUME TypeOK, OneDispatch, Spent, Bystands
  PROVE  OneDispatch' /\ Spent'
  BY DEF Bystands, OneDispatch, Spent

\* The redispatch cap escalates or leaves the status, and counts no push.
LEMMA CapEffect ==
  ASSUME TypeOK, LockCap
  PROVE  entry'.status \in {entry.status, "escalated"} /\ entry'.tries = entry.tries
<1> DEFINE capped == [entry EXCEPT !.newest = Newest(sweep.event), !.status = "escalated",
                        !.head = sweep.head, !.deaths = Deaths, !.counted = FALSE,
                        !.armed = FALSE]
           counted == [entry EXCEPT !.newest = Newest(sweep.event), !.head = sweep.head,
                        !.deaths = Deaths, !.counted = TRUE,
                        !.armed = @ \/ ~sweep.returned]
<1>1. entry' = capped \/ entry' = counted  BY DEF LockCap
<1>2. entry \in Entry  BY DEF TypeOK
<1>3. capped.status = "escalated" /\ capped.tries = entry.tries  BY <1>2 DEF Entry
<1>4. counted.status = entry.status /\ counted.tries = entry.tries  BY <1>2 DEF Entry
<1> HIDE DEF capped, counted
<1> QED  BY <1>1, <1>3, <1>4, Zenon

LEMMA PassBystands ==
  ASSUME TypeOK,
         \/ Worker \/ StartOperator \/ \E p \in Procs : Crash(p)
         \/ StartPass \/ Lane \/ LanePush \/ Count \/ Relabel \/ Create \/ Precheck
         \/ ReconcileDue \/ ReconcileNotDue \/ Snapshot \/ Triage \/ SweepPush \/ Probe
         \/ Lock
  PROVE  Bystands
<1> USE DEF TypeOK, Bystands, Dispatching, Goto, Entry, Procs, Places
<1>1. CASE Worker  BY <1>1 DEF Worker, Commit, Publish, OpenPr, Die
<1>2. CASE StartOperator \/ \E p \in Procs : Crash(p)  BY <1>2 DEF StartOperator, Crash
<1>3. CASE StartPass \/ Lane \/ LanePush \/ Relabel \/ ReconcileDue \/ ReconcileNotDue
           \/ Snapshot \/ Triage \/ SweepPush \/ Probe
  BY <1>3 DEF StartPass, Lane, LanePush, Relabel, ReconcileDue, ReconcileNotDue,
              Snapshot, Triage, SweepPush, Probe
<1>4. CASE Count  BY <1>4 DEF Count
<1>5. CASE Create \/ Precheck \/ Lock
  <2>1. \E l \in {"filter", "reconcile", "precheck", "create", "count"} :
           at' = [at EXCEPT !["pass"] = l]
    BY <1>5 DEF Create, Precheck, Opened, NextAttempt, GaveUp, Lock, LockSkip, LockReap,
                LockOpen, LockCap, LockWithPr
  <2>2. tried' = tried  BY <1>5 DEF Create, Precheck, Lock
  <2>3. CASE Create \/ Precheck
    <3>1. entry' = entry \/ (\E n \in Newests :
                               \/ entry' = [entry EXCEPT !.armed = TRUE, !.newest = n]
                               \/ entry' = [entry EXCEPT !.status = "passive", !.newest = n])
      BY <2>3, EntryFacts DEF Create, Precheck, Opened, NextAttempt, GaveUp
    <3>2. entry'.status \in {entry.status, "passive"} /\ entry'.tries = entry.tries
      BY <3>1
    <3> QED  BY <2>1, <2>2, <3>2
  <2>4. CASE Lock
    <3>1. CASE LockSkip \/ LockReap \/ LockOpen \/ LockWithPr
      <4>1. entry'.status \in {entry.status, "escalated"} /\ entry'.tries = entry.tries
        BY <3>1 DEF LockSkip, LockReap, LockOpen, LockWithPr
      <4> QED  BY <2>1, <2>2, <4>1
    <3>2. CASE LockCap
      <4>1. entry'.status \in {entry.status, "escalated"} /\ entry'.tries = entry.tries
        BY <3>2, CapEffect
      <4> QED  BY <2>1, <2>2, <4>1
    <3> QED  BY <2>4, <3>1, <3>2 DEF Lock
  <2> QED  BY <1>5, <2>3, <2>4
<1> QED  BY <1>1, <1>2, <1>3, <1>4, <1>5

\* A dispatch: the claim shuts others out, and each retry is on the entry first.
LEMMA DispatchKeeps ==
  ASSUME TypeOK, OneDispatch, Spent, NEW p \in Procs, Dispatch(p)
  PROVE  OneDispatch' /\ Spent'
<1> USE StrandedAssumption DEF TypeOK, OneDispatch, Spent, Dispatching, Goto, At, Entry, Places
<1>1. CASE Claim(p)
  <2>1. CASE Claimable(p)
    <3>1. \A q \in Procs : ~Dispatching(q)  BY <2>1 DEF Claimable
    <3>2. /\ entry' = [entry EXCEPT !.status = "pending", !.armed = FALSE]
          /\ tried' = tried /\ at' = [at EXCEPT ![p] = "slot"]
      BY <1>1, <2>1, Zenon DEF Claim
    <3>3. entry'.status = "pending" /\ entry'.tries = entry.tries  BY <3>2
    <3> QED  BY <3>1, <3>2, <3>3
  <2>2. CASE ~Claimable(p)
    <3>1. entry' = entry /\ tried' = tried /\ at' = [at EXCEPT ![p] = "idle"]
      BY <1>1, <2>2 DEF Claim
    <3> QED  BY <3>1
  <2> QED  BY <2>1, <2>2
<1>2. CASE ClaimSlot(p)
  <2>1. Dispatching(p) /\ tried' = tried  BY <1>2 DEF ClaimSlot
  <2>2. CASE /\ entry.tries < Limit /\ entry' = [entry EXCEPT !.tries = @ + 1]
             /\ at' = [at EXCEPT ![p] = "push"]
    BY <2>1, <2>2
  <2>3. CASE entry' = entry /\ at' = [at EXCEPT ![p] = "place"]
    BY <2>1, <2>3
  <2> QED  BY <1>2, <2>2, <2>3 DEF ClaimSlot, SpendSlot
<1>3. CASE RetryPush(p)
  <2>1. /\ at[p] = "push" /\ at' = [at EXCEPT ![p] = "note"]
        /\ tried' = tried + 1 /\ entry' = entry
    BY <1>3 DEF RetryPush
  <2> QED  BY <2>1
<1>4. CASE Note(p)
  <2>1. /\ Dispatching(p) /\ entry'.status = entry.status
        /\ \E l \in {"record", "place"} : at' = [at EXCEPT ![p] = l]
        /\ \/ entry'.tries = 0 /\ tried' = 0
           \/ entry'.tries = entry.tries /\ tried' = tried
    BY <1>4 DEF Note
  <2> QED  BY <2>1
<1>5. CASE Place(p)
  <2>1. /\ Dispatching(p) /\ entry' = entry /\ tried' = tried
        /\ at' = [at EXCEPT ![p] = "record"]
    BY <1>5 DEF Place
  <2> QED  BY <2>1
<1>6. CASE Record(p)
  <2>1. /\ Dispatching(p) /\ entry'.tries = entry.tries /\ tried' = tried
        /\ at' = [at EXCEPT ![p] = "idle"]
    BY <1>6 DEF Record
  <2> QED  BY <2>1
<1> QED  BY <1>1, <1>2, <1>3, <1>4, <1>5, <1>6 DEF Dispatch

LEMMA TriesNext ==
  ASSUME TypeOK, OneDispatch, Spent, [Next]_vars
  PROVE  OneDispatch' /\ Spent'
<1>1. ASSUME NEW p \in Procs, Dispatch(p)  PROVE OneDispatch' /\ Spent'
  BY <1>1, DispatchKeeps
<1>2. CASE UNCHANGED vars
  BY <1>2 DEF vars, OneDispatch, Spent, Dispatching
<1>3. CASE Next
  BY <1>1, <1>3, PassBystands, BystandsKeeps DEF Next, Pass, Procs
<1> QED  BY <1>2, <1>3

-----------------------------------------------------------------------------
(* Who may touch the branch. *)

\* No two processes dispatch the issue at once, though nothing of a claim is
\* looked at again between the claim and the launch (record_dispatch_claims).
DispatchAlone == \A p, q \in Procs : Dispatching(p) /\ Dispatching(q) => p = q

\* From its claim to the launch a dispatch holds the branch of a worker that is
\* dead: neither its push nor its checkout runs beside a live one.
Unmanned == {"slot", "push", "note", "place"}
HandsOff == \A p \in Procs : at[p] \in Unmanned => ~worker.alive

\* What a live worker has on its branch only the worker changes: no salvage, no
\* sweep, no dispatch and no crash (salvage_unpushed_worktree, create_worktree).
LiveBranchOwn == [][worker.alive /\ git'.local # git.local => Commit]_vars

LEMMA HandsOffInit == Init => HandsOff
  BY DEF Init, HandsOff, Unmanned

\* A step of the pass before its dispatch, of the worker or of the operator's shell
\* brings no worker to life and nobody into the hold.
LEMMA NoneRises ==
  ASSUME TypeOK, HandsOff,
         \/ Worker \/ StartOperator \/ \E p \in Procs : Crash(p)
         \/ StartPass \/ Lane \/ LanePush \/ Count \/ Relabel \/ Create \/ Precheck
         \/ ReconcileDue \/ ReconcileNotDue \/ Snapshot \/ Triage \/ SweepPush \/ Probe
         \/ Lock
  PROVE  HandsOff'
<1> USE DEF TypeOK, HandsOff, Unmanned, Goto, Procs, Places
<1>1. CASE Worker  BY <1>1 DEF Worker, Commit, Publish, OpenPr, Die
<1>2. CASE StartOperator \/ \E p \in Procs : Crash(p)  BY <1>2 DEF StartOperator, Crash
<1>3. CASE StartPass \/ LanePush \/ Count \/ Relabel \/ ReconcileDue \/ ReconcileNotDue
           \/ Snapshot \/ Triage \/ SweepPush \/ Probe
  BY <1>3 DEF StartPass, LanePush, Count, Relabel, ReconcileDue, ReconcileNotDue,
              Snapshot, Triage, SweepPush, Probe
<1>4. CASE Lane
  <2>1. worker'.alive = worker.alive  BY <1>4 DEF Lane
  <2>2. \E l \in {"reconcile", "publish", "count"} : at' = [at EXCEPT !["pass"] = l]
    BY <1>4 DEF Lane
  <2> QED  BY <2>1, <2>2
<1>5. CASE Create \/ Precheck \/ Lock
  <2>1. \E l \in {"filter", "reconcile", "precheck", "create", "count"} :
           at' = [at EXCEPT !["pass"] = l]
    BY <1>5 DEF Create, Precheck, Opened, NextAttempt, GaveUp, Lock, LockSkip, LockReap,
                LockOpen, LockCap, LockWithPr
  <2>2. worker' = worker  BY <1>5 DEF Create, Precheck, Lock
  <2> QED  BY <2>1, <2>2
<1> QED  BY <1>1, <1>2, <1>3, <1>4, <1>5

\* The claim sees a dead worker; only the launch, which ends the hold, makes one.
LEMMA HandsOffDispatch ==
  ASSUME TypeOK, OneDispatch, HandsOff, NEW p \in Procs, Dispatch(p)
  PROVE  HandsOff'
<1> USE DEF TypeOK, HandsOff, Unmanned, Goto, At, Places
<1>1. CASE Claim(p)
  <2>1. worker' = worker  BY <1>1 DEF Claim
  <2>2. \/ at' = [at EXCEPT ![p] = "slot"] /\ ~worker.alive
        \/ at' = [at EXCEPT ![p] = "idle"]
    BY <1>1 DEF Claim, Claimable
  <2> QED  BY <2>1, <2>2
<1>2. CASE ClaimSlot(p) \/ RetryPush(p) \/ Note(p)
  <2>1. worker' = worker /\ at[p] \in Unmanned
    BY <1>2 DEF ClaimSlot, RetryPush, Note
  <2>2. \E l \in Places : at' = [at EXCEPT ![p] = l]
    BY <1>2 DEF ClaimSlot, RetryPush, Note
  <2> QED  BY <2>1, <2>2
<1>3. CASE Place(p)
  <2>1. Dispatching(p) /\ at' = [at EXCEPT ![p] = "record"]
    BY <1>3 DEF Place, Dispatching
  <2>2. \A q \in Procs : q # p => at[q] \notin Unmanned
    BY <2>1 DEF OneDispatch, Dispatching
  <2> QED  BY <2>1, <2>2
<1>4. CASE Record(p)  BY <1>4 DEF Record
<1> QED  BY <1>1, <1>2, <1>3, <1>4 DEF Dispatch

LEMMA HandsOffNext ==
  ASSUME TypeOK, OneDispatch, HandsOff, [Next]_vars  PROVE HandsOff'
<1>1. CASE UNCHANGED vars  BY <1>1 DEF vars, HandsOff
<1>2. CASE Next
  BY <1>2, NoneRises, HandsOffDispatch DEF Next, Pass, Procs
<1> QED  BY <1>1, <1>2

\* Beside its commits the local branch is moved by a checkout alone.
LEMMA LocalStep ==
  ASSUME git \in GitTypes, HandsOff, Next, worker.alive, git'.local # git.local
  PROVE  Commit
<1>1. CASE Worker  BY <1>1 DEF Worker, Commit, Publish, OpenPr, Die, GitTypes
<1>2. ASSUME NEW p \in Procs, Dispatch(p)  PROVE Commit
  <2>1. CASE Claim(p) \/ ClaimSlot(p) \/ Note(p) \/ Record(p)
    BY <2>1 DEF Claim, ClaimSlot, Note, Record
  <2>2. CASE RetryPush(p) \/ Place(p)
    BY <2>2 DEF RetryPush, Place, At, HandsOff, Unmanned
  <2> QED  BY <1>2, <2>1, <2>2 DEF Dispatch
<1>3. CASE Pass
  <2>1. CASE Dispatch("pass")  BY <1>2, <2>1 DEF Procs
  <2>2. CASE LanePush \/ SweepPush
    BY <2>2 DEF LanePush, SweepPush, SalvagePush, Stranded, Landing, GitTypes
  <2>3. CASE StartPass \/ Lane \/ Count \/ Relabel \/ Create \/ Precheck \/ ReconcileDue
             \/ ReconcileNotDue \/ Snapshot \/ Triage \/ Probe \/ Lock
    BY <2>3 DEF StartPass, Lane, Count, Relabel, Create, Precheck, ReconcileDue,
                ReconcileNotDue, Snapshot, Triage, Probe, Lock
  <2> QED  BY <1>3, <2>1, <2>2, <2>3 DEF Pass
<1>4. CASE StartOperator \/ \E p \in Procs : Crash(p)  BY <1>4 DEF StartOperator, Crash
<1> QED  BY <1>1, <1>2, <1>3, <1>4 DEF Next, Procs

-----------------------------------------------------------------------------
(* Pull requests. *)

\* A create GitHub applied without an answer is remembered only on the way to the
\* listing that will find its pull request.
LostFound == sweep.lost => at["pass"] = "precheck" /\ pr

LEMMA LostInit == Init => LostFound
  BY DEF Init, LostFound, NoSweep

LEMMA LostNext == ASSUME TypeOK, LostFound, [Next]_vars  PROVE LostFound'
<1> USE DEF LostFound, TypeOK, Sweep, At, Goto
<1>1. CASE Worker  BY <1>1 DEF Worker, Commit, Publish, OpenPr, Die
<1>2. CASE StartOperator \/ Dispatch("operator") \/ Crash("operator")
  BY <1>2 DEF StartOperator, Dispatch, Claim, ClaimSlot, RetryPush, Note, Place, Record,
              Crash, Procs
<1>3. CASE Crash("pass")  BY <1>3 DEF Crash, NoSweep
<1>4. CASE Create \/ Precheck
  <2> USE DEF Opened, NextAttempt, GaveUp, Procs
  <2>1. CASE Create  BY <1>4, <2>1 DEF Create
  <2>2. CASE Precheck  BY <1>4, <2>2 DEF Precheck
  <2> QED  BY <1>4, <2>1, <2>2
<1>5. CASE Dispatch("pass")
  BY <1>5 DEF Dispatch, Claim, ClaimSlot, RetryPush, Note, Place, Record, NoSweep
<1>6. CASE StartPass \/ Lane \/ LanePush \/ Count \/ Relabel \/ ReconcileDue
           \/ ReconcileNotDue \/ Snapshot
  BY <1>6 DEF StartPass, Lane, LanePush, Count, Relabel, ReconcileDue, ReconcileNotDue,
              Snapshot
<1>7. CASE Triage \/ SweepPush \/ Probe \/ Lock
  BY <1>7 DEF Triage, SweepPush, Probe, Lock, LockSkip, LockReap, LockOpen, LockCap,
              LockWithPr
<1>8. CASE UNCHANGED vars  BY <1>8 DEF vars
<1> QED
  BY <1>1, <1>2, <1>3, <1>4, <1>5, <1>6, <1>7, <1>8 DEF Next, Pass, Procs

-----------------------------------------------------------------------------
(* The theorems. *)

Kept == TypeOK /\ WorkKept /\ OneDispatch /\ Spent /\ HandsOff /\ LostFound

LEMMA KeptInvariant == Spec => []Kept
<1>1. Init => Kept
  <2>1. Init => OneDispatch /\ Spent /\ WorkKept
    BY StrandedAssumption DEF Init, OneDispatch, Spent, WorkKept, Dispatching
  <2> QED  BY <2>1, TypeInit, HandsOffInit, LostInit DEF Kept
<1>2. Kept /\ [Next]_vars => Kept'
  BY TypeNext, TriesNext, HandsOffNext, LostNext DEF Kept
<1> QED  BY <1>1, <1>2, PTL DEF Spec

\* The entry, the branch and what each process remembers are well formed, whatever
\* sequence of deaths, passes, commands and crashes there is.
THEOREM Typing == Spec => []TypeOK
<1>1. Kept => TypeOK  BY DEF Kept
<1> QED  BY <1>1, KeptInvariant, PTL

\* No commit of a worker that died is lost: a push is a fast-forward, and a
\* checkout that drops commits has snapshot those origin does not have.
THEOREM WorkKeptHolds == Spec => []WorkKept
<1>1. Kept => WorkKept  BY DEF Kept
<1> QED  BY <1>1, KeptInvariant, PTL

\* No more salvage pushes are retried than the limit allows until one lands,
\* however often the pass dies between a push and its bookkeeping.
THEOREM TriesBoundedHolds == Spec => []TriesBounded
<1>1. Kept => TriesBounded
  BY StrandedAssumption DEF Kept, TypeOK, Entry, Spent, TriesBounded
<1> QED  BY <1>1, KeptInvariant, PTL

\* A create is never repeated blindly: what its own earlier attempt opened is found
\* by the listing first, for every number of retries.
THEOREM NoBlindRetryHolds == Spec => NoBlindRetry
<1>1. Kept /\ [Next]_vars
      => [At("pass", "create") /\ sweep.attempt > 0 /\ Create => ~sweep.lost]_vars
  BY DEF Kept, LostFound, At
<1> QED  BY <1>1, KeptInvariant, PTL DEF Spec, NoBlindRetry

\* The claim alone keeps two dispatches of the issue apart: whoever escalates, reaps
\* or opens a pull request meanwhile, no second process claims it.
THEOREM DispatchAloneHolds == Spec => []DispatchAlone
<1>1. Kept => DispatchAlone  BY DEF Kept, OneDispatch, DispatchAlone
<1> QED  BY <1>1, KeptInvariant, PTL

\* The branch of a live worker is its own, from its launch to its death, against
\* every interleaving of passes, operator's dispatches and crashes.
THEOREM LiveBranchOwnHolds == Spec => LiveBranchOwn
<1>1. Kept /\ [Next]_vars => [worker.alive /\ git'.local # git.local => Commit]_vars
  <2>1. Kept => git \in GitTypes /\ HandsOff  BY DEF Kept, TypeOK, GitTypes
  <2> QED  BY <2>1, LocalStep DEF vars
<1> QED  BY <1>1, KeptInvariant, PTL DEF Spec, LiveBranchOwn
=============================================================================
