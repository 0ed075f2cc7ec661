# charlie-work: a verification development

charlie-work is an orchestrator that keeps fleets of coding agents working on GitHub issues. A supervised
*pass* over each repository picks issues, starts worker processes in git worktrees, has the pull requests
they open reviewed, and merges what is approved. Almost everything is decided in several steps (a read of
GitHub, a read of a JSON file, a process started, a file written) by processes that share only files,
advisory locks and GitHub itself. These modules model the parts where the order of such steps decides
whether the system is right.

Paths below are relative to `src/src/charlie_work/` unless they start with `src/`.

## 1. Inventory

### 1.1 Processes and what they share

| process | started by | locks it takes |
|---|---|---|
| supervised pass (`loop`, one lane after another per repository) | `supervise.py` in a child of `supervise_loop.py` | supervisor lock for its life, `state_lock` per read-modify-write, fleet launch lock per launch window |
| operator command (`charlie work`, `claim`, `verdict`, `ship-it`, `unescalate`, `fleet stop` ...) | a human, at any moment | no supervisor lock; `state_lock`, and the fleet lock if it launches |
| worker, reviewer | an adapter (`claude_code.py` ...) | none; pushes to a branch, writes outcome files |
| watchdog thread, dashboard, doctor | wrapper, human | none; read only, except that the watchdog kills |
| GitHub, its merge queue | - | moves heads, labels and merges on its own |

Shared state: `state.json` (entries `issues[n]`, `prs[n]`, throttle window; `state.py`, under
`state_lock`), review packets and `review-decision.json` per pull request, session sidecars and worktree
markers (no lock), the fleet directory (registry, pause flag, launch lock and its holder sidecar, stop
request), the quota ledger, and GitHub's labels, heads and merges. `docs/adr` makes labels the source of
truth of the lifecycle; `state.json` is repaired towards them by `reconcile.py`.

### 1.2 Components

| component | state it keeps | operations | what makes it right | module |
|---|---|---|---|---|
| fleet launch gate | fleet lock, holder sidecar, pause flag, permits | check pause, take lock, count the fleet, govern, issue a permit, launch, release, record | the window is exclusive; the visible fleet stays under its cap; a permit is a budget; every hold ends; a pause quiesces | `FleetLaunch`, `FleetBudget` |
| issue dispatch | `issues[n]`, sidecars, markers, worktrees | list, filter, claim, launch, mark, register, record, label; reclaim, clear stale claim, operator claim | one worker, none lost, live work kept, retries capped, claims recover | `IssueDispatch` |
| review and merge | packet, decision file, `prs[n]`, queue label | review, record a verdict, carry over, sync, merge or hand off, reconcile | a merge rests on an approval of that head; a rejection stands; state says merged of what is merged, and settles on it | `ReviewMerge` |
| unauthorized-merge tripwire | baseline, acknowledgements, detections in `state.json`; the decision files | list, judge, arm, announce, acknowledge; authorize | a merge that was covered is not reported; one that was not is, in the end | `MergeTripwire` |
| supervisor lifecycle, self-deploy | supervisor lock, heartbeat, stop marker, pause flag, pending-sync marker, relaunch count | spawn, boot, beat, poll, pass, stop, drain, restart, deploy, condemn, kill | only a wedged child is killed; a request is honoured once and not lost; passes always come back; a deploy is finished | `Supervisor` |
| escalation and labels | status, reason, class, counters; labels | escalate, sweep, cap, promote, repair, reconcile, unescalate, verdict | automatic clears are bounded and spare what a human must decide; a parked issue is shown as parked | `Escalation` |
| dead-worker sweep; salvage and pull-request creation; worktree recovery | entry, sidecar, branch, origin, rescue refs, salvage events | lane, triage, salvage, probe, locked phase, redispatch, create, recover, capture, reset | no commit is lost; pushes and creations are bounded and not repeated blindly; the issue ends with somebody | `StrandedWork` |
| rework dispatch | `issues[n]`, sidecars | re-check, reap the superseded worker, launch | at most one worker per issue | planned (its launch window is a lane of `FleetLaunch`) |
| reviewer lane | sidecars, statuses | claim, launch, reap, retry | a live reviewer is never replaced | planned (its verdict is in `ReviewMerge`) |
| quota, provider, authentication blocks | ledger file | restrict, probe, clear | a restriction never shrinks by a lost race; a block is cleared in the end | planned |
| state store | `state.json` and its lock | lock, load, save, migrate | no update is lost | assumed; planned |
| main sync of other checkouts, test slots, circuit breaker | markers, counters | defer, retry | bounded retries | planned |
| selection algorithms | none | cycles, order, reserve | equal to their definitions | planned as operators |
| janitor and CI gates, merge train, local lane, registry, GitHub transport, archives, adapters | various | | | free choices of the modules above, or not modelled; see `PROJECT.json` |
| dashboard, events, doctor, prompts, parsing, configuration, CLI | derived or none | | | not modelled: they decide nothing the others act on |

### 1.3 What is hard

* **Check, then act.** The candidate filter and the claim, the terminal and escalation guards and the
  verdict they guard, the admission of a merge and the merge: each pair is two separate holds of
  `state_lock`, or a read of GitHub and a later write, with calls in between.
* **Counting without a snapshot.** The fleet count is a walk over files of repositories that change
  meanwhile.
* **Crashes.** A pass is a process that the watchdog, an operator or a reboot may kill between any two
  instructions: between starting a worker and writing its sidecar, between the decision file and
  `state.json`, between a push and its bookkeeping, between a self-deploy's merge and its sync.
* **Someone else's moves.** Workers push, the queue syncs and merges, an operator types a command while
  the pass is half way.
* **Calls whose answer is lost.** A push, a pull-request creation or a label write may have happened
  although it is reported as failed, and the code must decide whether to repeat it.
* **Things that must happen in the end.** Locks are released, stale claims expire, a revoked label comes
  off, a merge is recorded, a parked issue is shown as parked, a stalled supervisor is replaced,
  held-back dependencies are deployed, stranded work ends with somebody.

The list of hazards with their lines is in `PROJECT.json`; each names the properties that would catch it,
or says why none does.

## 2. Modules and how they correspond to the code

### 2.1 FleetLaunch (`worker_launch_gate.py`, `live_session_count.py`, `fleet_live_counts.py`, `file_lock.py`, `fleet_pause.py`)

A pass runs one lane over one repository: fresh dispatch, remote rework (which may call `_launch_workers`
twice under one permit) or local rework (which records before it releases). Its `pc` goes through pause
gate, pre-check, acquisition, holder sidecar, the walk over the registry, throttle gate, permit,
launches, and the releases in the order of `FleetLaunchLock.release`. The walk is three actions per
repository (`WalkSkips`, `WalkSidecars`, `WalkGhosts`), because workers end, lose their sidecar and are
recorded between them. A launch is `Spawn` and then `WriteSidecar` or `SidecarWriteFails`; a crash
between them leaves a running worker that no file names, and such a worker is invisible to the gate:
`Visible` says which workers can be counted. `Crash` and `Raise` are possible at every location; a crash
frees the lock, an exception runs the `finally` blocks.

`FleetBudget` is the abstract specification: members join one at a time while there is room and leave at
will. `FleetLaunch` implements it with `Visible` as members (`BudgetKept`).

Left out: the path with the cap disabled, which takes no lock (it is `Locked = FALSE` in
`IssueDispatch`); the per-harness, per-repository and backpressure terms of the governor, which may only
tighten the permit and are a free choice below the headroom; repositories that come back to the fleet;
the review lane's use of the lock; un-recording of a live worker's entry.

### 2.2 IssueDispatch (`orchestration/dispatch_state.py`, `worktree.py`, `claude_code.py`)

Two or more passes (supervised, or an operator's `charlie work`, which takes no supervisor lock) dispatch
the issues of one repository. `List, Permit, Scan, Filter, Claim, Gate`, one launch action per outcome of
`create_worktree`'s guards (`LaunchBlocked, ReapIdleWriter, LaunchAverted, LaunchFailed, Spawn`), `Mark,
Register, Release, Record, Label` follow `_dispatch_impl`; each hold of `state_lock` is one step, except
the record, which holds it over the whole batch (`stateLock`). `state_lock` is polled for 30 seconds:
`StateBusy` is the pass that gives up on it at its filter, claim or record, which `dispatch()` catches.
At the record that leaves workers running under claims without a pid, and half an hour later the claims
are stale, as after a `Crash`. `lost` is a history variable: the workers that outlived the claim they
were launched under before it was recorded, and those whose pass died before their sidecar was written.
Nothing the code reads keeps a second launch away from these; the properties speak of all others. Around
it: workers that commit, deliver and exit, the dead-worker `Reclaim` and its later `Relabel`, the aging
of claims, `ClearStaleClaim` of reconcile, and `charlie claim` in its two steps (marker, entry), which
may end between them (`ClaimBusy`).

Left out: dependency and priority order (they choose among candidates; the model lets any subset be
selected), re-arming of escalated issues, rework, backends without pull requests, merging of pull
requests. Simplified: claims age only when their pass is gone; pids are not recycled; a failure count
saturates at `Cap + 1`, and its window forgets all attempts at once; the reclaim removes the sidecar in
the same step as it commits its entry.

### 2.3 ReviewMerge (`workflow.py` review(), `orchestration/state_record_review.py`, `merge_path/`, `orchestration/state_approval.py`, `reconcile.py`)

One pull request; two actors. `Loop` is the pass: it lists, reviews (view, fetch the diff and write the
packet, check the head, commit), reaps a reviewer's verdict, walks the merge path and reconciles. `Op` is
the operator, who may run `charlie verdict` and `charlie ship-it` against it. The merge path is the same
actions for both: `Skip, View, Read`, then carry-forward (`Carry, Restamp, Refetch, Stamp` or
`ReReview`), branch sync (`Sync, Verify, ReSync` or `NoSync`), `Ready`, and `Merge, MergeRecord`,
`HandOff, Parked` or `Rework`. Heads are numbers, `diff[h]` is the content of head `h`, `parent[h]` tells
a base sync from a push. What a step has read is in `mem`, and a later step uses it without looking again
exactly where the code does. `Locked` is reconcile, which alone holds `state_lock` over calls to GitHub.
`raced` is a history variable: the merge passes during which somebody else pushed, synced, recorded or
escalated.

Left out: `blocked` verdicts as a third value (a rejection that escalates), issue labels, counters of
failed merges and requeues, `queue_skip`, closed pull requests, `unescalate`, force-pushes back to an
earlier commit. The post-merge tripwire is `MergeTripwire`. What checks, holds and conflicts say is a
free choice.

### 2.4 MergeTripwire (`orchestration/github_ops_unauthorized_merge.py`, `orchestration/state_unauthorized_merge.py`, `orchestration/state_operator_commands.py`)

Here the merge path is abstracted to its outcome, a merge that lands at any moment, and the records are
in detail. Each of the four commands that write `review-decision.json` is two actions: `Look...` reads
GitHub (and refuses what the code refuses there), `Write...` is the hold of `state_lock` that re-reads
what the code re-reads. `record_review` carries the operator's override over, `review` replaces the file,
`_update_approval_head` compares first, `merge authorize` joins. A detection is `Begin, List` (or
`NoList`), `Judge` once per merged pull request against the record of that moment, `Judged`, then `Bound`
and `Arm`, two holds of `state_lock` that both look at the baseline, and `Announce`; `Aborts` is a busy
lock or a failed write. The merges are listed once and may have grown since. `authorized`, `clean`,
`bypass` and `excused` are histories; `Excuse` names the three ways in which a merge that was covered may
still be reported: its record was rewritten after it, a packet dropped the override, or GitHub would not
say whether the merged head is a sync.

Left out: the cache of covered syncs (it remembers only positive answers about immutable commits), the
window of 500 merged pull requests, `--dry-run`, `merge authorize --sha`, verdicts pinned by
`--reviewed-head` to an older head, the voiding of a decision by `unescalate`, damaged files, the local
lane.

### 2.5 Supervisor (`fleet_dispatch.py`, `supervise_loop.py`, `wedge_watchdog.py`, `supervisor_lifecycle.py`, `fleet_stop.py`, `supervise.py`, `pending_sync.py`)

A *wrapper* spawns one child at a time, waits for it and relaunches it up to a bound; the scheduled task
starts the wrapper again whenever none runs. The child's `pc` goes through the boot (`Acquire`, the
boot's repair of a pending sync, `Inspect`, `RecordStarted`), the loop (`Beat, Poll, HonourStop,
HonourPause, DrainDone, Dispatch, Idle, Deploy, EndPass`) and the `finally` block in its order
(`ReleaseLock, RecordExit, ProcessEnds`). The watchdog is two steps, `Judge` and `Kill`, because it
condemns on what it has read and kills later. A child may crash or stall at every location. `hb` is the
heartbeat file with `since`, the wrappers whose current child has written to it, which is what the code
infers from comparing its time with the child's spawn. `Deploy` fast-forwards, and holds back a change of
the dependencies while workers live, up to the starvation bound; `MainMoves` is anybody's push to main.

Left out: diagnoses that only report (cap cause, wedge loop), KeyboardInterrupt, `--dry-run`, drift
alarms, the reap scheduler thread, the repair of the virtual environment's anchor, sibling checkouts.
What a pass does is one step.

### 2.6 Escalation (`escalation.py`, `labels.py`, `orchestration/misc_escalation.py`, `orchestration/state_mechanical.py`, `reconcile.py`)

One issue: its entry in `state.json` (the truth) and its labels on GitHub (what a person sees). Three
processes: the pass (reconcile's convergence, the de-escalation sweep, a rework lane, the label repair,
in that order), `charlie unescalate` and `charlie verdict`. Each reads the entry under the lock, talks to
GitHub without it, writes under a second hold and moves the labels after that, first the additions and
then each removal; every label write is an action of its own and may fail. Reconcile alone keeps the lock
over both. A verdict approves, requests changes, escalates when the cycles of changes (`cycles`) have
reached their cap, or blocks; a command may stop anywhere. `anew` is a history variable: whether a
verdict has escalated since the sweep read the entry.

Left out: plan-gate and blocked-by statuses, the rule of one active label, counters behind a lane's
decision, escalations without a pull request, the rescue tier of the review, labels of issues that are
closed.

### 2.7 StrandedWork (`dead_worker_sweep/`, `orphan_sweep.py`, `salvage_retry.py`, `pr_create_retry.py`, `worktree.py`)

What becomes of the commits of a dead worker. A branch is the set of its commits here and on origin;
inclusion is ancestry. The pass runs the dead-session lane (`create_pr_with_retry` with its prechecks),
then the orphan sweep in its two phases: triage, salvage push and probe without `state_lock`, then the
decision under it (redispatch up to its cap, timed reap, escalation). A dispatch, the pass's or the
operator's, recovers: claims one salvage slot, pushes, notes the outcome, and lets `create_worktree`
attach, capture to a rescue ref or reset. Pushes, probes, creates, captures and label writes may fail, a
create may have happened although it failed, and a process may be killed anywhere. A branch found up to
date leaves no event when the sweep pushes (`decide_pre.py`), so that an earlier timeout stays the newest
outcome, and counts as landed when a dispatch does.

Left out: an issue that has a pull request, the stalled lane, live handoff, uncommitted changes, foreign
pushes, throttle and no-op classifications, declared-blocked and scope escalations; the snapshot before a
reset is best effort in the code and succeeds here unless a fault is spent on it; the redispatch window
never elapses.

`*MC` modules only declare model values, symmetry and one state constraint. Operators commented as
mutants are plausible wrong versions of the definition they stand beside; no specification uses them.

## 3. Runs

| run | what it checks | bounds |
|---|---|---|
| `launch_safety` | `TypeOK`, `WindowExclusive`, `HolderTruthful`, `LaunchUnderPermit`, `BudgetKept` | two passes (remote rework with its two calls, local rework) in two repositories, three workers, cap 2, two requests a call; no pause or throttle (`MCQuiet`), one repository may retire |
| `launch_liveness` | `LockFreed`, `PauseQuiesces` | two passes of one repository, one ignoring the pause, one worker, pause and throttle at any time |
| `dispatch_two_passes` | `TypeOK`, `OneWorker`, `NoStrayWorker`, `LiveWorkKept` | two passes, both of which may die or give up on `state_lock` anywhere, one issue, two workers, an operator who claims and releases, no retry and no reap; 3.0 million states |
| `dispatch_liveness` | `RetriesCapped`, `OrphanRecovers` | two passes, one of which may die anywhere, one worker, one retry; 750,000 states |
| `dispatch_stale_claim` | refutes `GuardsPreventDouble` | two passes that do not die, two workers |
| `merge_self` | `TypeOK`, `StatusMergedIsTrue`, `RejectionStands`, `MergeWindow`, `AutomatedVerdictHonest` | three heads, two contents, two operator commands, fleet merges itself |
| `merge_queue` | `QueueRevoked`, `MergedSettles` | two heads, two contents, one `charlie verdict`, hand-off to a queue |
| `tripwire` | `TypeOK`, `CleanMergesQuiet`, `BypassAlarms` | one pull request of two heads, the supervised pass and one by hand, one writer with three commands; 570,000 states |
| `tripwire_authorization` | refutes `AuthorizationStands` | one pass, one writer with three commands |
| `supervisor_life` | `TypeOK`, `LockIsInside`, `HealthySpared`, `AskedOnce`, `Resupervised`, `RequestHonoured`, `Deployed` | the task's wrapper, one relaunch, every threshold one tick, two changes of main, one request, two faults; 360,000 states |
| `escalation` | `TypeOK`, `ClearsBounded`, `SweepSparesJudgment`, `RecurrenceSticks`, `ParkedIsShown` | one mechanical reason and the verdict's two, one automatic clear, no cycle of changes, one lane write, one unescalate, two verdicts, one failed label write or read; 2.1 million states |
| `stranded_work` | `TypeOK`, `WorkKept`, `TriesBounded`, `NoBlindRetry`, `Settles` | two commits, one salvage retry, one redispatch, one create retry, two faults, one crash, one dispatch by the operator; 1.8 million states |

Why these bounds are enough to be interesting: two passes are what it takes to interleave, and each
property is about at most two of them; a third worker is what exceeds a cap of two; two requests in two
calls are what exceeds a permit; three heads are the reviewed one, the one the pass saw and the one
GitHub has by now. One automatic clear, retry or relaunch is what can be exceeded by two; two faults are
what it takes for the handling of a failure to fail, and to exhaust a creation with one retry; two
commits make branch and origin diverge. With a cap of no cycle the first request of changes escalates
already: a larger cap only postpones it, and two verdicts with an unescalate between them are a
recurrence. The reap of an idle foreign writer is in no run's bounds but in the proofs of
`IssueDispatch`. In the tripwire, one writer's three commands are a verdict, an authorization and
whatever comes between them; the safety half was also checked once with two writers, three heads and one
pass (3.1 million states), and `Supervisor`'s with two wrappers meeting at the lock and the heartbeat
(3.5 million states), without an error. Every property has a mutant, a small plausible bug in one mapped
definition, that the same run refutes. Deadlock is checked everywhere.

**Fairness.** `FleetLaunch`: weak fairness of each pass's steps, since a live process goes on and the
acquisition has a timeout; nothing obliges a pass to start, crash, or an operator to act.
`IssueDispatch`: strong fairness of a running pass, since `state_lock` is polled by everyone and a waiter
gets its turn; weak fairness of time passing over an orphaned claim; strong fairness of reconcile's fix,
which a supervised pass retries again and again. `ReviewMerge`: weak fairness of the pass and of a
command already typed; strong fairness of starting a reconcile and of its two fixes, because the
supervisor runs them every full pass and a label write or a deferred fix that fails is retried.
`MergeTripwire`: weak fairness of the supervised pass's local steps, strong fairness of its list, its two
holds and its announcement: what fails in one pass does not fail in every one. `Supervisor`: weak
fairness of wrapper, child (unless stalled; nobody must recover), watchdog and clock, and of the end of a
worker; strong fairness of `Deploy`, which comes due pass after pass; the task starts its own wrapper.
`Escalation`: weak fairness of the pass, strong fairness of reconcile, whose cadence comes due again;
none of the commands, which may stop anywhere. `StrandedWork`: weak fairness of the pass and of a
dispatch the operator started, strong fairness of reconcile; nothing of the worker. Faults and crashes
are bounded rather than unfair: liveness says what happens once they stop. No fairness for workers (but
that `Supervisor`'s end), GitHub, the queue, pushes or the operator.

`Resupervised`, `RequestHonoured` and `Deployed` are conditional on nobody pausing the fleet for good,
and on `~Blind`: a child whose heartbeat already has its exit stamp and that then stalls is invisible to
the watchdog.

### What the violations say

Two disagreements are runs, with their quotations in `PROJECT.json`:

1. `dispatch_stale_claim`: `create_worktree` lets a launch into a worktree whose live worker is ours,
   relying on the dispatch guards, but those do not look at live workers of a claim that went stale. No
   pass has to die for it: one that gives up on `state_lock` at its record (`dispatch_state.py:1192`,
   caught at `reap_dispatch.py:569`) leaves its worker running under such a claim, reconcile drops the
   claim after half an hour, and the next pass launches a second worker.
2. `tripwire_authorization`: the packet builder writes its placeholder over the whole decision file when
   the verdict there is of an older head, and with it drops an operator's authorization of the live head.
   `merge_authorize` says only a new head invalidates it, and `record_review` was changed to preserve it;
   the merge so authorized is reported.

Counterexamples met while modelling that are not runs. The models contain these behaviours; where a
formula states what is broken it is named, and TLC refutes it on the instance given.

* With no fleet cap configured (`Locked = FALSE`) no lock spans filter and claim, and the claim does not
  re-check: two passes take one issue (`SoleClaimant` of `IssueDispatch`).
* The dispatch claim may overwrite an escalation made since the filter. `EscalationSticks` holds for one
  pass over two issues (`Issues = {i1, i2}`, `Slots = 2`, `Cap = 1`, no operator); the operator's own
  claim ignores the filter by design.
* The merge call names no head: what was pushed since the opening is merged on an older approval
  (`VerdictAuthorizes` of `ReviewMerge`, two heads). Carry-forward compares the diff of one head and may
  rebind the approval to another (`PatchMatchesHead`, three heads). With `--auto` in the merge flags
  enrolment is recorded as a merge (`StatusMergedIsTrue` with `AutoFlag`). A verdict may be recorded over
  an escalation, or after the merge.
* `ReleasedIsReleased` of `Escalation` (one lane write, no fault): an unescalate between the escalation's
  hold, or the repair's check, and their label write strips the parked labels before the late label
  arrives; nothing takes that one off, since reconcile's heal and a second unescalate pass over an issue
  that is not in the sink. It fails although every command runs to its end. `escalation.py:466-470` says
  the repair must not do this.
* `RecurrenceSticks` without its `anew` fails: an unescalate and a verdict at the cap of cycles between
  the sweep's read and its clear bring back the reason the entry was last cleared of, and the look the
  sweep takes under the lock is at status and class only (`state_mechanical.py:354-363`), so it clears
  what the comment at line 132 of that file says a human must.
* `Supervisor`: under the condition of `Deployed`, `[]<>(~sync.skew)` fails. A crash between a
  self-deploy's merge and the write of the marker leaves new code on old dependencies without a marker.
  The next boot's probe (`pending_sync.py:381-398`) repairs that, unless the probe fails or its sync does
  not converge; then nothing does until the next boot. `Deployed` says exactly this: packages stay behind
  for good only without a marker (`Unmarked`), and only such a death or such a boot makes them so.
* `StrandedWork`: (a) the lane's create of attempt 0 is sent on a list of pull requests cached before the
  lane's own work, so it may follow a pull request the pass has already opened; (b) when the recovery of
  a branch is lost the next launch starts from base and forks from its work on origin (the work is kept);
  (c) the sweep may open a pull request on a partly pushed branch and leave the entry passive; (d) the
  locked phase re-checks no more than the status `dispatched`; (e) with operator dispatches without end
  neither redispatch cap ever counts, hence `MaxCommands`.
* `MergeTripwire`: `tripwire_status` calls the recorded detections "the ones that are still pinning
  ok=False", but a finding that a later verdict, authorization or answered coverage check covers stays on
  record for good; an acknowledgement between `Bound` and `Announce` puts a closed finding back on
  record; `_announce_unauthorized_merges` promises not to crash a pass but does not catch
  `StateLockBusy`, as `_record_unauthorized_merge_skip` does; a failed save announces twice.

## 4. Proofs

All theorems hold for every value of the constants that satisfies the module's named assumption.

`FleetLaunchProofs` proves, for any number of repositories, passes, workers, any cap and any lane
assignment, under the one assumption `FleetAssumption` (finite set of workers, cap positive, the null
values are not members), the last two also for a finite registry:

| theorem | states |
|---|---|
| `Typing` | `Spec => []TypeOK` |
| `Exclusion` | `Spec => []WindowExclusive` |
| `HolderIsTruthful` | `Spec => []HolderTruthful` |
| `PermitIsABudget` | `Spec => []LaunchUnderPermit` |
| `Cap` | `Spec => []FleetCap` |
| `ImplementsBudget` | `Spec => BudgetKept`: the gate implements `FleetBudget` |
| `LockIsAccounted` | `IsFiniteSet(Repos) => (Spec => []LockAccounted)` |
| `HoldEnds` | `IsFiniteSet(Repos) => (Spec => HoldShrinks)` |

The argument. None of these is inductive alone. `LaunchInv` is the conjunction of: `Exclusive` (the
window, widened by the local lane's record step, is owned by the lock's holder), `Holders` (the sidecar
is written only inside it), `OnDisk` (who is on disk, in whose hands, and that a pass's own launches are
counted by a file), `Walked` (during the walk every visible worker of a repository already read has been
seen, and of one half read was seen or is recorded), `Covered` (after the walk everything visible was
seen or launched under this permit), `Fits` (what was seen plus the permit is within the cap) and `Spent`
(what was launched is within what the permit has been debited). `Walked` is the heart: the count is not
of one instant, yet it bounds the fleet because sidecars are read before `state.json`, a worker loses its
sidecar only once it is recorded, and nobody else launches. One lemma per conjunct (`...Step`) has one
step per action; `BudgetStep` maps every step to a join, a leave or a stutter of `FleetBudget`, and each
temporal theorem ends in a PTL step.

The last two are the safety core of `LockFreed`. `HoldLeft` ranks where a pass is by the steps it still
has to take before it has given the lock back: two for each repository left to walk and two for each
request of the calls it owes. It is zero exactly outside the window (`LockAccounted`: no gate, refusal or
exception leaves with the lock), at most `HoldMax`, and every step of the holder lowers it while nobody
else's changes it, its own death apart, which the OS answers by freeing the lock. What fairness adds is
only that the holder takes its steps.

Two modules prove the five safety properties the runs check of `ReviewMerge` and a sixth, for any number
of heads, contents and commands, with a merge queue or without, under `ReviewMergeAssumption` (the two
actors differ, at least one head, the null content is no content):

| module | theorem | states |
|---|---|---|
| `ReviewMergeProofs` | `Typing` | `Spec => []TypeOK` |
| | `RejectionStandsHolds` | `Spec => RejectionStands` |
| `ReviewMergeSafetyProofs` | `MergeWindowHolds` | `Spec => MergeWindow` |
| | `AutomatedVerdictHonestHolds` | `Spec => AutomatedVerdictHonest` |
| | `StatusMergedHolds` | `Spec => []StatusMergedIsTrue`, if `~ AutoFlag`: with `--auto` it is refuted |
| | `MergedForGoodHolds` | `Spec => MergedForGood` |

The arguments. `TypeOK` is not inductive: `_update_approval_head` copies the decision on file into an
absent status, and `pending` and `missing` are decisions but no statuses. `Decided` says why it never
copies those: past the admission a verdict is on file, and a `pending` one was stamped together with a
status. `RejectionStands` then needs only who writes the decision file (`VerdictWriters`) and the
comparison each restamp makes. `MergeWindow` follows from `WindowInv`: location by location, what a pass
relies on unless it is in `raced` (`Relies`): up to the branch gate the head it read is live and the copy
of the verdict approves; after the resync, the synced head; at the merge, the approval of the live head
and no escalation. The step proof has two halves: what `a` relies on where it arrives, and, once for all
actions (`OthersKeepWindow`), that the step was quiet for the other actor or overtook it.
`AutomatedVerdictHonest` follows from `Honest`: the packet's diff is of its head, or a later head exists
and the head check of whoever judges has seen it. `StatusMergedIsTrue` follows from `MergedInv`: whoever
is about to record a merge comes from one, and reconcile's reading of a merge cannot age. `MergedForGood`
is the safety half of `MergedSettles`, with `--auto` or without: once GitHub has merged, both statuses
say so and no pass is half way from a check made before (`Settled`), every step keeps it so. `Harmless`
names the places a pass may then be at: those from which nobody writes another status over `merged`.

`IssueDispatchProofs`, under `DispatchAssumption` and what the table names:

| theorem | states |
|---|---|
| `Typing` | `Spec => []TypeOK` |
| `SoleClaimantHolds` | `Locked => (Spec => []SoleClaimant)` |
| `RetriesCappedHolds` | `Locked => (Spec => []RetriesCapped)` |
| `OneWorkerHolds` | `Locked => (Spec => []OneWorker)` |
| `NoStrayWorkerHolds` | `Locked => (Spec => []NoStrayWorker)` |
| `LiveWorkKeptHolds` | `Locked => (Spec => LiveWorkKept)` |

Passes may die and give up on `state_lock` wherever they like. The fleet lock is needed: without it
`SoleClaimant` fails. The invariant has two layers. `ClaimsInv` adds to the types: `Busy` (a pass
that launches names the issue), `Held` (between permit and last launch a pass holds the fleet lock),
`Local` (a pass's batch, results and current issue agree with where it is), `Marked` (what a pass has
claimed is freshly claimed or escalated in `state.json`, so no filter lets it through), `Apart` (no other
pass holds or has filtered it) and `Within` with `RetriesCapped` (what a pass holds has retries left).
`IInv` adds, of all workers but the `lost`: `Placed` (a running worker is on record, or launched by a
pass yet to record it, or `Left` by its pass under a claim that is still fresh or an entry that is
escalated, with its sidecar) and `Quiet` (what a pass has filtered has no running worker). `Left` is what
carries the proof over an unrecorded launch: as long as the claim is fresh neither filter nor reclaim nor
another launch touches entry and sidecar (`LeftKept`), and the step that lets the claim go stale is the
one that puts the worker among the `lost`. The steps are split into what the pass does, what its end does
(`GoneEffect`) and what everybody else does.

`SupervisorProofs`, for any number of wrappers and faults, any relaunch bound and any `Grace <=
Threshold`:

| theorem | states | from |
|---|---|---|
| `Typing` | `[]TypeOK` | `Budgeted`: a wrapper about to spawn has a launch left |
| `LockIsInsideHolds` | `[]LockIsInside` | `Core` |
| `HealthySparedHolds` | `[]HealthySpared` | `Core == Waited /\ LockIsInside /\ Paced /\ HealthySpared` |
| `AskedOnceHolds` | `[]AskedOnce` | `Asked == Polled /\ AskedOnce`, and `LockIsInside`: only one child is inside |
| `SyncedAloneHolds` | `SyncedAlone` | `MergedAlone`: from merge to sync no worker lives |

`Paced` is the heart: a child that never stalled is within its grace window until its first beat, under
no heartbeat of its own that is older than itself, and within the threshold afterwards. `ChildSteps` says
once what any action of a child may do to the lock, the heartbeat and its own place (`ChildStep`); the
invariant is proved from that alone. `SyncedAlone` is of the venv all workers share: HEAD comes to need
other packages, they are synced and a held-back sync is settled only while no worker lives. The check for
workers and the sync are two steps, with crashes, boots and other wrappers in between; `MergedAlone`
holds over them because only a dispatch brings a worker to life and only the child inside dispatches.

`EscalationProofs`, for any reasons and bounds: `Typing`, `ClearsAreBounded` (`[]ClearsBounded`),
`JudgmentSpared` (`SweepSparesJudgment`), `RecurrenceIsKept` (`RecurrenceSticks`). `SweepInv == TypeOK /\
Targets /\ Counted /\ NoRecurrence`: the counter on the entry, and the sweep's copy of it, never fall
behind the clears, and the copy it goes on with is below the cap; while the sweep goes on the entry is no
recurrence, unless a verdict has made it one since (`anew`); no label transition leads into the sweep
(`Targets`).

`StrandedWorkProofs`, for any limits and bounds: `Typing`, `WorkKeptHolds` (`[]WorkKept`),
`TriesBoundedHolds` (`[]TriesBounded`), `NoBlindRetryHolds` (`NoBlindRetry`), `DispatchAloneHolds`
(`[]DispatchAlone`) and `LiveBranchOwnHolds` (`LiveBranchOwn`). Everything that touches the branch is one
of four `GitStep`s, each of which keeps what was made. The bound needs `OneDispatch` (one process at a
time dispatches the issue, since its claim takes the status the filter asks for) and `Spent` (an attempt
is on the entry before its push). `LostFound` says a create whose answer was lost is at the precheck that
finds its pull request. `LiveBranchOwn` says that while a worker lives nothing but its own commits
changes its local branch; it needs `HandsOff` (from its claim to the launch a dispatch holds the branch
of a dead worker, although it looks for a live one only before) and, for that, `DispatchAlone`: the other
process must not launch in between.

`MergeTripwireProofs`, for any number of pull requests, passes, writers, heads and commands: `Typing`,
`CleanMergesQuietHolds` (`[]CleanMergesQuiet`), `BypassNeverHistoryHolds` (`[]BypassNeverHistory`) and
`AlarmCarriedHolds` (`AlarmCarried`). `QuietInv` adds to the types: `Ordered` (no record and no command
is ahead of the branch, and a carry saw an approval of an older head than the one it carries to),
`Remembered` (an open pull request's record holds what the operator last authorized), `StaysCovered`
(what merged covered is covered still) and `Unfound` (no pass has it in hand), the last three up to
`excused`. `StaysCovered` is the heart: `WriteCovers` goes through the four writes, and the carry is the
case that needs `Ordered`, since it may only turn the cover of a queue sync into that of its head. The
last two are the safety core of `BypassAlarms`, from `AlarmInv`: a merge that bypassed the armed tripwire
is never exempt as history, since there is none before the arming (`ArmedFirst`) and only the first
arming writes what is exempt (`BaselineEffect`); and a pass that has one in hand keeps it until it is
announced, unless the pass fails, an operator acknowledges it or a record covers it.

**Only model-checked**: all liveness, since the prover has no `ENABLED`. Every safety property a passing
run checks is also a theorem. Of three liveness properties the part that needs no fairness is proved too:
the ranking under `LockFreed` (`HoldEnds`), the stability of what `MergedSettles` reaches
(`MergedForGoodHolds`), and that no alarm of `BypassAlarms` is lost on the way (`AlarmCarriedHolds`). The
theorems whose property no run lists (`SoleClaimant`, `LockAccounted`, `HoldShrinks`, `MergedForGood`,
`SyncedAlone`, `DispatchAlone`, `LiveBranchOwn`, `BypassNeverHistory`, `AlarmCarried`) state it in the
proof module or, for `SoleClaimant`, in the model.

## 5. Not modelled

`PROJECT.json` gives each component's reason. The large ones: the reviewer lane and rework dispatch as
processes of their own; the quota ledger; the state store itself (each hold of `state_lock` is one atomic
step; its timeout is an abort of its own where it leaves something half done: `StateBusy` and
`ClaimBusy` of `IssueDispatch`, the failed holds of `MergeTripwire`, commands of `Escalation` that stop);
the local lane, a second merge path over local branches;
the merge train's counters; janitor and CI gates, whose answers are free choices; main sync of other
checkouts; GitHub's transport with its budgets and caches; and everything that only reports, parses or
renders. Recursive or textual algorithms (blocker cycles, verdict parsing) have no state and are better
covered by tests.

## 6. Plan

1. **ReworkDispatch and the reviewer lane**: one process per role and issue, the superseded worker's reap
   with pid reuse.
2. **QuotaLedger** and harness blocks: monotone extension with and without the lock, the probe that
   clears a block.
3. **State lock and migration**, test slots, main sync.
4. **Local lane** as a second refinement of a merge gate (approve, move, merge) that `ReviewMerge`
   implements up to its races.
5. **Selection algorithms** as operators against reference definitions.
