---------------------------- MODULE StrandedWork ----------------------------
(***************************************************************************)
(* What becomes of the commits of a worker that died.  One dispatched      *)
(* issue, its branch, and everybody who handles it:                        *)
(*                                                                         *)
(*   "pass"      the supervised pass: the dead-session lane, the orphan    *)
(*               sweep (a phase without state_lock, then one under it) and *)
(*               dispatch; it may be killed anywhere and starts again;     *)
(*   "operator"  charlie dispatch, the same dispatch steps at any time;    *)
(*   the worker  commits, pushes, opens its pull request, dies.            *)
(*                                                                         *)
(* A branch is the set of commits it holds, so inclusion is ancestry and   *)
(* two sets neither of which includes the other have diverged.  The        *)
(* redispatch window never elapses.  Left out: a pull request's own arm of *)
(* the sweep, uncommitted changes, the throttle and no-op classifications. *)
(* Bounds: MaxCommits, MaxFaults failed pushes, probes, creates, captures  *)
(* and label writes, MaxCrashes, MaxCommands of the operator.              *)
(***************************************************************************)
EXTENDS Naturals, FiniteSets

CONSTANTS Limit,       \* dispatch.salvage_push_retries
          MaxAuto,     \* watchdog.max_auto_redispatch
          MaxRetries,  \* create_pr_with_retry's max_retries
          MaxCommits, MaxFaults, MaxCrashes, MaxCommands

VARIABLES entry,    \* the issue's entry in state.json, and its newest salvage event
          label,    \* the issue's lifecycle label on GitHub
          pr,       \* whether its branch has an open pull request
          worker,   \* whether the worker lives, and whether its sidecar file is there
          git,      \* the branch here and on origin, the rescue refs, all commits made
          at,       \* where each process is
          sweep,    \* what the pass remembers
          job,      \* what each dispatch remembers
          tried,    \* salvage retries pushed since the count was last dropped
          spent     \* what is used up of each bound

vars == <<entry, label, pr, worker, git, at, sweep, job, tried, spent>>

\* The bounds are numbers.
ASSUME StrandedAssumption ==
  {Limit, MaxAuto, MaxRetries, MaxCommits, MaxFaults, MaxCrashes,
   MaxCommands} \subseteq Nat

Procs == {"pass", "operator"}
Commits == 1 .. MaxCommits
Unknown == 0                             \* a remote head the probe could not read
Heads == ((SUBSET Commits) \cup {{Unknown}}) \X SUBSET Commits
NoHead == <<{Unknown}, {Unknown}>>       \* no fingerprint stored yet
Outcomes == {"none", "landed", "up_to_date", "timeout", "other", "probe", "skip"}

Entry == [status : {"dispatched", "pending", "failed", "escalated", "passive"},
          armed : BOOLEAN, head : Heads \cup {NoHead}, deaths : Nat,
          counted : BOOLEAN, redispatches : Nat, failures : Nat, tries : Nat,
          newest : {"none", "landed", "timeout", "other"}]

Sweep == [listed : {"unread", "open", "none"}, by : {"lane", "sweep"},
          attempt : Nat, lost : BOOLEAN, label : {"unread", "active", "ready", "pr_open"},
          returned : BOOLEAN, event : Outcomes, head : Heads \cup {NoHead},
          candidate : BOOLEAN]
Job == [recover : BOOLEAN, slot : Nat, rework : BOOLEAN, out : Outcomes,
        result : {"none", "ok", "failed", "unsafe"}]

NoSweep == [listed |-> "unread", by |-> "lane", attempt |-> 0, lost |-> FALSE,
            label |-> "unread", returned |-> FALSE, event |-> "none",
            head |-> NoHead, candidate |-> FALSE]
NoJob == [recover |-> FALSE, slot |-> 0, rework |-> FALSE, out |-> "none",
          result |-> "none"]

Places == {"idle", "lane", "publish", "create", "precheck", "count", "relabel",
           "reconcile", "snap", "triage", "salvage", "probe", "lock",
           "filter", "slot", "push", "note", "place", "record"}

\* The entry, the branch and what each process holds of them are well formed.
TypeOK ==
  /\ entry \in Entry /\ label \in {"active", "ready", "pr_open"} /\ pr \in BOOLEAN
  /\ worker \in [alive : BOOLEAN, sidecar : BOOLEAN]
  /\ git \in [local : SUBSET Commits, origin : SUBSET Commits,
              rescued : SUBSET Commits, made : SUBSET Commits]
  /\ at \in [Procs -> Places] /\ sweep \in Sweep /\ job \in [Procs -> Job]
  /\ tried \in Nat /\ spent \in [fault : 0 .. MaxFaults, crash : 0 .. MaxCrashes,
                              command : 0 .. MaxCommands]

Init ==
  /\ entry = [status |-> "dispatched", armed |-> FALSE, head |-> NoHead,
              deaths |-> 0, counted |-> FALSE, redispatches |-> 0,
              failures |-> 0, tries |-> 0, newest |-> "none"]
  /\ label = "active" /\ pr = FALSE
  /\ worker = [alive |-> TRUE, sidecar |-> TRUE]
  /\ git = [local |-> {}, origin |-> {}, rescued |-> {}, made |-> {}]
  /\ at = [p \in Procs |-> "idle"]
  /\ sweep = NoSweep /\ job = [p \in Procs |-> NoJob]
  /\ tried = 0 /\ spent = [fault |-> 0, crash |-> 0, command |-> 0]

\* A call fails, is refused or loses its answer.
Fault == /\ spent.fault < MaxFaults
         /\ spent' = [spent EXCEPT !.fault = @ + 1]
NoFault == UNCHANGED spent

Goto(p, place) == at' = [at EXCEPT ![p] = place]
At(p, place) == at[p] = place

\* The sweep keeps state_lock over its whole second phase, the creates included.
LockFree == ~(at["pass"] \in {"create", "precheck"} /\ sweep.by = "sweep")

\* The lists of issues and of pull requests are cached for the length of a pass.
Listed == IF sweep.listed = "unread" THEN (IF pr THEN "open" ELSE "none")
                                     ELSE sweep.listed

ListedLabel == IF sweep.label = "unread" THEN label ELSE sweep.label

\* labels.active, in which the label of an open pull request is counted too.
Active == {"active", "pr_open"}

Relabelled(to) == \/ label' = to /\ NoFault
                  \/ UNCHANGED label /\ Fault

-----------------------------------------------------------------------------
(* The worker. *)

Commit ==
  LET c == Cardinality(git.made) + 1 IN
  /\ worker.alive /\ c \in Commits
  /\ git' = [git EXCEPT !.local = @ \cup {c}, !.made = @ \cup {c}]
  /\ UNCHANGED <<entry, label, pr, worker, at, sweep, job, tried, spent>>

Publish ==
  /\ worker.alive /\ git.origin \subseteq git.local /\ git.origin # git.local
  /\ git' = [git EXCEPT !.origin = git.local]
  /\ UNCHANGED <<entry, label, pr, worker, at, sweep, job, tried, spent>>

OpenPr ==
  /\ worker.alive /\ git.origin # {} /\ ~pr /\ pr' = TRUE
  /\ UNCHANGED <<entry, label, worker, git, at, sweep, job, tried, spent>>

Die ==
  /\ worker.alive /\ worker' = [worker EXCEPT !.alive = FALSE]
  /\ UNCHANGED <<entry, label, pr, git, at, sweep, job, tried, spent>>

-----------------------------------------------------------------------------
(* Pushing somebody else's branch: a plain push, so only a fast-forward.  A   *)
(* push that timed out may have landed all the same.                          *)

Stranded == git.origin \subseteq git.local /\ git.origin # git.local
Landing == git' = [git EXCEPT !.origin = git.local]

SalvagePush(out) ==
  \/ out = "skip" /\ (worker.alive \/ ~(git.origin \subseteq git.local) \/ git.local = {})
     /\ UNCHANGED git /\ NoFault
  \/ out = "up_to_date" /\ ~worker.alive /\ git.local = git.origin /\ git.local # {}
     /\ UNCHANGED git /\ NoFault
  \/ out = "landed" /\ ~worker.alive /\ Stranded /\ Landing /\ NoFault
  \/ out = "timeout" /\ ~worker.alive /\ Stranded /\ (Landing \/ UNCHANGED git) /\ Fault
  \/ out = "other" /\ ~worker.alive /\ Stranded /\ UNCHANGED git /\ Fault
  \/ out = "probe" /\ ~worker.alive /\ git.local # {} /\ UNCHANGED git /\ Fault

\* Mutant: whatever the push came to is recorded as its event.
NewestOfAny(out) == out

\* A skip, an unanswered probe and a branch found up to date leave no event: the
\* older outcome stays newest.
Newest(out) == IF out \in {"landed", "timeout", "other"} THEN out ELSE entry.newest

-----------------------------------------------------------------------------
(* The dead-session lane: it reaps the sidecar first, and handles the issue   *)
(* only when its cached list shows no pull request and the label is active.   *)

StartPass ==
  /\ At("pass", "idle") /\ Goto("pass", "lane")
  /\ UNCHANGED <<entry, label, pr, worker, git, sweep, job, tried, spent>>

Lane ==
  /\ At("pass", "lane")
  /\ IF worker.sidecar /\ ~worker.alive
       THEN /\ worker' = [worker EXCEPT !.sidecar = FALSE]
            /\ Goto("pass", IF Listed = "open" \/ label \notin Active THEN "reconcile"
                            ELSE IF git.local # {} THEN "publish" ELSE "count")
       ELSE UNCHANGED worker /\ Goto("pass", "reconcile")
  /\ sweep' = [sweep EXCEPT !.listed = Listed]
  /\ UNCHANGED <<entry, label, pr, git, job, tried, spent>>

\* _attempt_salvage pushes the branch, then opens its pull request.
LanePush ==
  /\ At("pass", "publish")
  /\ \/ git.origin \subseteq git.local /\ Landing /\ NoFault /\ Goto("pass", "create")
     \/ UNCHANGED git /\ Fault /\ Goto("pass", "count")
     \/ ~(git.origin \subseteq git.local) /\ UNCHANGED git /\ NoFault /\ Goto("pass", "count")
  /\ UNCHANGED <<entry, label, pr, worker, sweep, job, tried>>

\* The reclaim: count it and save, escalate beyond the cap, else back to ready.
Count ==
  /\ At("pass", "count") /\ LockFree
  /\ entry' = [entry EXCEPT !.redispatches = @ + 1,
                            !.status = IF entry.redispatches >= MaxAuto THEN "escalated" ELSE @]
  /\ Goto("pass", IF entry.redispatches >= MaxAuto THEN "reconcile" ELSE "relabel")
  /\ UNCHANGED <<label, pr, worker, git, sweep, job, tried, spent>>

Relabel ==
  /\ At("pass", "relabel") /\ Relabelled("ready") /\ Goto("pass", "reconcile")
  /\ UNCHANGED <<entry, pr, worker, git, sweep, job, tried>>

(* Reconcile, when its cadence is due: an active label without a pull request  *)
(* and without a live worker goes back to ready, whatever the status.          *)

ReconcileDue ==
  /\ At("pass", "reconcile") /\ Goto("pass", "snap")
  /\ IF label \in Active /\ ~pr /\ ~worker.alive THEN Relabelled("ready")
                                             ELSE UNCHANGED label /\ NoFault
  /\ UNCHANGED <<entry, pr, worker, git, sweep, job, tried>>

ReconcileNotDue ==
  /\ At("pass", "reconcile") /\ Goto("pass", "snap")
  /\ UNCHANGED <<entry, label, pr, worker, git, sweep, job, tried, spent>>

-----------------------------------------------------------------------------
(* create_pr_with_retry.  A create GitHub applied may lose its answer, and    *)
(* GitHub refuses a second pull request for a branch that has an open one.    *)

\* The lane leaves the status alone; the sweep's own entry turns passive.
Opened ==
  /\ Relabelled("pr_open")
  /\ entry' = IF sweep.by = "sweep"
                THEN [entry EXCEPT !.status = "passive", !.newest = Newest(sweep.event)]
                ELSE entry
  /\ Goto("pass", IF sweep.by = "sweep" THEN "filter" ELSE "reconcile")

\* A stranded branch arms the sweep's timer; the lane reclaims the issue instead.
GaveUp(s) ==
  /\ entry' = IF sweep.by = "sweep"
                THEN [entry EXCEPT !.armed = TRUE, !.newest = Newest(sweep.event)]
                ELSE entry
  /\ Goto("pass", IF sweep.by = "sweep" THEN "filter" ELSE "count")
  /\ sweep' = [s EXCEPT !.attempt = 0, !.lost = FALSE]
  /\ UNCHANGED label

NextAttempt(s) ==
  IF s.attempt < MaxRetries
    THEN /\ sweep' = [s EXCEPT !.attempt = @ + 1] /\ Goto("pass", "precheck")
         /\ UNCHANGED <<entry, label>>
    ELSE GaveUp(s)

Create ==
  /\ At("pass", "create")
  /\ \/ /\ ~pr /\ pr' = TRUE /\ Opened
        /\ sweep' = [sweep EXCEPT !.attempt = 0, !.lost = FALSE]
     \/ /\ ~pr /\ UNCHANGED pr /\ Fault /\ NextAttempt(sweep)
     \/ /\ ~pr /\ pr' = TRUE /\ Fault /\ NextAttempt([sweep EXCEPT !.lost = TRUE])
     \/ /\ pr /\ UNCHANGED pr /\ NoFault /\ NextAttempt(sweep)
  /\ UNCHANGED <<worker, git, job, tried>>

\* Mutant: a precheck that failed is taken for one that found nothing.
PrecheckOpen ==
  /\ At("pass", "precheck")
  /\ \/ /\ pr /\ Opened
        /\ sweep' = [sweep EXCEPT !.attempt = 0, !.lost = FALSE, !.listed = "open",
                              !.label = "unread"]
     \/ /\ ~pr /\ NoFault /\ Goto("pass", "create")
        /\ sweep' = [sweep EXCEPT !.listed = "none", !.label = "unread"]
        /\ UNCHANGED <<entry, label>>
     \/ /\ Fault /\ Goto("pass", "create") /\ UNCHANGED <<entry, label, sweep>>
  /\ UNCHANGED <<pr, worker, git, job, tried>>

\* Before a retry a fresh listing: adopt what it finds; what it cannot tell
\* consumes the attempt.
Precheck ==
  /\ At("pass", "precheck")
  /\ \/ /\ pr /\ Opened
        /\ sweep' = [sweep EXCEPT !.attempt = 0, !.lost = FALSE, !.listed = "open",
                              !.label = "unread"]
     \/ /\ ~pr /\ NoFault /\ Goto("pass", "create")
        /\ sweep' = [sweep EXCEPT !.listed = "none", !.label = "unread"]
        /\ UNCHANGED <<entry, label>>
     \/ /\ Fault /\ NextAttempt([sweep EXCEPT !.listed = "unread", !.label = "unread"])
  /\ UNCHANGED <<pr, worker, git, job, tried>>

-----------------------------------------------------------------------------
(* The orphan sweep.  Its first phase reads a snapshot and works without the  *)
(* lock; its second decides under it on what the first one saw, looking again *)
(* only at the status.                                                        *)

Snapshot ==
  /\ At("pass", "snap") /\ LockFree
  /\ Goto("pass", IF entry.status = "dispatched" /\ ~worker.alive THEN "triage" ELSE "filter")
  /\ UNCHANGED <<entry, label, pr, worker, git, sweep, job, tried, spent>>

\* A dead worker's issue without a pull request goes back to ready at once, even
\* if its branch turns out below to deserve a pull request.
Triage ==
  /\ At("pass", "triage") /\ Goto("pass", "salvage")
  /\ IF Listed = "none" /\ label \in Active
       THEN /\ Relabelled("ready")
            /\ sweep' = [sweep EXCEPT !.listed = Listed, !.label = label,
                                      !.returned = (label' = "ready")]
       ELSE /\ UNCHANGED label /\ NoFault
            /\ sweep' = [sweep EXCEPT !.listed = Listed, !.label = label]
  /\ UNCHANGED <<entry, pr, worker, git, job, tried>>

SweepPush ==
  /\ At("pass", "salvage") /\ Goto("pass", "probe")
  /\ \E out \in Outcomes \ {"none"} :
        SalvagePush(out) /\ sweep' = [sweep EXCEPT !.event = out]
  /\ UNCHANGED <<entry, label, pr, worker, job, tried>>

\* Commits on origin and no pull request: the branch deserves one.
Probe ==
  /\ At("pass", "probe") /\ Goto("pass", "lock")
  /\ \/ /\ NoFault
        /\ sweep' = [sweep EXCEPT !.head = <<git.origin, git.local>>,
                       !.candidate = (sweep.listed = "none" /\ git.origin # {})]
     \/ Fault /\ sweep' = [sweep EXCEPT !.head = <<{Unknown}, git.local>>]
  /\ UNCHANGED <<entry, label, pr, worker, git, job, tried>>

\* The redispatch cap of one entry: a moving head is progress, an unchanged one
\* counts each dispatch once.
Moved == entry.head # NoHead /\ sweep.head # entry.head
Deaths == IF Moved \/ entry.head = NoHead THEN 1
          ELSE IF entry.counted THEN entry.deaths ELSE entry.deaths + 1

\* The timed reap spares an issue that was ready and inactive before the triage.
ReapDue == entry.armed /\ ~(sweep.listed = "none" /\ sweep.label = "ready")

LockSkip ==
  /\ At("pass", "lock") /\ entry.status # "dispatched"
  /\ entry' = [entry EXCEPT !.newest = Newest(sweep.event)]
  /\ Goto("pass", "filter") /\ UNCHANGED sweep

LockReap ==
  /\ At("pass", "lock") /\ entry.status = "dispatched" /\ ReapDue
  /\ entry' = [entry EXCEPT !.newest = Newest(sweep.event), !.status = "escalated",
                            !.armed = FALSE]
  /\ Goto("pass", "filter") /\ UNCHANGED sweep

LockOpen ==
  /\ At("pass", "lock") /\ entry.status = "dispatched" /\ sweep.candidate
  /\ sweep' = [sweep EXCEPT !.by = "sweep"]
  /\ Goto("pass", "create") /\ UNCHANGED entry

LockCap ==
  /\ At("pass", "lock") /\ entry.status = "dispatched"
  /\ sweep.listed = "none" /\ ~sweep.candidate
  /\ IF Deaths > MaxAuto /\ ~Moved
       THEN entry' = [entry EXCEPT !.newest = Newest(sweep.event), !.status = "escalated",
                        !.head = sweep.head, !.deaths = Deaths, !.counted = FALSE,
                        !.armed = FALSE]
       ELSE entry' = [entry EXCEPT !.newest = Newest(sweep.event),
                        !.head = sweep.head, !.deaths = Deaths, !.counted = TRUE,
                        !.armed = @ \/ ~sweep.returned]
  /\ Goto("pass", "filter") /\ UNCHANGED sweep

\* The arm of a worker that has a pull request is not modelled.
LockWithPr ==
  /\ At("pass", "lock") /\ entry.status = "dispatched" /\ sweep.listed = "open"
  /\ entry' = [entry EXCEPT !.newest = Newest(sweep.event)]
  /\ Goto("pass", "filter") /\ UNCHANGED sweep

Lock ==
  /\ LockSkip \/ LockReap \/ LockOpen \/ LockCap \/ LockWithPr
  /\ UNCHANGED <<label, pr, worker, git, job, tried, spent>>

-----------------------------------------------------------------------------
(* Dispatch, the pass's own and the operator's.                               *)

StartOperator ==
  /\ At("operator", "idle") /\ Goto("operator", "filter")
  /\ spent.command < MaxCommands /\ spent' = [spent EXCEPT !.command = @ + 1]
  /\ UNCHANGED <<entry, label, pr, worker, git, sweep, job, tried>>

Dispatching(p) == at[p] \in {"slot", "push", "note", "place", "record"}

\* The lists a dispatch reads: the pass's are those cached since it began.
Offered(p) == IF p = "pass" THEN ListedLabel = "ready" /\ Listed = "none"
                            ELSE label = "ready" /\ ~pr

\* Mutant: a claim is never taken over.
ClaimableOnce(p) ==
  Offered(p) /\ ~worker.alive /\ entry.status \in {"dispatched", "failed"}

\* Ready, no pull request, no live worker, nobody else's fresh claim.
Claimable(p) ==
  /\ Offered(p) /\ ~worker.alive
  /\ \/ entry.status \in {"dispatched", "failed"}
     \/ entry.status = "pending" /\ \A q \in Procs : ~Dispatching(q)

\* Claimed under the lock; a dead dispatch is recovered rather than begun afresh.
Claim(p) ==
  /\ At(p, "filter") /\ LockFree
  /\ IF Claimable(p)
       THEN /\ entry' = [entry EXCEPT !.status = "pending", !.armed = FALSE]
            /\ job' = [job EXCEPT ![p] = [NoJob EXCEPT !.recover = entry.status = "dispatched"]]
            /\ Goto(p, "slot")
       ELSE Goto(p, "idle") /\ UNCHANGED <<entry, job>>
  /\ sweep' = IF p = "pass" THEN NoSweep ELSE sweep  \* its last use in a pass
  /\ UNCHANGED <<label, pr, worker, git, tried, spent>>

\* Mutant: the attempt is counted with its outcome, not before the push.
UnspentSlot(p) ==
  /\ job' = [job EXCEPT ![p].slot = entry.tries + 1] /\ UNCHANGED entry

\* An attempt is spent before its push, so that one that dies in it has spent it.
SpendSlot(p) ==
  /\ job' = [job EXCEPT ![p].slot = entry.tries + 1]
  /\ entry' = [entry EXCEPT !.tries = @ + 1]

\* One push is retried per launch, while a timeout is the newest outcome.
ClaimSlot(p) ==
  /\ At(p, "slot") /\ LockFree
  /\ IF entry.newest = "timeout" /\ entry.tries < Limit
       THEN SpendSlot(p) /\ Goto(p, "push")
       ELSE UNCHANGED <<entry, job>> /\ Goto(p, "place")
  /\ UNCHANGED <<label, pr, worker, git, sweep, tried, spent>>

\* landed_on_origin: to the retry, unlike to the sweep, work it finds on origin
\* has landed.
RetryPush(p) ==
  /\ At(p, "push") /\ Goto(p, "note")
  /\ \E out \in Outcomes \ {"none"} :
        /\ SalvagePush(out)
        /\ job' = [job EXCEPT ![p].out = IF out = "up_to_date" THEN "landed" ELSE out]
  /\ tried' = tried + 1
  /\ UNCHANGED <<entry, label, pr, worker, sweep>>

\* Landed drops the count; what may still land defers the launch while attempts
\* are left; anything else goes on to the guards.
Note(p) ==
  LET out == job[p].out
      later == out \in {"timeout", "probe"} /\ job[p].slot < Limit
  IN
  /\ At(p, "note") /\ LockFree
  /\ entry' = [entry EXCEPT !.newest = Newest(out), !.tries = IF out = "landed" THEN 0 ELSE @]
  /\ tried' = IF out = "landed" THEN 0 ELSE tried
  /\ job' = [job EXCEPT ![p].rework = (out = "landed" /\ ~job[p].recover),
                        ![p].result = IF later THEN "failed" ELSE @]
  /\ Goto(p, IF later THEN "record" ELSE "place")
  /\ UNCHANGED <<label, pr, worker, git, sweep, spent>>

-----------------------------------------------------------------------------
(* create_worktree, and the launch in it.                                     *)

\* Mutant: a branch that was ever pushed is taken to be safe.
UnsafeUnlessPushed == git.origin = {} /\ git.local # {}

\* Commits that are on origin nowhere keep a branch from being reset.
Unsafe == ~(git.local \subseteq git.origin)

Ends(p, result) == job' = [job EXCEPT ![p].result = result]
Launched(p) == Ends(p, "ok") /\ worker' = [alive |-> TRUE, sidecar |-> TRUE]

\* Recovery attaches to what is on origin, and so does a salvage that landed.
Attaches(p) == IF job[p].recover THEN git.origin # {} /\ git.local # {}
                                 ELSE job[p].rework

\* Ahead stays, behind follows, diverged is snapshot and set to origin.
Attach(p) ==
  /\ Attaches(p) /\ Launched(p) /\ NoFault
  /\ git' = IF git.origin \subseteq git.local THEN git
            ELSE [git EXCEPT !.local = git.origin,
                    !.rescued = IF git.local \subseteq git.origin THEN @ ELSE @ \cup git.local]

\* A branch begun afresh: local work is captured first, or the reset refused.
Reset(p) ==
  /\ ~Attaches(p)
  /\ \/ /\ Launched(p) /\ NoFault
        /\ git' = [git EXCEPT !.local = {},
                     !.rescued = IF Unsafe THEN @ \cup git.local ELSE @]
     \/ Unsafe /\ Ends(p, "unsafe") /\ Fault /\ UNCHANGED <<git, worker>>

\* A probe, a fetch or the launch itself fails.
Fails(p) == Ends(p, "failed") /\ Fault /\ UNCHANGED <<git, worker>>

Place(p) ==
  /\ At(p, "place") /\ Goto(p, "record")
  /\ Attach(p) \/ Reset(p) \/ Fails(p)
  /\ UNCHANGED <<entry, label, pr, sweep, tried>>

\* The result under the lock, and the label of a launch right after it.
Record(p) ==
  /\ At(p, "record") /\ LockFree /\ Goto(p, "idle")
  /\ job' = [job EXCEPT ![p] = NoJob]
  /\ \/ /\ job[p].result = "ok" /\ Relabelled("active")
        /\ entry' = [entry EXCEPT !.status = "dispatched", !.counted = FALSE,
                                  !.armed = FALSE, !.failures = 0]
     \/ /\ job[p].result = "unsafe" /\ UNCHANGED label /\ NoFault
        /\ entry' = [entry EXCEPT !.status = "escalated", !.failures = @ + 1]
     \/ /\ job[p].result = "failed" /\ UNCHANGED label /\ NoFault
        /\ entry' = [entry EXCEPT !.failures = @ + 1,
                       !.status = IF entry.failures >= MaxAuto THEN "escalated" ELSE "failed"]
  /\ UNCHANGED <<pr, worker, git, sweep, tried>>

\* Killed: what it held is gone, the lock is free, the entry is as last saved.
Crash(p) ==
  /\ at[p] # "idle" /\ spent.crash < MaxCrashes
  /\ spent' = [spent EXCEPT !.crash = @ + 1]
  /\ Goto(p, "idle") /\ job' = [job EXCEPT ![p] = NoJob]
  /\ sweep' = IF p = "pass" THEN NoSweep ELSE sweep
  /\ UNCHANGED <<entry, label, pr, worker, git, tried>>

-----------------------------------------------------------------------------

Worker == Commit \/ Publish \/ OpenPr \/ Die
Dispatch(p) == Claim(p) \/ ClaimSlot(p) \/ RetryPush(p) \/ Note(p) \/ Place(p) \/ Record(p)
Pass == StartPass \/ Lane \/ LanePush \/ Count \/ Relabel \/ Create \/ Precheck
        \/ ReconcileDue \/ ReconcileNotDue \/ Snapshot \/ Triage \/ SweepPush \/ Probe
        \/ Lock \/ Dispatch("pass")

Next == Worker \/ Pass \/ StartOperator \/ Dispatch("operator") \/ \E p \in Procs : Crash(p)

Spec == Init /\ [][Next]_vars

\* The supervisor starts pass after pass and none stops by itself, nor does a
\* dispatch the operator started; reconcile's cadence comes due again and again.
\* Nothing is asked of the worker.
FairSpec == Spec /\ WF_vars(Pass) /\ SF_vars(ReconcileDue) /\ WF_vars(Dispatch("operator"))

-----------------------------------------------------------------------------

\* No commit a worker ever made is lost, whatever pass, operator and crash do
\* between its death and the next launch: it is on the branch, on origin or on a
\* rescue ref (salvage pushes, the guards of create_worktree).
WorkKept == git.made \subseteq git.local \cup git.origin \cup git.rescued

\* No more salvage pushes are retried than salvage_push_retries allows until one
\* lands, though the pass may die between the push and its bookkeeping.
TriesBounded == tried <= Limit

\* create_pr_with_retry never sends a second create after one of its own that
\* GitHub applied with the answer lost (the duplicate-PR guard of cw#1273).
NoBlindRetry == [][At("pass", "create") /\ sweep.attempt > 0 /\ Create => ~sweep.lost]_vars

\* An issue whose workers die, whose pushes, probes, creates and label writes
\* fail and whose passes are killed, each so many times, ends with a pull request,
\* in an operator's hands or with a worker at work: it is not dropped.
Settles == <>[](worker.alive \/ pr \/ entry.status = "escalated")
=============================================================================
