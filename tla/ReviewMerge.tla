----------------------------- MODULE ReviewMerge -----------------------------
(***************************************************************************)
(* The life of one pull request between its review and its merge.          *)
(*                                                                         *)
(* The supervised pass (Loop) builds review packets, records the verdicts  *)
(* reviewers return, carries approvals over to heads with the same         *)
(* content, syncs the branch with its base, merges or hands the pull       *)
(* request to the merge queue, and reconciles.  The operator (Op) may type *)
(* `charlie verdict` and `charlie ship-it` at any moment: neither command  *)
(* takes the supervisor's lock.  Workers push, the merge queue syncs,      *)
(* drops and merges, and other lanes of the pass escalate.                 *)
(*                                                                         *)
(* A read of GitHub and a later use of what it returned are separate       *)
(* steps; each hold of state_lock is one step.  Only reconcile keeps       *)
(* state_lock over calls to GitHub, so Locked says who else must wait.     *)
(*                                                                         *)
(* Left out: `blocked` verdicts (a rejection that escalates), issue        *)
(* labels, the failed-attempt and requeue counters, queue_skip (a shortcut *)
(* of the same merge path), closed pull requests, unescalate, and pushes   *)
(* that return to an earlier commit.                                       *)
(***************************************************************************)
EXTENDS Integers, FiniteSets

CONSTANTS
    Loop,         \* the supervised pass
    Op,           \* the operator's shell
    MaxHead,      \* bound: heads the branch may have
    Diffs,        \* contents the pull request may have
    NoDiff,       \* none of them
    MaxCommands,  \* bound: commands the operator types
    Commands,     \* the commands typed: a subset of {"verdict", "ship"}
    Queue,        \* TRUE: a merge queue label is configured
    AutoFlag      \* TRUE: merge_flags holds --auto

ASSUME ReviewMergeAssumption ==
    /\ Loop # Op
    /\ NoDiff \notin Diffs
    /\ MaxHead \in Nat \ {0}
    /\ MaxCommands \in Nat
    /\ Commands \subseteq {"verdict", "ship"}
    /\ Queue \in BOOLEAN /\ AutoFlag \in BOOLEAN

Actors == {Loop, Op}
Heads  == 1 .. MaxHead

VARIABLES
    head,         \* the branch's live head
    diff,         \* diff[h]: the content of head h against its base
    parent,       \* parent[h]: the head a base sync made h from, 0 for a push
    merged,       \* the head GitHub merged, 0 while the pull request is open
    queued,       \* the merge queue label is on the pull request
    enrolled,     \* GitHub's own auto-merge is enabled
    verdict,      \* review-decision.json
    packet,       \* pr.json and diff.patch of the review packet
    prStatus,     \* state.json: prs[n].status
    issueStatus,  \* state.json: issues[n].status
    pc,           \* where each actor is
    mem,          \* what each actor has read
    commands,     \* commands the operator has typed
    raced         \* history: merge passes someone else has overtaken

github == <<head, diff, parent, merged, queued, enrolled>>
files  == <<verdict, packet>>
state  == <<prStatus, issueStatus>>
vars   == <<github, files, state, pc, mem, commands, raced>>

Decisions == {"missing", "pending", "approved", "request_changes"}
Verdicts  == [decision : Decisions, head : 0 .. MaxHead, diff : Diffs \cup {NoDiff}]
NoVerdict == [decision |-> "missing", head |-> 0, diff |-> NoDiff]
Packets   == [head : 0 .. MaxHead, diff : Diffs \cup {NoDiff}]
Memories  == [listed : 0 .. MaxHead, head : 0 .. MaxHead, synced : 0 .. MaxHead,
              verdict : Verdicts, labelled : BOOLEAN, flag : BOOLEAN]
Blank     == [listed |-> 0, head |-> 0, synced |-> 0, verdict |-> NoVerdict,
              labelled |-> FALSE, flag |-> FALSE]

MergePath == {"read", "carry", "restamp", "refetch", "stamp", "rereview",
              "branch", "verify", "resync", "ready", "rework", "merge", "handoff"}
Locations == MergePath \cup
             {"idle", "scan", "review", "fetch", "check", "commit", "reviewed",
              "judge", "record", "skip", "view", "mergerecord", "parked",
              "reconcile"}

Approved(h)  == verdict.decision = "approved" /\ verdict.head = h
Escalated    == "escalated" \in {prStatus, issueStatus}
Locked       == pc[Loop] = "reconcile"     \* reconcile holds state_lock
\* The merge passes of as under whose feet something changes are overtaken.
InPath(as)   == {a \in as : pc[a] \in MergePath}
Overtake(as) == raced' = raced \cup InPath(as)

\* a goes on to l, remembering m; a pass begins and ends without a history.
Move(a, l, m, overtaken) ==
    /\ pc' = [pc EXCEPT ![a] = l]
    /\ mem' = [mem EXCEPT ![a] = m]
    /\ raced' = (raced \ {b \in {a} : l \notin MergePath \ {"read"}}) \cup overtaken
Goto(a, l, m) == Move(a, l, m, {})
End(a)        == Goto(a, "idle", Blank)

\* The same for a step that overtakes the other actor's merge pass.
GotoAhead(a, l, m) == Move(a, l, m, InPath(Actors \ {a}))

Init ==
    /\ head = 1 /\ merged = 0 /\ queued = FALSE /\ enrolled = FALSE
    /\ \E d \in Diffs : diff = [h \in Heads |-> d]
    /\ parent = [h \in Heads |-> 0]
    /\ verdict = NoVerdict
    /\ packet = [head |-> 0, diff |-> NoDiff]
    /\ prStatus = "none" /\ issueStatus = "open"
    /\ pc = [a \in Actors |-> "idle"]
    /\ mem = [a \in Actors |-> Blank]
    /\ commands = 0
    /\ raced = {}

-----------------------------------------------------------------------------
\* The pass: list the open pull requests, look at this one, act on it.

List ==
    /\ pc[Loop] = "idle" /\ merged = 0
    /\ Goto(Loop, "scan", [Blank EXCEPT !.listed = head])
    /\ UNCHANGED <<github, files, state, commands>>

\* The decision file and the status are read now; the head is the listed one.
AlreadyApproved ==
    /\ verdict.decision = "approved"
    /\ prStatus \notin {"request_changes", "escalated"}

Scan ==
    /\ pc[Loop] = "scan"
    /\ LET listed == mem[Loop].listed
           fresh  == Approved(listed)
       IN \/ /\ AlreadyApproved \/ packet.head = listed
             /\ fresh
             /\ Goto(Loop, "skip", Blank)
          \/ /\ ~ AlreadyApproved /\ packet.head = listed /\ ~ fresh
             /\ End(Loop)
          \/ /\ AlreadyApproved /\ ~ fresh        \* merge only if not stale
             /\ Goto(Loop, "review", [mem[Loop] EXCEPT !.flag = TRUE])
          \/ /\ ~ AlreadyApproved /\ packet.head # listed
             /\ Goto(Loop, "review", mem[Loop])
          \/ /\ fresh                             \* not this pass's merge head
             /\ End(Loop)
    /\ UNCHANGED <<github, files, state, commands>>

\* review(): the pull request, then its diff, then the files, then the head again.
ReviewView ==
    /\ pc[Loop] = "review"
    /\ IF Escalated THEN End(Loop)
       ELSE Goto(Loop, "fetch", [mem[Loop] EXCEPT !.head = head])
    /\ UNCHANGED <<github, files, state, commands>>

ReviewFetch ==
    /\ pc[Loop] = "fetch"
    /\ packet' = [head |-> mem[Loop].head, diff |-> diff[head]]
    /\ Goto(Loop, "check", mem[Loop])
    /\ UNCHANGED <<github, verdict, state, commands>>

ReviewCheck ==
    /\ pc[Loop] = "check"
    /\ IF head # mem[Loop].head THEN End(Loop)
       ELSE Goto(Loop, "commit", mem[Loop])
    /\ UNCHANGED <<github, files, state, commands>>

\* A verdict pinned to another head is voided to pending at the packet's head.
Void(h) == \/ verdict.decision = "missing"
           \/ verdict.decision \in {"approved", "request_changes"} /\ verdict.head # h

ReviewCommit ==
    /\ pc[Loop] = "commit"
    /\ IF Void(mem[Loop].head)
       THEN /\ verdict' = [NoVerdict EXCEPT !.decision = "pending", !.head = mem[Loop].head]
            /\ GotoAhead(Loop, "reviewed", mem[Loop])
       ELSE /\ Goto(Loop, "reviewed", mem[Loop])
            /\ UNCHANGED verdict
    /\ prStatus' = "reviewing"
    /\ UNCHANGED <<github, packet, issueStatus, commands>>

\* Back in the pass: the decision is read again and may lead to the merge path.
Reviewed ==
    /\ pc[Loop] = "reviewed"
    /\ \/ /\ verdict.decision = "approved"
          /\ mem[Loop].flag => verdict.head = mem[Loop].listed
          /\ Goto(Loop, "skip", Blank)
       \/ End(Loop)
    /\ UNCHANGED <<github, files, state, commands>>

-----------------------------------------------------------------------------
\* record_review(): a reviewer's verdict reaped by the pass, or the operator's.

Type(command) == /\ command \in Commands /\ commands < MaxCommands
                 /\ pc[Op] = "idle"
                 /\ commands' = commands + 1

VerdictView(a) ==
    /\ pc[a] = "idle"
    /\ IF a = Op THEN Type("verdict") ELSE packet.head # 0 /\ UNCHANGED commands
    /\ merged = 0                     \* a merged pull request is refused
    /\ Goto(a, "judge", [Blank EXCEPT !.head = head])
    /\ UNCHANGED <<github, files, state>>

\* The escalation guard, then the head the verdict is about and its diff.  An
\* automated verdict is refused when the head has left its packet; the
\* operator may name the packet's head or the live one, whose diff is read now.
PackagedAtAnyHead(a) == packet.head # 0    \* Mutant: no check of the live head.
Packaged(a) == /\ packet.head # 0
               /\ a = Op \/ packet.head = mem[a].head
Subjects(a) ==
    {s \in {packet} : Packaged(a)} \cup
    {s \in {[head |-> mem[a].head, diff |-> diff[head]]} :
        a = Op /\ s.head # packet.head}

Judge(a) ==
    /\ pc[a] = "judge" /\ ~ Locked
    /\ ~ Escalated
    /\ \E s \in Subjects(a), d \in {"approved", "request_changes"} :
          Goto(a, "record", [Blank EXCEPT
              !.verdict = [decision |-> d, head |-> s.head, diff |-> s.diff]])
    /\ UNCHANGED <<github, files, state, commands>>

JudgeRefused(a) ==
    /\ pc[a] = "judge" /\ ~ Locked
    /\ Escalated \/ Subjects(a) = {}
    /\ End(a)
    /\ UNCHANGED <<github, files, state, commands>>

\* One hold of state_lock: the decision file, then both statuses.  A rejection
\* past the rework cap escalates.  Neither earlier guard is looked at again.
StatusesOfTheDecision(d) == {<<d, d>>}     \* Mutant: the issue gets the decision's name.
StatusesOf(d) ==
    IF d = "approved" THEN {<<"approved", "approved">>}
    ELSE {<<"request_changes", "rework_requested">>, <<"escalated", "escalated">>}

Record(a) ==
    /\ pc[a] = "record" /\ ~ Locked
    /\ verdict' = mem[a].verdict
    /\ \E s \in StatusesOf(mem[a].verdict.decision) :
          prStatus' = s[1] /\ issueStatus' = s[2]
    /\ GotoAhead(a, "idle", Blank)
    /\ UNCHANGED <<github, packet, commands>>

\* The process dies after the decision file and before state.json is saved.
RecordCrash(a) ==
    /\ pc[a] = "record" /\ ~ Locked
    /\ verdict' = mem[a].verdict
    /\ GotoAhead(a, "idle", Blank)
    /\ UNCHANGED <<github, packet, state, commands>>

-----------------------------------------------------------------------------
\* merge_ready(): skip, opening, admission.

Ship ==
    /\ Type("ship")
    /\ Goto(Op, "skip", Blank)
    /\ UNCHANGED <<github, files, state>>

\* A pull request already recorded as merged only has its issue converge.
\* flag: the entry was parked in the merge queue.
Skip(a) ==
    /\ pc[a] = "skip" /\ ~ Locked
    /\ IF prStatus = "merged"
       THEN issueStatus' = "merged" /\ End(a)
       ELSE /\ Goto(a, "view", [Blank EXCEPT !.flag = prStatus = "mergequeue"])
            /\ UNCHANGED issueStatus
    /\ UNCHANGED <<github, files, prStatus, commands>>

\* flag now: still parked.
View(a) ==
    /\ pc[a] = "view"
    /\ Goto(a, "read", [mem[a] EXCEPT !.head = head, !.labelled = queued,
                                      !.flag = @ /\ queued])
    /\ UNCHANGED <<github, files, state, commands>>

HeadNeverMoves(a) == FALSE                 \* Mutant: only the decision is compared.
HeadMoved(a) == mem[a].head # verdict.head

Read(a) ==
    /\ pc[a] = "read"
    /\ \/ /\ verdict.decision # "approved"
          /\ End(a)
       \/ /\ verdict.decision = "approved"
          /\ Goto(a, IF HeadMoved(a) THEN "carry" ELSE "branch",
                  [mem[a] EXCEPT !.verdict = verdict])
    /\ UNCHANGED <<github, files, state, commands>>

\* _check_carry_forward(): the live diff, whatever head it belongs to by now.
\* When it differs, the escalation flags decide about the re-review stamp.
Carry(a) ==
    /\ pc[a] = "carry" /\ ~ Locked
    /\ IF diff[head] = mem[a].verdict.diff
       THEN Goto(a, "restamp", mem[a])
       ELSE Goto(a, "rereview", [Blank EXCEPT !.flag = Escalated])
    /\ UNCHANGED <<github, files, state, commands>>

ReReview(a) ==
    /\ pc[a] = "rereview" /\ ~ Locked
    /\ prStatus' = IF mem[a].flag THEN prStatus ELSE "reviewing"
    /\ End(a)
    /\ UNCHANGED <<github, files, issueStatus, commands>>

\* _update_approval_head(): rebinds the verdict on file to new, unless the
\* decision or the head on file is no longer what the caller read.
Unchanged(seen, old) == verdict.decision = seen.decision /\ verdict.head = old
Rebind(new) ==
    /\ verdict' = [verdict EXCEPT !.head = new]
    /\ prStatus' = IF prStatus = "none" THEN verdict.decision ELSE prStatus

\* Mutant: the caller's copy is written back whatever the file holds.
RestampCopy(a) ==
    /\ pc[a] = "restamp" /\ ~ Locked
    /\ verdict' = [mem[a].verdict EXCEPT !.head = mem[a].head]
    /\ GotoAhead(a, "refetch", mem[a])
    /\ UNCHANGED <<github, packet, state, commands>>

Restamp(a) ==
    /\ pc[a] = "restamp" /\ ~ Locked
    /\ IF Unchanged(mem[a].verdict, mem[a].verdict.head)
       THEN /\ Rebind(mem[a].head)
            /\ GotoAhead(a, "refetch", mem[a])
       ELSE /\ End(a)
            /\ UNCHANGED <<verdict, prStatus>>
    /\ UNCHANGED <<github, packet, issueStatus, commands>>

\* The pull request and the verdict are fetched again, but the admission is
\* decided from the facts of the opening.
Refetch(a) ==
    /\ pc[a] = "refetch"
    /\ Goto(a, "stamp", [mem[a] EXCEPT !.head = head, !.verdict = verdict,
                                       !.labelled = queued])
    /\ UNCHANGED <<github, files, state, commands>>

Stamp(a) ==
    /\ pc[a] = "stamp" /\ ~ Locked
    /\ prStatus' = "approved"
    /\ Goto(a, "branch", mem[a])
    /\ UNCHANGED <<github, files, issueStatus, commands>>

-----------------------------------------------------------------------------
\* merge_ready(): branch sync, readiness, merge or hand-off.

\* GitHub merges the base into whatever the head is now.
SyncHead ==
    /\ head < MaxHead /\ merged = 0
    /\ head' = head + 1
    /\ diff' = [diff EXCEPT ![head + 1] = diff[head]]
    /\ parent' = [parent EXCEPT ![head + 1] = head]
    /\ UNCHANGED <<merged, queued, enrolled>>

NoSync(a) ==
    /\ pc[a] = "branch"
    /\ Goto(a, "ready", [Blank EXCEPT !.labelled = mem[a].labelled])
    /\ UNCHANGED <<github, files, state, commands>>

Sync(a) ==
    /\ pc[a] = "branch" /\ ~ mem[a].flag
    /\ SyncHead
    /\ GotoAhead(a, "verify", mem[a])
    /\ UNCHANGED <<files, state, commands>>

\* _verify_synced_head(): the new head must be a base sync of the old one.
SyncOf(new, old) == parent[new] = old
Verify(a) ==
    /\ pc[a] = "verify"
    /\ IF SyncOf(head, mem[a].head)
       THEN Goto(a, "resync", [mem[a] EXCEPT !.synced = head])
       ELSE Goto(a, "ready", [mem[a] EXCEPT !.flag = TRUE])     \* sync failed
    /\ UNCHANGED <<github, files, state, commands>>

ReSync(a) ==
    /\ pc[a] = "resync" /\ ~ Locked
    /\ IF Unchanged(mem[a].verdict, mem[a].head)
       THEN /\ Rebind(mem[a].synced)
            /\ GotoAhead(a, "ready", [Blank EXCEPT !.labelled = mem[a].labelled])
       ELSE /\ End(a)
            /\ UNCHANGED <<verdict, prStatus>>
    /\ UNCHANGED <<github, packet, issueStatus, commands>>

\* Checks, holds and conflicts are facts of GitHub: any outcome may be found.
\* The statuses are one snapshot.  Red checks leave an issue alone that is
\* already routed or escalated; a conflict (#776) does not.
\* flag: the branch sync failed, and the pull request cannot merge.
Ready(a) ==
    /\ pc[a] = "ready" /\ ~ Locked
    /\ \/ End(a)                                          \* held, or not ready
       \/ /\ \E conflict \in BOOLEAN :                      \* a conflict, or red checks
                conflict \/ issueStatus \notin {"rework_requested", "escalated"}
          /\ Goto(a, "rework", Blank)
       \/ /\ ~ Escalated /\ ~ mem[a].flag
          /\ Goto(a, IF Queue THEN "handoff" ELSE "merge",
                  [Blank EXCEPT !.labelled = mem[a].labelled])
    /\ UNCHANGED <<github, files, state, commands>>

Rework(a) ==
    /\ pc[a] = "rework" /\ ~ Locked
    /\ prStatus' = "rework_requested" /\ issueStatus' = "rework_requested"
    /\ End(a)
    /\ UNCHANGED <<github, files, commands>>

\* merge_pr() names no head.  With --auto it enables auto-merge and returns.
Merge(a) ==
    /\ pc[a] = "merge" /\ merged = 0
    /\ IF AutoFlag
       THEN enrolled' = TRUE /\ UNCHANGED <<merged, queued>>
       ELSE merged' = head /\ UNCHANGED <<queued, enrolled>>
    /\ Goto(a, "mergerecord", Blank)
    /\ UNCHANGED <<head, diff, parent, files, state, commands>>

\* Mutant: a failed merge is swallowed.
MergeFailsSilently(a) ==
    /\ pc[a] = "merge"
    /\ Goto(a, "mergerecord", Blank)
    /\ UNCHANGED <<github, files, state, commands>>

MergeFails(a) ==
    /\ pc[a] = "merge"
    /\ End(a)
    /\ UNCHANGED <<github, files, state, commands>>

MergeRecord(a) ==
    /\ pc[a] = "mergerecord" /\ ~ Locked
    /\ prStatus' = "merged" /\ issueStatus' = "merged"
    /\ End(a)
    /\ UNCHANGED <<github, files, commands>>

\* A label the opening saw is not posted again; a failed post ends the pass.
HandOff(a) ==
    /\ pc[a] = "handoff"
    /\ queued' = (queued \/ ~ mem[a].labelled)
    /\ Goto(a, "parked", Blank)
    /\ UNCHANGED <<head, diff, parent, merged, enrolled, files, state, commands>>

HandOffFails(a) ==
    /\ pc[a] = "handoff" /\ ~ mem[a].labelled
    /\ End(a)
    /\ UNCHANGED <<github, files, state, commands>>

Parked(a) ==
    /\ pc[a] = "parked" /\ ~ Locked
    /\ prStatus' = "mergequeue"
    /\ End(a)
    /\ UNCHANGED <<github, files, issueStatus, commands>>

-----------------------------------------------------------------------------
\* reconcile, which holds state_lock from its reads to its fixes.

ReconcileRead ==
    /\ pc[Loop] = "idle"
    /\ Goto(Loop, "reconcile", [Blank EXCEPT !.head = head, !.labelled = queued,
                                             !.flag = merged # 0])
    /\ UNCHANGED <<github, files, state, commands>>

\* Mutant: only what the queue had is looked at.
ReconcileFinalizeQueued ==
    /\ pc[Loop] = "reconcile" /\ mem[Loop].flag /\ prStatus \in {"approved", "mergequeue"}
    /\ prStatus' = "merged" /\ issueStatus' = "merged"
    /\ End(Loop)
    /\ UNCHANGED <<github, files, commands>>

\* merged_outside_orchestrator.
ReconcileFinalize ==
    /\ pc[Loop] = "reconcile" /\ mem[Loop].flag /\ prStatus # "merged"
    /\ prStatus' = "merged" /\ issueStatus' = "merged"
    /\ End(Loop)
    /\ UNCHANGED <<github, files, commands>>

\* Mutant: an approval of an earlier head keeps the label.
ReconcileRevokeRejected ==
    /\ pc[Loop] = "reconcile" /\ ~ mem[Loop].flag
    /\ mem[Loop].labelled /\ verdict.decision # "approved"
    /\ queued' = FALSE
    /\ End(Loop)
    /\ UNCHANGED <<head, diff, parent, merged, enrolled, files, state, commands>>

\* detect_mergequeue_not_approved, and the label comes off.
ReconcileRevoke ==
    /\ pc[Loop] = "reconcile" /\ ~ mem[Loop].flag
    /\ mem[Loop].labelled /\ ~ Approved(mem[Loop].head)
    /\ queued' = FALSE
    /\ End(Loop)
    /\ UNCHANGED <<head, diff, parent, merged, enrolled, files, state, commands>>

\* No drift, or its fix is deferred or fails.
ReconcileNothing ==
    /\ pc[Loop] = "reconcile"
    /\ End(Loop)
    /\ UNCHANGED <<github, files, state, commands>>

-----------------------------------------------------------------------------
\* The world.

\* A worker pushes to the branch.
Push ==
    /\ head < MaxHead /\ merged = 0
    /\ head' = head + 1
    /\ \E d \in Diffs : diff' = [diff EXCEPT ![head + 1] = d]
    /\ Overtake(Actors)
    /\ UNCHANGED <<parent, merged, queued, enrolled, files, state, pc, mem, commands>>

\* The merge queue brings a queued pull request up to date,
QueueSyncs ==
    /\ Queue /\ queued
    /\ SyncHead
    /\ Overtake(Actors)
    /\ UNCHANGED <<files, state, pc, mem, commands>>

\* merges it (so does GitHub once auto-merge is enabled),
GitHubMerges ==
    /\ merged = 0
    /\ queued \/ enrolled
    /\ merged' = head
    /\ UNCHANGED <<head, diff, parent, queued, enrolled, files, state, pc, mem, commands, raced>>

\* or takes it off the queue.
QueueDrops ==
    /\ Queue /\ queued /\ queued' = FALSE
    /\ UNCHANGED <<head, diff, parent, merged, enrolled, files, state, pc, mem, commands, raced>>

\* Another lane of the pass escalates the pull request and its issue.
Escalate ==
    /\ pc[Loop] = "idle" /\ prStatus # "merged"
    /\ prStatus' = "escalated" /\ issueStatus' = "escalated"
    /\ Overtake(Actors)
    /\ UNCHANGED <<github, files, pc, mem, commands>>

-----------------------------------------------------------------------------
MergeStep(a) ==
    \/ Skip(a) \/ View(a) \/ Read(a)
    \/ Carry(a) \/ Restamp(a) \/ Refetch(a) \/ Stamp(a) \/ ReReview(a)
    \/ NoSync(a) \/ Sync(a) \/ Verify(a) \/ ReSync(a)
    \/ Ready(a) \/ Rework(a)
    \/ Merge(a) \/ MergeFails(a) \/ MergeRecord(a)
    \/ HandOff(a) \/ HandOffFails(a) \/ Parked(a)

VerdictStep(a) == Judge(a) \/ JudgeRefused(a) \/ Record(a) \/ RecordCrash(a)

ReviewStep == \/ Scan \/ ReviewView \/ ReviewFetch \/ ReviewCheck
              \/ ReviewCommit \/ Reviewed

LoopStep == \/ List \/ ReviewStep \/ VerdictView(Loop)
            \/ VerdictStep(Loop) \/ MergeStep(Loop)
            \/ ReconcileRead \/ ReconcileFinalize \/ ReconcileRevoke \/ ReconcileNothing

OpStep == VerdictStep(Op) \/ MergeStep(Op)      \* a command already typed

World == Push \/ QueueSyncs \/ GitHubMerges \/ QueueDrops \/ Escalate

Next == LoopStep \/ OpStep \/ VerdictView(Op) \/ Ship \/ World

Spec == Init /\ [][Next]_vars

\* The supervisor starts pass after pass and reconciles again and again; a
\* command runs to its end; a label write or a deferred fix succeeds at last.
FairSpec == /\ Spec
            /\ WF_vars(LoopStep) /\ WF_vars(OpStep)
            /\ SF_vars(ReconcileRead)
            /\ SF_vars(ReconcileFinalize) /\ SF_vars(ReconcileRevoke)

-----------------------------------------------------------------------------
\* Properties.

\* Every variable keeps its shape.
TypeOK ==
    /\ head \in Heads /\ diff \in [Heads -> Diffs] /\ parent \in [Heads -> 0 .. MaxHead]
    /\ merged \in 0 .. MaxHead /\ queued \in BOOLEAN /\ enrolled \in BOOLEAN
    /\ verdict \in Verdicts /\ packet \in Packets
    /\ prStatus \in {"none", "reviewing", "approved", "request_changes",
                     "rework_requested", "mergequeue", "merged", "escalated"}
    /\ issueStatus \in {"open", "approved", "rework_requested", "merged", "escalated"}
    /\ pc \in [Actors -> Locations]
    /\ mem \in [Actors -> Memories]
    /\ commands \in 0 .. MaxCommands /\ raced \subseteq Actors

\* An approval comes onto the file only when somebody records it: no restamp
\* of a carried or synced head brings back one that a rejection replaced
\* (_update_approval_head's compare against the file, state_approval.py).
RejectionStands ==
    [][ (verdict.decision # "approved" /\ verdict'.decision = "approved")
          => \E a \in Actors : pc[a] = "record" /\ pc'[a] # "record" ]_vars

\* The fleet merges or queues a pull request whose head is not approved, or
\* that is escalated, only when a push, a verdict or an escalation overtook
\* that very pass (merge_ready's admission, branch gate and holds).
Acts(a)  == \/ pc[a] = "merge" /\ pc'[a] = "mergerecord"
            \/ pc[a] = "handoff" /\ ~ queued /\ queued'
MergeWindow ==
    [][ \A a \in Actors : Acts(a) /\ a \notin raced => Approved(head) /\ ~ Escalated ]_vars

\* What an automated verdict says of a head was read from that head's diff:
\* a packet built across a push is never judged (record_review's head check).
AutomatedVerdictHonest ==
    [][ (pc[Loop] = "record" /\ pc'[Loop] = "idle" /\ verdict' # verdict)
          => verdict'.diff = diff[verdict'.head] ]_vars

\* State says merged only of what GitHub merged: a hand-off records
\* "mergequeue" (_hand_off, _self_merge, apply_fixes).
StatusMergedIsTrue == "merged" \in {prStatus, issueStatus} => merged # 0

\* The queue label does not stay on a head without an approval
\* (detect_mergequeue_not_approved).
QueueRevoked ==
    (queued /\ ~ Approved(head) /\ merged = 0)
      ~> (~ queued \/ Approved(head) \/ merged # 0)

\* Once GitHub has merged, state settles on merged for good, whatever verdict,
\* hand-off or merge was under way (apply_fixes, merged_outside_orchestrator).
MergedSettles == merged # 0 ~> [](prStatus = "merged" /\ issueStatus = "merged")

\* "The recorded verdict is what authorizes a merge" (CONTEXT.md).
VerdictAuthorizes ==
    [][ \A a \in Actors :
          pc[a] = "merge" /\ pc'[a] = "mergerecord" => Approved(head) ]_vars

\* "reviewed_head_sha and the patch-id/content-signature fields always describe
\* the SAME head consistently" (_update_approval_head).
PatchMatchesHead == verdict.decision = "approved" => verdict.diff = diff[verdict.head]
=============================================================================
