-------------------------- MODULE ReviewMergeProofs --------------------------
(* Theorems about ReviewMerge, for every number of heads, contents and commands:
   type correctness, and that no restamp brings a rejected approval back.  The
   frame of a step and the writers of the decision file are used by
   ReviewMergeSafetyProofs too. *)
EXTENDS ReviewMerge, TLAPS

\* Type correctness in two parts: the actors' own variables and the others.
LocalOK == /\ pc \in [Actors -> Locations] /\ mem \in [Actors -> Memories]
           /\ raced \subseteq Actors
PrStatuses == {"none", "reviewing", "approved", "request_changes",
               "rework_requested", "mergequeue", "merged", "escalated"}
IssueStatuses == {"open", "approved", "rework_requested", "merged", "escalated"}
WorldOK == /\ head \in Heads /\ diff \in [Heads -> Diffs] /\ parent \in [Heads -> 0 .. MaxHead]
           /\ merged \in 0 .. MaxHead /\ queued \in BOOLEAN /\ enrolled \in BOOLEAN
           /\ verdict \in Verdicts /\ packet \in Packets
           /\ prStatus \in PrStatuses /\ issueStatus \in IssueStatuses
           /\ commands \in 0 .. MaxCommands

(* TypeOK is the conjunction of its two parts. *)
LEMMA TypeParts == (TypeOK <=> LocalOK /\ WorldOK) /\ (TypeOK <=> LocalOK /\ WorldOK)'
BY DEF TypeOK, LocalOK, WorldOK, PrStatuses, IssueStatuses

(* The fields of a verdict, and a restamp of one, are well typed. *)
LEMMA VerdictType ==
    /\ NoVerdict \in Verdicts
    /\ \A v \in Verdicts : /\ v.decision \in Decisions /\ v.head \in 0 .. MaxHead
                           /\ v.diff \in Diffs \cup {NoDiff}
                           /\ \A h \in 0 .. MaxHead : [v EXCEPT !.head = h] \in Verdicts
BY ReviewMergeAssumption DEF Verdicts, NoVerdict, Decisions

(* The fields of what an actor remembers are well typed. *)
LEMMA MemoryType ==
    /\ Blank \in Memories
    /\ \A m \in Memories :
          /\ m.listed \in 0 .. MaxHead /\ m.head \in 0 .. MaxHead /\ m.synced \in 0 .. MaxHead
          /\ m.verdict \in Verdicts /\ m.labelled \in BOOLEAN /\ m.flag \in BOOLEAN
BY ReviewMergeAssumption, VerdictType DEF Blank, Memories

(* Remembering one thing more keeps a memory a memory. *)
LEMMA MemoryExcept ==
    ASSUME NEW m \in Memories
    PROVE  /\ \A h \in 0 .. MaxHead : /\ [m EXCEPT !.listed = h] \in Memories
                                      /\ [m EXCEPT !.head = h] \in Memories
                                      /\ [m EXCEPT !.synced = h] \in Memories
           /\ \A v \in Verdicts : [m EXCEPT !.verdict = v] \in Memories
           /\ \A f \in BOOLEAN : /\ [m EXCEPT !.labelled = f] \in Memories
                                 /\ [m EXCEPT !.flag = f] \in Memories
BY DEF Memories

(* An actor that moves on keeps the actors' variables well typed. *)
LEMMA MoveType ==
    ASSUME LocalOK, NEW a \in Actors, NEW l \in Locations, NEW m \in Memories,
           NEW o \in SUBSET Actors, Move(a, l, m, o)
    PROVE  LocalOK'
BY DEF LocalOK, Move

\* What a step of a leaves of the other actor.
Others(a) == \A b \in Actors \ {a} :
                pc'[b] = pc[b] /\ mem'[b] = mem[b] /\ (b \in raced => b \in raced')

(* What a step of a does: a arrives, its history grows unless a new pass begins,
   whom it overtakes is overtaken, and the other actor is where it was. *)
LEMMA MoveFrame ==
    ASSUME TypeOK, NEW a \in Actors, NEW l, NEW m, NEW o, Move(a, l, m, o)
    PROVE  /\ pc'[a] = l /\ mem'[a] = m /\ Others(a) /\ o \subseteq raced'
           /\ l \in MergePath \ {"read"} /\ a \in raced => a \in raced'
BY DEF TypeOK, Move, Others

\* The statuses a restamp may copy from the decision file are statuses: past
\* the admission a verdict is on file, and a pending one has left its trace.
Carrying == {"carry", "restamp", "refetch", "stamp", "branch", "verify", "resync"}
Decided ==
    /\ prStatus = "none" => verdict.decision # "pending"
    /\ \A a \in Actors :
          /\ pc[a] = "record" => mem[a].verdict.decision \in {"approved", "request_changes"}
          /\ pc[a] \in Carrying => verdict.decision # "missing"

(* _update_approval_head() leaves a well typed decision and status. *)
LEMMA RebindType ==
    ASSUME TypeOK, Decided, verdict.decision # "missing", NEW h \in 0 .. MaxHead, Rebind(h)
    PROVE  verdict' \in Verdicts /\ prStatus' \in PrStatuses
BY VerdictType DEF TypeOK, Decided, Rebind, Decisions, PrStatuses

(* Every step keeps the actors' variables well typed. *)
LEMMA LocalStep == ASSUME TypeOK, [Next]_vars PROVE LocalOK'
<1>0. LocalOK
  BY TypeParts
<1>1. /\ Loop \in Actors /\ Op \in Actors /\ Blank \in Memories
      /\ \A a \in Actors : mem[a] \in Memories
  BY MemoryType DEF Actors, TypeOK
<1>2. head \in 0 .. MaxHead /\ verdict \in Verdicts /\ queued \in BOOLEAN
  BY ReviewMergeAssumption DEF TypeOK, Heads
<1>3. \A a \in Actors : InPath(Actors \ {a}) \in SUBSET Actors
  BY DEF InPath
<1> USE DEF Goto, End, GotoAhead, Locations, MergePath
<1>4. CASE List \/ Scan \/ ReviewView \/ ReviewFetch
  <2>1. /\ [Blank EXCEPT !.listed = head] \in Memories
        /\ [mem[Loop] EXCEPT !.flag = TRUE] \in Memories
        /\ [mem[Loop] EXCEPT !.head = head] \in Memories
    BY <1>1, <1>2, MemoryExcept
  <2>2. QED
    BY <1>0, <1>1, <1>4, <2>1, MoveType DEF List, Scan, ReviewView, ReviewFetch
<1>5. CASE ReviewCheck \/ ReviewCommit \/ Reviewed
  BY <1>0, <1>1, <1>3, <1>5, MoveType DEF ReviewCheck, ReviewCommit, Reviewed
<1>6. CASE ReconcileRead
  <2>1. [Blank EXCEPT !.head = head, !.labelled = queued, !.flag = merged # 0] \in Memories
    BY <1>1, <1>2, MemoryExcept
  <2>2. QED
    BY <1>0, <1>1, <1>6, <2>1, MoveType DEF ReconcileRead
<1>7. CASE ReconcileFinalize \/ ReconcileRevoke \/ ReconcileNothing
  BY <1>0, <1>1, <1>7, MoveType DEF ReconcileFinalize, ReconcileRevoke, ReconcileNothing
<1>8. ASSUME NEW a \in Actors, VerdictView(a) PROVE LocalOK'
  <2>1. [Blank EXCEPT !.head = head] \in Memories
    BY <1>1, <1>2, MemoryExcept
  <2>2. QED
    BY <1>0, <1>8, <2>1, MoveType DEF VerdictView
<1>9. ASSUME NEW a \in Actors, Judge(a) PROVE LocalOK'
  <2>1. PICK s \in Subjects(a), d \in {"approved", "request_changes"} :
          Goto(a, "record", [Blank EXCEPT
              !.verdict = [decision |-> d, head |-> s.head, diff |-> s.diff]])
    BY <1>9 DEF Judge
  <2>2. s.head \in 0 .. MaxHead /\ s.diff \in Diffs \cup {NoDiff}
    BY <1>1, MemoryType, ReviewMergeAssumption DEF Subjects, TypeOK, Packets, Heads
  <2>3. [decision |-> d, head |-> s.head, diff |-> s.diff] \in Verdicts
    BY <2>2 DEF Verdicts, Decisions
  <2>4. [Blank EXCEPT !.verdict = [decision |-> d, head |-> s.head, diff |-> s.diff]]
           \in Memories
    BY <1>1, <2>3, MemoryExcept
  <2>5. QED
    BY <1>0, <2>1, <2>4, MoveType
<1>10. ASSUME NEW a \in Actors, JudgeRefused(a) PROVE LocalOK'
  BY <1>0, <1>1, <1>10, MoveType DEF JudgeRefused
<1>11. ASSUME NEW a \in Actors, Record(a) \/ RecordCrash(a) PROVE LocalOK'
  BY <1>0, <1>1, <1>3, <1>11, MoveType DEF Record, RecordCrash
<1>12. CASE Ship
  BY <1>0, <1>1, <1>12, MoveType DEF Ship
<1>13. ASSUME NEW a \in Actors, Skip(a) PROVE LocalOK'
  <2>1. [Blank EXCEPT !.flag = prStatus = "mergequeue"] \in Memories
    BY <1>1, MemoryExcept
  <2>2. QED
    BY <1>0, <1>1, <1>13, <2>1, MoveType DEF Skip
<1>14. ASSUME NEW a \in Actors, View(a) PROVE LocalOK'
  <2>1. [mem[a] EXCEPT !.head = head, !.labelled = queued, !.flag = @ /\ queued] \in Memories
    BY <1>1, <1>2, MemoryType, MemoryExcept
  <2>2. QED
    BY <1>0, <1>14, <2>1, MoveType DEF View
<1>15. ASSUME NEW a \in Actors, Read(a) \/ Verify(a) PROVE LocalOK'
  <2>1. /\ [mem[a] EXCEPT !.verdict = verdict] \in Memories
        /\ [mem[a] EXCEPT !.synced = head] \in Memories
        /\ [mem[a] EXCEPT !.flag = TRUE] \in Memories
    BY <1>1, <1>2, MemoryExcept
  <2>2. QED
    BY <1>0, <1>1, <1>15, <2>1, MoveType DEF Read, Verify
<1>16. ASSUME NEW a \in Actors, Carry(a) PROVE LocalOK'
  <2>0. Escalated \in BOOLEAN
    BY DEF Escalated
  <2>1. [Blank EXCEPT !.flag = Escalated] \in Memories
    BY <1>1, <2>0, MemoryExcept
  <2>2. QED
    BY <1>0, <1>1, <1>16, <2>1, MoveType DEF Carry
<1>17. ASSUME NEW a \in Actors, Refetch(a) PROVE LocalOK'
  <2>1. [mem[a] EXCEPT !.head = head, !.verdict = verdict, !.labelled = queued] \in Memories
    BY <1>1, <1>2, MemoryExcept
  <2>2. QED
    BY <1>0, <1>17, <2>1, MoveType DEF Refetch
<1>18. ASSUME NEW a \in Actors, Restamp(a) \/ Stamp(a) \/ ReReview(a) \/ Sync(a) PROVE LocalOK'
  BY <1>0, <1>1, <1>3, <1>18, MoveType DEF Restamp, Stamp, ReReview, Sync
<1>19. ASSUME NEW a \in Actors, NoSync(a) \/ ReSync(a) \/ Ready(a) PROVE LocalOK'
  <2>1. [Blank EXCEPT !.labelled = mem[a].labelled] \in Memories
    BY <1>1, MemoryType, MemoryExcept
  <2>2. CASE NoSync(a)
    BY <1>0, <2>1, <2>2, MoveType DEF NoSync
  <2>3. CASE ReSync(a)
    BY <1>0, <1>1, <1>3, <2>1, <2>3, MoveType DEF ReSync
  <2>4. CASE Ready(a)
    BY <1>0, <1>1, <2>1, <2>4, MoveType DEF Ready
  <2>5. QED
    BY <1>19, <2>2, <2>3, <2>4
<1>20. ASSUME NEW a \in Actors, Rework(a) \/ Merge(a) \/ MergeFails(a) \/ MergeRecord(a)
       PROVE  LocalOK'
  BY <1>0, <1>1, <1>20, MoveType DEF Rework, Merge, MergeFails, MergeRecord
<1>21. ASSUME NEW a \in Actors, HandOff(a) \/ HandOffFails(a) \/ Parked(a) PROVE LocalOK'
  BY <1>0, <1>1, <1>21, MoveType DEF HandOff, HandOffFails, Parked
<1>22. CASE World \/ UNCHANGED vars
  BY <1>0, <1>22
  DEF World, Push, QueueSyncs, GitHubMerges, QueueDrops, Escalate, Overtake, InPath,
      vars, LocalOK
<1>23. QED
  BY <1>1, <1>4, <1>5, <1>6, <1>7, <1>8, <1>9, <1>10, <1>11, <1>12, <1>13, <1>14, <1>15,
     <1>16, <1>17, <1>18, <1>19, <1>20, <1>21, <1>22
  DEF Next, LoopStep, OpStep, ReviewStep, VerdictStep, MergeStep

(* Every step keeps GitHub, the files and state.json well typed. *)
LEMMA WorldStep == ASSUME TypeOK, Decided, [Next]_vars PROVE WorldOK'
<1>0. WorldOK
  BY TypeParts
<1>1. \A a \in Actors : mem[a] \in Memories
  BY DEF TypeOK
<1>2. Loop \in Actors /\ Op \in Actors /\ MaxHead \in Nat /\ MaxHead >= 1
  BY ReviewMergeAssumption DEF Actors
<1> USE DEF github, files, state
<1>3. CASE List \/ Scan \/ ReviewView \/ ReviewCheck \/ Reviewed \/ ReconcileRead
           \/ ReconcileNothing \/ UNCHANGED vars
  BY <1>0, <1>3
  DEF List, Scan, ReviewView, ReviewCheck, Reviewed, ReconcileRead, ReconcileNothing,
      vars, WorldOK
<1>4. ASSUME NEW a \in Actors, Judge(a) \/ JudgeRefused(a) \/ View(a) \/ Read(a)
                               \/ Carry(a) \/ Refetch(a) \/ NoSync(a) \/ Verify(a)
                               \/ Ready(a) \/ MergeFails(a) \/ HandOffFails(a)
      PROVE  WorldOK'
  BY <1>0, <1>4
  DEF Judge, JudgeRefused, View, Read, Carry, Refetch, NoSync, Verify, Ready, MergeFails,
      HandOffFails, WorldOK
<1>5. CASE ReviewFetch
  <2>1. packet' \in Packets
    BY <1>0, <1>1, <1>2, <1>5, MemoryType DEF ReviewFetch, WorldOK, Packets
  <2>2. QED
    BY <1>0, <1>5, <2>1 DEF ReviewFetch, WorldOK
<1>6. CASE ReviewCommit
  <2>1. [NoVerdict EXCEPT !.decision = "pending", !.head = mem[Loop].head] \in Verdicts
    BY <1>1, <1>2, MemoryType DEF NoVerdict, Verdicts, Decisions
  <2>2. QED
    BY <1>0, <1>6, <2>1 DEF ReviewCommit, WorldOK, PrStatuses
<1>7. ASSUME NEW a \in Actors, VerdictView(a) \/ (a = Op /\ Ship) PROVE WorldOK'
  <2>1. commands' \in 0 .. MaxCommands
    BY <1>0, <1>7, ReviewMergeAssumption DEF VerdictView, Ship, Type, WorldOK
  <2>2. QED
    BY <1>0, <1>7, <2>1 DEF VerdictView, Ship, WorldOK
<1>8. ASSUME NEW a \in Actors, Record(a) \/ RecordCrash(a) PROVE WorldOK'
  <2>1. verdict' \in Verdicts
    BY <1>1, <1>8, MemoryType DEF Record, RecordCrash
  <2>2. prStatus' \in PrStatuses /\ issueStatus' \in IssueStatuses
    <3>1. CASE Record(a)
      BY <3>1 DEF Record, StatusesOf, PrStatuses, IssueStatuses
    <3>2. CASE RecordCrash(a)
      BY <1>0, <3>2 DEF RecordCrash, WorldOK
    <3>3. QED
      BY <1>8, <3>1, <3>2
  <2>3. /\ UNCHANGED <<github, packet, commands>>
    BY <1>8 DEF Record, RecordCrash
  <2>4. QED
    BY <1>0, <2>1, <2>2, <2>3 DEF WorldOK
<1>9. ASSUME NEW a \in Actors, Skip(a) \/ Stamp(a) \/ ReReview(a) \/ Rework(a)
                               \/ MergeRecord(a) \/ Parked(a)
      PROVE  WorldOK'
  BY <1>0, <1>9
  DEF Skip, Stamp, ReReview, Rework, MergeRecord, Parked, WorldOK, PrStatuses, IssueStatuses
<1>10. ASSUME NEW a \in Actors, Restamp(a) \/ ReSync(a) PROVE WorldOK'
  <2>1. mem[a].head \in 0 .. MaxHead /\ mem[a].synced \in 0 .. MaxHead
    BY <1>1, MemoryType
  <2>2. verdict.decision # "missing"
    BY <1>10 DEF Restamp, ReSync, Decided, Carrying
  <2>3. verdict' \in Verdicts /\ prStatus' \in PrStatuses
    BY <1>0, <1>10, <2>1, <2>2, RebindType DEF Restamp, ReSync, WorldOK
  <2>4. QED
    BY <1>0, <1>10, <2>3 DEF Restamp, ReSync, WorldOK
<1>11. ASSUME NEW a \in Actors, Sync(a) PROVE WorldOK'
  BY <1>0, <1>2, <1>11 DEF Sync, SyncHead, WorldOK, Heads
<1>12. ASSUME NEW a \in Actors, Merge(a) \/ HandOff(a) PROVE WorldOK'
  <2>1. /\ merged' \in 0 .. MaxHead
        /\ UNCHANGED <<head, diff, parent, verdict, packet, prStatus, issueStatus, commands>>
    BY <1>0, <1>2, <1>12 DEF Merge, HandOff, WorldOK, Heads
  <2>2. queued' \in BOOLEAN /\ enrolled' \in BOOLEAN
    BY <1>0, <1>12 DEF Merge, HandOff, WorldOK
  <2>3. QED
    BY <1>0, <2>1, <2>2 DEF WorldOK
<1>13. CASE ReconcileFinalize \/ ReconcileRevoke
  BY <1>0, <1>13
  DEF ReconcileFinalize, ReconcileRevoke, WorldOK, PrStatuses, IssueStatuses
<1>14. CASE Push \/ QueueSyncs
  <2>1. CASE Push
    BY <1>0, <1>2, <2>1 DEF Push, WorldOK, Heads
  <2>2. CASE QueueSyncs
    BY <1>0, <1>2, <2>2 DEF QueueSyncs, SyncHead, WorldOK, Heads
  <2>3. QED
    BY <1>14, <2>1, <2>2
<1>15. CASE GitHubMerges \/ QueueDrops \/ Escalate
  <2>1. CASE GitHubMerges
    BY <1>0, <1>2, <2>1 DEF GitHubMerges, WorldOK, Heads
  <2>2. CASE QueueDrops
    BY <1>0, <2>2 DEF QueueDrops, WorldOK
  <2>3. CASE Escalate
    BY <1>0, <2>3 DEF Escalate, WorldOK, PrStatuses, IssueStatuses
  <2>4. QED
    BY <1>15, <2>1, <2>2, <2>3
<1>16. QED
  BY <1>2, <1>3, <1>4, <1>5, <1>6, <1>7, <1>8, <1>9, <1>10, <1>11, <1>12, <1>13, <1>14,
     <1>15
  DEF Next, LoopStep, OpStep, ReviewStep, VerdictStep, MergeStep, World

(* TypeOK is preserved, given Decided. *)
LEMMA TypeStep == ASSUME TypeOK, Decided, [Next]_vars PROVE TypeOK'
BY LocalStep, WorldStep, TypeParts

-----------------------------------------------------------------------------
(* A step that leaves the decision file alone and goes to no place Decided
   speaks of keeps Decided. *)
LEMMA DecidedElsewhere ==
    ASSUME Decided, NEW a \in Actors, Others(a), verdict' = verdict,
           prStatus' = prStatus \/ prStatus' # "none",
           pc'[a] \notin Carrying \cup {"record"}
    PROVE  Decided'
BY DEF Decided, Others, Carrying

(* So does one past the admission, whose verdict keeps its decision. *)
LEMMA DecidedCarrying ==
    ASSUME Decided, NEW a \in Actors, Others(a), verdict'.decision = verdict.decision,
           verdict.decision # "missing",
           prStatus' = prStatus \/ prStatus' # "none",
           pc'[a] # "record"
    PROVE  Decided'
BY DEF Decided, Others, Carrying

(* Decided is preserved: record_review() writes only decisions, a restamp keeps
   them, and a review's `pending` comes with the status it stamps. *)
LEMMA DecidedStep == ASSUME TypeOK, Decided, [Next]_vars PROVE Decided'
<1> USE DEF Goto, End, GotoAhead, files, state, Actors
<1>1. ASSUME List \/ Scan \/ ReviewView \/ ReviewFetch \/ ReviewCheck \/ Reviewed
      PROVE  Decided'
  BY <1>1, MoveFrame, DecidedElsewhere
  DEF List, Scan, ReviewView, ReviewFetch, ReviewCheck, Reviewed, Carrying
<1>2. ASSUME ReconcileRead \/ ReconcileFinalize \/ ReconcileRevoke \/ ReconcileNothing
      PROVE  Decided'
  BY <1>2, MoveFrame, DecidedElsewhere
  DEF ReconcileRead, ReconcileFinalize, ReconcileRevoke, ReconcileNothing, Carrying
<1>3. ASSUME NEW a \in Actors, Skip(a) \/ View(a) \/ ReReview(a) \/ NoSync(a)
      PROVE  Decided'
  BY <1>3, MoveFrame, DecidedElsewhere DEF Skip, View, ReReview, NoSync, Carrying
<1>4. ASSUME NEW a \in Actors, Ready(a) \/ Rework(a) \/ Merge(a) \/ MergeFails(a) \/ MergeRecord(a)
      PROVE  Decided'
  BY <1>4, MoveFrame, DecidedElsewhere
  DEF Ready, Rework, Merge, MergeFails, MergeRecord, Carrying
<1>5. ASSUME NEW a \in Actors, HandOff(a) \/ HandOffFails(a) \/ Parked(a)
      PROVE  Decided'
  BY <1>5, MoveFrame, DecidedElsewhere DEF HandOff, HandOffFails, Parked, Carrying
<1>6. ASSUME NEW a \in Actors, JudgeRefused(a) \/ VerdictView(a) \/ (a = Op /\ Ship)
      PROVE  Decided'
  BY <1>6, MoveFrame, DecidedElsewhere DEF JudgeRefused, VerdictView, Ship, Carrying
<1>7. ASSUME NEW a \in Actors, Read(a) \/ Carry(a) \/ Refetch(a) \/ Stamp(a)
      PROVE  Decided'
  <2>1. CASE Read(a) /\ verdict.decision # "approved"
    BY <2>1, MoveFrame, DecidedElsewhere DEF Read, Carrying
  <2>2. CASE Read(a) /\ verdict.decision = "approved"
    BY <2>2, MoveFrame, DecidedCarrying DEF Read
  <2>3. CASE Carry(a) \/ Refetch(a) \/ Stamp(a)
    <3>1. verdict.decision # "missing"
      BY <2>3 DEF Decided, Carry, Refetch, Stamp, Carrying
    <3>2. QED
      BY <2>3, <3>1, MoveFrame, DecidedCarrying DEF Carry, Refetch, Stamp
  <2>4. QED
    BY <1>7, <2>1, <2>2, <2>3
<1>8. ASSUME NEW a \in Actors, Sync(a) \/ Verify(a) \/ Restamp(a) \/ ReSync(a)
      PROVE  Decided'
  <2>1. verdict.decision # "missing"
    BY <1>8 DEF Decided, Sync, Verify, Restamp, ReSync, Carrying
  <2>2. /\ verdict'.decision = verdict.decision
        /\ prStatus' = prStatus \/ prStatus' # "none"
    BY <1>8, <2>1 DEF TypeOK, Verdicts, Decisions, Sync, Verify, Restamp, ReSync, Rebind
  <2>3. Others(a) /\ pc'[a] # "record"
    BY <1>8, MoveFrame DEF Sync, Verify, Restamp, ReSync
  <2>4. QED
    BY <2>1, <2>2, <2>3, DecidedCarrying
<1>9. CASE ReviewCommit
  <2>1. Others(Loop) /\ pc'[Loop] = "reviewed"
    BY <1>9, MoveFrame DEF ReviewCommit
  <2>2. \/ verdict' = verdict
        \/ verdict'.decision = "pending"
    BY <1>9 DEF ReviewCommit, NoVerdict
  <2>3. prStatus' = "reviewing"
    BY <1>9 DEF ReviewCommit
  <2>4. QED
    BY <2>1, <2>2, <2>3 DEF Decided, Others, Carrying
<1>10. ASSUME NEW a \in Actors, Judge(a) PROVE Decided'
  <2>1. PICK s \in Subjects(a), d \in {"approved", "request_changes"} :
          Goto(a, "record", [Blank EXCEPT
              !.verdict = [decision |-> d, head |-> s.head, diff |-> s.diff]])
    BY <1>10 DEF Judge
  <2>2. Others(a) /\ pc'[a] = "record" /\ mem'[a].verdict.decision = d
    BY <2>1, MoveFrame DEF Blank
  <2>3. verdict' = verdict /\ prStatus' = prStatus
    BY <1>10 DEF Judge
  <2>4. QED
    BY <2>2, <2>3 DEF Decided, Others, Carrying
<1>11. ASSUME NEW a \in Actors, Record(a) \/ RecordCrash(a) PROVE Decided'
  <2>1. Others(a) /\ pc'[a] = "idle"
    BY <1>11, MoveFrame DEF Record, RecordCrash
  <2>2. verdict'.decision \in {"approved", "request_changes"}
    BY <1>11 DEF Decided, Record, RecordCrash
  <2>3. QED
    BY <2>1, <2>2 DEF Decided, Others, Carrying
<1>12. CASE World
  BY <1>12 DEF World, Push, QueueSyncs, GitHubMerges, QueueDrops, Escalate, Decided
<1>13. CASE UNCHANGED vars
  BY <1>13 DEF vars, Decided
<1>14. QED
  BY <1>1, <1>2, <1>3, <1>4, <1>5, <1>6, <1>7, <1>8, <1>9, <1>10, <1>11, <1>12, <1>13
  DEF Next, LoopStep, OpStep, ReviewStep, VerdictStep, MergeStep

(* Both hold initially. *)
LEMMA TypeInit == Init => TypeOK /\ Decided
<1> SUFFICES ASSUME Init PROVE TypeOK /\ Decided
  OBVIOUS
<1>1. head \in Heads /\ diff \in [Heads -> Diffs] /\ parent \in [Heads -> 0 .. MaxHead]
  BY ReviewMergeAssumption DEF Init, Heads
<1>2. verdict \in Verdicts /\ packet \in Packets
  BY ReviewMergeAssumption, VerdictType DEF Init, Packets
<1>3. pc \in [Actors -> Locations] /\ mem \in [Actors -> Memories]
  BY MemoryType DEF Init, Locations
<1>4. merged \in 0 .. MaxHead /\ commands \in 0 .. MaxCommands
  BY ReviewMergeAssumption, SMT DEF Init
<1>5. queued \in BOOLEAN /\ enrolled \in BOOLEAN /\ raced \subseteq Actors
  BY Zenon DEF Init
<1>6. TypeOK
  BY <1>1, <1>2, <1>3, <1>4, <1>5 DEF Init, TypeOK
<1>7. Decided
  BY DEF Init, Decided, NoVerdict, Carrying
<1>8. QED
  BY <1>6, <1>7

(* ReviewMerge is type correct, for every number of heads, contents and commands. *)
THEOREM Typing == Spec => []TypeOK
<1>1. Init => TypeOK /\ Decided
  BY TypeInit
<1>2. TypeOK /\ Decided /\ [Next]_vars => (TypeOK /\ Decided)'
  BY TypeStep, DecidedStep
<1>3. QED
  BY <1>1, <1>2, PTL DEF Spec

(* The decision file is written by a review's commit, by the two restamps and by
   record_review() only. *)
LEMMA VerdictWriters ==
    ASSUME [Next]_vars
    PROVE  \/ verdict' = verdict
           \/ ReviewCommit
           \/ \E a \in Actors : Restamp(a) \/ ReSync(a) \/ Record(a) \/ RecordCrash(a)
<1> USE DEF files
<1>1. CASE World \/ UNCHANGED vars
  BY <1>1 DEF World, Push, QueueSyncs, GitHubMerges, QueueDrops, Escalate, vars
<1>2. ASSUME NEW a \in Actors, MergeStep(a), ~ Restamp(a), ~ ReSync(a)
      PROVE  verdict' = verdict
  BY <1>2 DEF MergeStep, Skip, View, Read, Carry, Refetch, Stamp, ReReview, NoSync, Sync,
     Verify, Ready, Rework, Merge, MergeFails, MergeRecord, HandOff, HandOffFails, Parked
<1>3. CASE ReviewStep /\ ~ ReviewCommit
  BY <1>3 DEF ReviewStep, Scan, ReviewView, ReviewFetch, ReviewCheck, Reviewed
<1>4. CASE List \/ Ship \/ ReconcileRead \/ ReconcileFinalize \/ ReconcileRevoke
           \/ ReconcileNothing
  BY <1>4 DEF List, Ship, ReconcileRead, ReconcileFinalize, ReconcileRevoke, ReconcileNothing
<1>5. ASSUME NEW a \in Actors, Judge(a) \/ JudgeRefused(a) \/ VerdictView(a)
      PROVE  verdict' = verdict
  BY <1>5 DEF Judge, JudgeRefused, VerdictView
<1>6. QED
  BY <1>1, <1>2, <1>3, <1>4, <1>5 DEF Next, LoopStep, OpStep, VerdictStep, Actors

(* Only somebody who records an approval makes the file one: the compare-and-set
   of _update_approval_head() never brings an approval back. *)
THEOREM RejectionStandsHolds == Spec => RejectionStands
<1>1. ASSUME TypeOK, [Next]_vars,
             verdict.decision # "approved", verdict'.decision = "approved"
      PROVE  \E a \in Actors : pc[a] = "record" /\ pc'[a] # "record"
  <2>1. CASE ReviewCommit
    BY <1>1, <2>1 DEF ReviewCommit, NoVerdict
  <2>2. ASSUME NEW a \in Actors, Restamp(a) \/ ReSync(a) PROVE FALSE
    BY <1>1, <2>2 DEF Restamp, ReSync, Rebind, TypeOK, Verdicts
  <2>3. ASSUME NEW a \in Actors, Record(a) \/ RecordCrash(a)
        PROVE  pc[a] = "record" /\ pc'[a] = "idle"
    BY <1>1, <2>3, MoveFrame DEF Record, RecordCrash, GotoAhead
  <2>4. QED
    BY <1>1, <2>1, <2>2, <2>3, VerdictWriters
<1>2. QED
  BY <1>1, Typing, PTL DEF Spec, RejectionStands
==============================================================================
