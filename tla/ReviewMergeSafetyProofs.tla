----------------------- MODULE ReviewMergeSafetyProofs -----------------------
(* The safety of a merge and of its records, for every number of heads, contents
   and commands, with a merge queue or without.  What the admission of
   merge_ready() established still holds at its merge, unless somebody overtook the
   pass; an automated verdict is of the diff of its head; and, without --auto, the
   status merged is of what GitHub has merged. *)
EXTENDS ReviewMergeProofs

------------------------------------------------------------------------------
(* The merge window. *)

(* What a pass nobody has overtaken may rely on, location by location: what it
   read is still so, the approval is of the live head, nothing is escalated. *)
Relies(a) ==
    /\ pc[a] \in {"read", "carry", "restamp", "stamp", "branch"} => mem[a].head = head
    /\ pc[a] \in {"carry", "restamp", "stamp", "branch", "verify", "resync"}
          => mem[a].verdict.decision = "approved"
    /\ pc[a] \in {"refetch", "stamp", "branch"} => Approved(head)
    /\ pc[a] = "resync" => mem[a].synced = head
    /\ pc[a] = "ready" => mem[a].flag \/ Approved(head)
    /\ pc[a] \in {"merge", "handoff"} => Approved(head) /\ ~ Escalated
Relied == {"read", "carry", "restamp", "refetch", "stamp", "branch", "verify",
           "resync", "ready", "merge", "handoff"}
WindowInv == \A a \in Actors : a \in raced \/ Relies(a)

\* A step that moves neither the head nor the verdict and escalates nothing.
Quiet == head' = head /\ verdict' = verdict /\ (Escalated' => Escalated)

(* A quiet step of a, or one that overtakes the other actor, keeps what the other
   actor's pass relies on. *)
LEMMA OthersKeepWindow ==
    ASSUME WindowInv, NEW a \in Actors, Others(a),
           Quiet \/ InPath(Actors \ {a}) \subseteq raced'
    PROVE  \A b \in Actors \ {a} : b \in raced' \/ Relies(b)'
<1> SUFFICES ASSUME NEW b \in Actors \ {a}, b \notin raced' PROVE Relies(b)'
  OBVIOUS
<1>1. pc'[b] = pc[b] /\ mem'[b] = mem[b] /\ Relies(b)
  BY DEF WindowInv, Others
<1>2. CASE Quiet
  BY <1>1, <1>2 DEF Quiet, Relies, Approved
<1>3. CASE pc[b] \notin MergePath
  BY <1>1, <1>3 DEF Relies, MergePath
<1>4. QED
  BY <1>2, <1>3 DEF InPath

(* So WindowInv is kept if what a relies on holds where a arrives. *)
LEMMA WindowKept ==
    ASSUME WindowInv, NEW a \in Actors, Others(a),
           Quiet \/ InPath(Actors \ {a}) \subseteq raced',
           pc'[a] \in Relied => a \in raced' \/ Relies(a)'
    PROVE  WindowInv'
<1>1. a \in raced' \/ Relies(a)'
  BY DEF Relies, Relied
<1>2. QED
  BY <1>1, OthersKeepWindow DEF WindowInv

(* WindowInv is preserved by every step of merge_ready(), of record_review(), of
   reconcile, and of the world. *)
LEMMA WindowStep == ASSUME TypeOK, WindowInv, [Next]_vars PROVE WindowInv'
<1> USE DEF Goto, End, GotoAhead, github, files, state, Actors
<1>1. ASSUME List \/ Scan \/ ReviewView \/ ReviewFetch \/ ReviewCheck \/ Reviewed
      PROVE  WindowInv'
  BY <1>1, MoveFrame, WindowKept
  DEF List, Scan, ReviewView, ReviewFetch, ReviewCheck, Reviewed, Relied, Quiet, Escalated
<1>2. ASSUME ReconcileRead \/ ReconcileFinalize \/ ReconcileRevoke \/ ReconcileNothing
      PROVE  WindowInv'
  BY <1>2, MoveFrame, WindowKept
  DEF ReconcileRead, ReconcileFinalize, ReconcileRevoke, ReconcileNothing, Relied,
      Quiet, Escalated
<1>3. ASSUME NEW a \in Actors, Skip(a) \/ ReReview(a) PROVE WindowInv'
  BY <1>3, MoveFrame, WindowKept DEF Skip, ReReview, Relied, Quiet, Escalated
<1>4. ASSUME NEW a \in Actors, Rework(a) \/ Merge(a) \/ MergeFails(a) \/ MergeRecord(a)
      PROVE  WindowInv'
  BY <1>4, MoveFrame, WindowKept
  DEF Rework, Merge, MergeFails, MergeRecord, Relied, Quiet, Escalated
<1>5. ASSUME NEW a \in Actors, HandOff(a) \/ HandOffFails(a) \/ Parked(a)
      PROVE  WindowInv'
  BY <1>5, MoveFrame, WindowKept DEF HandOff, HandOffFails, Parked, Relied, Quiet, Escalated
<1>6. ASSUME NEW a \in Actors, JudgeRefused(a) \/ Judge(a) \/ VerdictView(a) \/ (a = Op /\ Ship)
      PROVE  WindowInv'
  <2>1. CASE JudgeRefused(a)
    BY <2>1, MoveFrame, WindowKept DEF JudgeRefused, Relied, Quiet, Escalated
  <2>2. CASE Judge(a)
    BY <2>2, MoveFrame, WindowKept DEF Judge, Relied, Quiet, Escalated
  <2>3. CASE VerdictView(a)
    BY <2>3, MoveFrame, WindowKept DEF VerdictView, Relied, Quiet, Escalated
  <2>4. CASE a = Op /\ Ship
    BY <2>4, MoveFrame, WindowKept DEF Ship, Relied, Quiet, Escalated
  <2>5. QED
    BY <1>6, <2>1, <2>2, <2>3, <2>4
<1>7. ASSUME NEW a \in Actors, Record(a) \/ RecordCrash(a) PROVE WindowInv'
  BY <1>7, MoveFrame, WindowKept DEF Record, RecordCrash, Relied
<1>8. CASE ReviewCommit
  <2>1. Others(Loop) /\ pc'[Loop] \notin Relied
    BY <1>8, MoveFrame DEF ReviewCommit, Relied
  <2>2. Quiet \/ InPath(Actors \ {Loop}) \subseteq raced'
    <3>1. CASE Void(mem[Loop].head)
      BY <1>8, <3>1, MoveFrame DEF ReviewCommit
    <3>2. CASE ~ Void(mem[Loop].head)
      BY <1>8, <3>2 DEF ReviewCommit, Quiet, Escalated
    <3>3. QED
      BY <3>1, <3>2
  <2>3. QED
    BY <2>1, <2>2, WindowKept
<1>9. ASSUME NEW a \in Actors, View(a) PROVE WindowInv'
  <2>1. pc'[a] = "read" /\ mem'[a].head = head /\ Others(a)
    <3>1. [mem[a] EXCEPT !.head = head, !.labelled = queued, !.flag = @ /\ queued].head = head
      BY DEF TypeOK, Memories
    <3>2. QED
      BY <1>9, <3>1, MoveFrame DEF View
  <2>2. Quiet
    BY <1>9 DEF View, Quiet, Escalated
  <2>3. Relies(a)'
    BY <2>1, <2>2 DEF Relies, Quiet
  <2>4. QED
    BY <2>1, <2>2, <2>3, WindowKept
<1>10. ASSUME NEW a \in Actors, Read(a) PROVE WindowInv'
  <2>1. Others(a) /\ Quiet
    BY <1>10, MoveFrame DEF Read, Quiet, Escalated
  <2>2. CASE verdict.decision # "approved"
    BY <1>10, <2>1, <2>2, MoveFrame, WindowKept DEF Read, Relied
  <2>3. CASE verdict.decision = "approved"
    <3>1. /\ pc'[a] = IF HeadMoved(a) THEN "carry" ELSE "branch"
          /\ mem'[a].head = mem[a].head /\ mem'[a].verdict = verdict
          /\ a \in raced => a \in raced'
      BY <1>10, <2>3, MoveFrame DEF Read, TypeOK, Memories, MergePath
    <3>2. Relies(a) => Relies(a)'
      BY <1>10, <2>1, <2>3, <3>1 DEF Read, Relies, Quiet, HeadMoved, Approved
    <3>3. QED
      BY <2>1, <3>1, <3>2, WindowKept DEF WindowInv
  <2>4. QED
    BY <2>2, <2>3
<1>11. ASSUME NEW a \in Actors, Carry(a) PROVE WindowInv'
  <2>1. Others(a) /\ Quiet
    BY <1>11, MoveFrame DEF Carry, Quiet, Escalated
  <2>2. \/ pc'[a] = "rereview"
        \/ pc'[a] = "restamp" /\ mem'[a] = mem[a] /\ (a \in raced => a \in raced')
    BY <1>11, MoveFrame DEF Carry, MergePath
  <2>3. pc'[a] \in Relied /\ Relies(a) => Relies(a)'
    BY <1>11, <2>1, <2>2 DEF Carry, Relied, Relies, Quiet
  <2>4. QED
    BY <2>1, <2>2, <2>3, WindowKept DEF WindowInv, Relied
<1>12. ASSUME NEW a \in Actors, Restamp(a) PROVE WindowInv'
  <2>1. CASE Unchanged(mem[a].verdict, mem[a].verdict.head)
    <3>1. /\ Others(a) /\ InPath(Actors \ {a}) \subseteq raced'
          /\ pc'[a] = "refetch" /\ (a \in raced => a \in raced')
      BY <1>12, <2>1, MoveFrame DEF Restamp, MergePath
    <3>2. /\ verdict'.decision = mem[a].verdict.decision
          /\ verdict'.head = mem[a].head /\ head' = head
      BY <1>12, <2>1 DEF Restamp, Rebind, Unchanged, TypeOK, Verdicts
    <3>3. Relies(a) => Relies(a)'
      BY <1>12, <3>1, <3>2 DEF Restamp, Relies, Approved
    <3>4. QED
      BY <3>1, <3>3, WindowKept DEF WindowInv
  <2>2. CASE ~ Unchanged(mem[a].verdict, mem[a].verdict.head)
    BY <1>12, <2>2, MoveFrame, WindowKept DEF Restamp, Relied, Quiet, Escalated
  <2>3. QED
    BY <2>1, <2>2
<1>13. ASSUME NEW a \in Actors, Refetch(a) PROVE WindowInv'
  <2>1. Others(a) /\ Quiet
    BY <1>13, MoveFrame DEF Refetch, Quiet, Escalated
  <2>2. /\ pc'[a] = "stamp" /\ mem'[a].head = head /\ mem'[a].verdict = verdict
        /\ a \in raced => a \in raced'
    <3>1. \A m \in Memories :
            LET n == [m EXCEPT !.head = head, !.verdict = verdict, !.labelled = queued]
            IN  n.head = head /\ n.verdict = verdict
      BY DEF Memories
    <3>2. mem[a] \in Memories
      BY DEF TypeOK
    <3>3. /\ pc'[a] = "stamp" /\ (a \in raced => a \in raced')
          /\ mem'[a] = [mem[a] EXCEPT !.head = head, !.verdict = verdict,
                                      !.labelled = queued]
      BY <1>13, MoveFrame DEF Refetch, MergePath
    <3>4. QED
      BY <3>1, <3>2, <3>3
  <2>3. Relies(a) => Relies(a)'
    BY <1>13, <2>1, <2>2 DEF Refetch, Relies, Quiet, Approved
  <2>4. QED
    BY <2>1, <2>2, <2>3, WindowKept DEF WindowInv
<1>14. ASSUME NEW a \in Actors, Stamp(a) PROVE WindowInv'
  <2>1. Others(a) /\ Quiet
    BY <1>14, MoveFrame DEF Stamp, Quiet, Escalated
  <2>2. pc'[a] = "branch" /\ mem'[a] = mem[a] /\ (a \in raced => a \in raced')
    BY <1>14, MoveFrame DEF Stamp, MergePath
  <2>3. Relies(a) => Relies(a)'
    BY <1>14, <2>1, <2>2 DEF Stamp, Relies, Quiet, Approved
  <2>4. QED
    BY <2>1, <2>2, <2>3, WindowKept DEF WindowInv
<1>15. ASSUME NEW a \in Actors, NoSync(a) PROVE WindowInv'
  <2>1. Others(a) /\ Quiet
    BY <1>15, MoveFrame DEF NoSync, Quiet, Escalated
  <2>2. pc'[a] = "ready" /\ (a \in raced => a \in raced')
    BY <1>15, MoveFrame DEF NoSync, MergePath
  <2>3. Relies(a) => Relies(a)'
    BY <1>15, <2>1, <2>2 DEF NoSync, Relies, Quiet, Approved
  <2>4. QED
    BY <2>1, <2>2, <2>3, WindowKept DEF WindowInv
<1>16. ASSUME NEW a \in Actors, Sync(a) PROVE WindowInv'
  <2>1. /\ Others(a) /\ InPath(Actors \ {a}) \subseteq raced'
        /\ pc'[a] = "verify" /\ mem'[a] = mem[a] /\ (a \in raced => a \in raced')
    BY <1>16, MoveFrame DEF Sync, MergePath
  <2>2. Relies(a) => Relies(a)'
    BY <1>16, <2>1 DEF Sync, Relies
  <2>3. QED
    BY <2>1, <2>2, WindowKept DEF WindowInv
<1>17. ASSUME NEW a \in Actors, Verify(a) PROVE WindowInv'
  <2>1. Others(a) /\ Quiet
    BY <1>17, MoveFrame DEF Verify, Quiet, Escalated
  <2>2. a \in raced => a \in raced'
    BY <1>17, MoveFrame DEF Verify, MergePath
  <2>3. \/ pc'[a] = "resync" /\ mem'[a].synced = head /\ mem'[a].verdict = mem[a].verdict
        \/ pc'[a] = "ready" /\ mem'[a].flag
    BY <1>17, MoveFrame DEF Verify, TypeOK, Memories
  <2>4. Relies(a) => Relies(a)'
    BY <1>17, <2>1, <2>3 DEF Verify, Relies, Quiet
  <2>5. QED
    BY <2>1, <2>2, <2>4, WindowKept DEF WindowInv
<1>18. ASSUME NEW a \in Actors, ReSync(a) PROVE WindowInv'
  <2>1. CASE Unchanged(mem[a].verdict, mem[a].head)
    <3>1. /\ Others(a) /\ InPath(Actors \ {a}) \subseteq raced'
          /\ pc'[a] = "ready" /\ (a \in raced => a \in raced')
      BY <1>18, <2>1, MoveFrame DEF ReSync, MergePath
    <3>2. /\ verdict'.decision = mem[a].verdict.decision
          /\ verdict'.head = mem[a].synced /\ head' = head
      BY <1>18, <2>1 DEF ReSync, Rebind, Unchanged, TypeOK, Verdicts
    <3>3. Relies(a) => Relies(a)'
      BY <1>18, <3>1, <3>2 DEF ReSync, Relies, Approved
    <3>4. QED
      BY <3>1, <3>3, WindowKept DEF WindowInv
  <2>2. CASE ~ Unchanged(mem[a].verdict, mem[a].head)
    BY <1>18, <2>2, MoveFrame, WindowKept DEF ReSync, Relied, Quiet, Escalated
  <2>3. QED
    BY <2>1, <2>2
<1>19. ASSUME NEW a \in Actors, Ready(a) PROVE WindowInv'
  <2>1. Others(a) /\ Quiet
    BY <1>19, MoveFrame DEF Ready, Quiet, Escalated
  <2>2. \/ pc'[a] \notin Relied
        \/ /\ pc'[a] \in {"merge", "handoff"} /\ ~ Escalated /\ ~ mem[a].flag
           /\ a \in raced => a \in raced'
    BY <1>19, MoveFrame DEF Ready, MergePath, Relied
  <2>3. pc'[a] \in Relied /\ Relies(a) => Relies(a)'
    BY <1>19, <2>1, <2>2 DEF Ready, Relies, Quiet, Approved
  <2>4. QED
    BY <2>1, <2>2, <2>3, WindowKept DEF WindowInv
<1>20. CASE Push \/ QueueSyncs \/ Escalate
  BY <1>20 DEF Push, QueueSyncs, Escalate, Overtake, InPath, WindowInv, Relies, MergePath
<1>21. CASE GitHubMerges \/ QueueDrops \/ UNCHANGED vars
  BY <1>21 DEF GitHubMerges, QueueDrops, vars, WindowInv, Relies, Approved, Escalated
<1>22. QED
  BY <1>1, <1>2, <1>3, <1>4, <1>5, <1>6, <1>7, <1>8, <1>9, <1>10, <1>11, <1>12, <1>13,
     <1>14, <1>15, <1>16, <1>17, <1>18, <1>19, <1>20, <1>21
  DEF Next, LoopStep, OpStep, ReviewStep, VerdictStep, MergeStep, World

(* Unless it was overtaken, a pass that merges or queues does so on an approval of
   the live head, and of nothing that is escalated. *)
THEOREM MergeWindowHolds == Spec => MergeWindow
<1>1. Init => WindowInv
  BY DEF Init, WindowInv, Relies
<1>2. TypeOK /\ WindowInv /\ [Next]_vars => WindowInv'
  BY WindowStep
<1>3. WindowInv => \A a \in Actors : Acts(a) /\ a \notin raced => Approved(head) /\ ~ Escalated
  BY DEF WindowInv, Relies, Acts
<1>4. QED
  BY <1>1, <1>2, <1>3, Typing, PTL DEF Spec, MergeWindow

------------------------------------------------------------------------------
(* The records. *)

(* What the packet and the loop know of the branch: the packet's diff is of its
   head, or a push came between and the head checks will see it. *)
Honest ==
    /\ packet.head <= head
    /\ pc[Loop] \in {"fetch", "check", "commit", "judge"} => mem[Loop].head \in 1 .. head
    /\ packet.head # 0 =>
          \/ packet.diff = diff[packet.head]
          \/ /\ packet.head < head
             /\ pc[Loop] = "judge" => mem[Loop].head > packet.head
    /\ pc[Loop] = "record" => /\ mem[Loop].verdict.head \in 1 .. head
                              /\ mem[Loop].verdict.diff = diff[mem[Loop].verdict.head]
Reviewing == {"fetch", "check", "commit", "judge", "record"}

(* A step that leaves the branch and the packet alone, and the loop outside the
   review or where it was, keeps Honest. *)
LEMMA HonestKept ==
    ASSUME Honest, head' = head, diff' = diff, packet' = packet,
           pc'[Loop] \notin Reviewing \/ (pc'[Loop] = pc[Loop] /\ mem'[Loop] = mem[Loop])
    PROVE  Honest'
BY DEF Honest, Reviewing

\* A new head: the earlier ones keep their contents.
NewHead == head' = head + 1 /\ \A h \in Heads : h <= head => diff'[h] = diff[h]

(* A new head keeps Honest: the earlier heads keep their contents. *)
LEMMA HonestNewHead ==
    ASSUME TypeOK, Honest, NewHead, packet' = packet,
           pc'[Loop] \notin Reviewing \/ (pc'[Loop] = pc[Loop] /\ mem'[Loop] = mem[Loop])
    PROVE  Honest'
<1>1. head \in Nat /\ packet.head \in Nat /\ head <= MaxHead /\ MaxHead \in Nat
  BY ReviewMergeAssumption DEF TypeOK, Heads, Packets
<1>2. packet.head # 0 => diff'[packet.head] = diff[packet.head]
  BY <1>1 DEF Honest, NewHead, Heads
<1>3. CASE pc'[Loop] \notin Reviewing
  BY <1>1, <1>2, <1>3 DEF Honest, NewHead, Reviewing
<1>4. CASE pc'[Loop] = pc[Loop] /\ mem'[Loop] = mem[Loop]
  <2>1. mem[Loop].verdict.head \in 1 .. head =>
            diff'[mem[Loop].verdict.head] = diff[mem[Loop].verdict.head]
    BY <1>1 DEF NewHead, Heads
  <2>2. mem[Loop].head \in 1 .. head => mem[Loop].head \in 1 .. head'
    BY <1>1 DEF NewHead
  <2>3. mem[Loop].verdict.head \in 1 .. head => mem[Loop].verdict.head \in 1 .. head'
    BY <1>1 DEF NewHead
  <2>4. packet.head <= head' /\ (packet.head < head => packet.head < head')
    BY <1>1 DEF Honest, NewHead
  <2>5. QED
    BY <1>2, <1>4, <2>1, <2>2, <2>3, <2>4 DEF Honest
<1>5. QED
  BY <1>3, <1>4

(* Honest is preserved by every step: packet writes, head checks, pushes, syncs. *)
LEMMA HonestStep == ASSUME TypeOK, Honest, [Next]_vars PROVE Honest'
<1> USE DEF Goto, End, GotoAhead, github, files, state
<1>0. Loop \in Actors /\ Op \in Actors \ {Loop} /\ Loop \in Actors \ {Op}
  BY ReviewMergeAssumption DEF Actors
<1>1. CASE List \/ Scan \/ ReviewCommit \/ Reviewed
  BY <1>0, <1>1, MoveFrame, HonestKept DEF List, Scan, ReviewCommit, Reviewed, Reviewing
<1>2. CASE ReconcileRead \/ ReconcileFinalize \/ ReconcileRevoke \/ ReconcileNothing
  BY <1>0, <1>2, MoveFrame, HonestKept
  DEF ReconcileRead, ReconcileFinalize, ReconcileRevoke, ReconcileNothing, Reviewing
<1>3. CASE ReviewView
  <2>1. \/ pc'[Loop] = "idle"
        \/ pc'[Loop] = "fetch" /\ mem'[Loop].head = head
    BY <1>0, <1>3, MoveFrame DEF ReviewView, TypeOK, Memories
  <2>2. head' = head /\ diff' = diff /\ packet' = packet
    BY <1>3 DEF ReviewView
  <2>3. QED
    BY <2>1, <2>2 DEF Honest, TypeOK, Heads
<1>4. CASE ReviewFetch
  <2>1. pc'[Loop] = "check" /\ mem'[Loop] = mem[Loop] /\ mem[Loop].head \in 1 .. head
    BY <1>0, <1>4, MoveFrame DEF ReviewFetch, Honest
  <2>2. head' = head /\ diff' = diff /\ packet'.head = mem[Loop].head /\ packet'.diff = diff[head]
    BY <1>4 DEF ReviewFetch
  <2>3. head \in Nat
    BY DEF TypeOK, Heads
  <2>4. QED
    BY <2>1, <2>2, <2>3 DEF Honest
<1>5. CASE ReviewCheck
  <2>1. \/ pc'[Loop] = "idle"
        \/ pc'[Loop] = "commit" /\ mem'[Loop] = mem[Loop]
    BY <1>0, <1>5, MoveFrame DEF ReviewCheck
  <2>2. head' = head /\ diff' = diff /\ packet' = packet
    BY <1>5 DEF ReviewCheck
  <2>3. QED
    BY <1>5, <2>1, <2>2 DEF ReviewCheck, Honest
<1>6. CASE VerdictView(Loop)
  <2>1. pc'[Loop] = "judge" /\ mem'[Loop].head = head
    <3>1. [Blank EXCEPT !.head = head].head = head
      BY DEF Blank
    <3>2. QED
      BY <1>0, <1>6, <3>1, MoveFrame DEF VerdictView
  <2>2. head' = head /\ diff' = diff /\ packet' = packet
    BY <1>6 DEF VerdictView
  <2>3. QED
    BY <2>1, <2>2 DEF Honest, TypeOK, Heads
<1>7. CASE Judge(Loop)
  <2>1. PICK s \in Subjects(Loop), d \in {"approved", "request_changes"} :
          Goto(Loop, "record", [Blank EXCEPT
              !.verdict = [decision |-> d, head |-> s.head, diff |-> s.diff]])
    BY <1>7 DEF Judge
  <2>2. s = packet /\ packet.head # 0 /\ packet.head = mem[Loop].head
    BY ReviewMergeAssumption DEF Subjects, Packaged
  <2>3. /\ pc'[Loop] = "record"
        /\ mem'[Loop].verdict.head = packet.head /\ mem'[Loop].verdict.diff = packet.diff
    BY <1>0, <2>1, <2>2, MoveFrame DEF Blank
  <2>4. packet.head \in 1 .. head /\ packet.diff = diff[packet.head]
    BY <1>7, <2>2 DEF Judge, Honest
  <2>5. head' = head /\ diff' = diff /\ packet' = packet
    BY <1>7 DEF Judge
  <2>6. QED
    BY <2>3, <2>4, <2>5 DEF Honest
<1>8. CASE JudgeRefused(Loop) \/ Record(Loop) \/ RecordCrash(Loop)
  BY <1>0, <1>8, MoveFrame, HonestKept DEF JudgeRefused, Record, RecordCrash, Reviewing
<1>9. CASE VerdictView(Op) \/ Judge(Op) \/ JudgeRefused(Op) \/ Ship
  BY <1>0, <1>9, MoveFrame, HonestKept DEF VerdictView, Judge, JudgeRefused, Ship, Others
<1>10. CASE Record(Op) \/ RecordCrash(Op)
  BY <1>0, <1>10, MoveFrame, HonestKept DEF Record, RecordCrash, Others
<1>11. ASSUME NEW a \in Actors, MergeStep(a) PROVE Honest'
  <2>1. pc'[Loop] \notin Reviewing \/ (pc'[Loop] = pc[Loop] /\ mem'[Loop] = mem[Loop])
    <3>1. Others(a) /\ pc'[a] \in (MergePath \cup {"idle", "view", "mergerecord", "parked"})
      <4>1. CASE Skip(a) \/ View(a) \/ Read(a) \/ Carry(a) \/ Restamp(a) \/ Refetch(a)
        BY <4>1, MoveFrame DEF Skip, View, Read, Carry, Restamp, Refetch, MergePath
      <4>2. CASE Stamp(a) \/ ReReview(a) \/ NoSync(a) \/ Sync(a) \/ Verify(a) \/ ReSync(a)
        BY <4>2, MoveFrame DEF Stamp, ReReview, NoSync, Sync, Verify, ReSync, MergePath
      <4>3. CASE Ready(a) \/ Rework(a) \/ Merge(a) \/ MergeFails(a) \/ MergeRecord(a)
        BY <4>3, MoveFrame DEF Ready, Rework, Merge, MergeFails, MergeRecord, MergePath
      <4>4. CASE HandOff(a) \/ HandOffFails(a) \/ Parked(a)
        BY <4>4, MoveFrame DEF HandOff, HandOffFails, Parked, MergePath
      <4>5. QED
        BY <1>11, <4>1, <4>2, <4>3, <4>4 DEF MergeStep
    <3>2. QED
      BY <1>0, <3>1 DEF Others, MergePath, Reviewing, Actors
  <2>2. CASE Sync(a)
    <3>1. NewHead /\ packet' = packet
      BY <2>2 DEF Sync, SyncHead, NewHead, TypeOK, Heads
    <3>2. QED
      BY <2>1, <3>1, HonestNewHead
  <2>3. CASE ~ Sync(a)
    <3>1. head' = head /\ diff' = diff /\ packet' = packet
      BY <1>11, <2>3 DEF MergeStep, Skip, View, Read, Carry, Restamp, Refetch, Stamp,
         ReReview, NoSync, Verify, ReSync, Ready, Rework, Merge, MergeFails, MergeRecord,
         HandOff, HandOffFails, Parked
    <3>2. QED
      BY <2>1, <3>1, HonestKept
  <2>4. QED
    BY <2>2, <2>3
<1>12. CASE Push \/ QueueSyncs
  <2>1. NewHead /\ packet' = packet /\ pc' = pc /\ mem' = mem
    <3>1. CASE Push
      BY <3>1 DEF Push, NewHead, TypeOK, Heads
    <3>2. CASE QueueSyncs
      BY <3>2 DEF QueueSyncs, SyncHead, NewHead, TypeOK, Heads
    <3>3. QED
      BY <1>12, <3>1, <3>2
  <2>2. QED
    BY <2>1, HonestNewHead
<1>13. CASE GitHubMerges \/ QueueDrops \/ Escalate \/ UNCHANGED vars
  BY <1>13, HonestKept DEF GitHubMerges, QueueDrops, Escalate, vars
<1>14. QED
  BY <1>0, <1>1, <1>2, <1>3, <1>4, <1>5, <1>6, <1>7, <1>8, <1>9, <1>10, <1>11, <1>12, <1>13
  DEF Next, LoopStep, OpStep, ReviewStep, VerdictStep, World

(* What an automated verdict says of a head was read from that head's diff, however
   pushes fall between the view, the fetch and record_review()'s head check. *)
THEOREM AutomatedVerdictHonestHolds == Spec => AutomatedVerdictHonest
<1>1. Init => Honest
  BY ReviewMergeAssumption DEF Init, Honest, Actors
<1>2. TypeOK /\ Honest /\ [Next]_vars => Honest'
  BY HonestStep
<1>3. ASSUME TypeOK, Honest, [Next]_vars,
             pc[Loop] = "record", pc'[Loop] = "idle", verdict' # verdict
      PROVE  verdict'.diff = diff[verdict'.head]
  <2>0. Loop \in Actors /\ Op \in Actors \ {Loop} /\ Loop \in Actors \ {Op}
    BY ReviewMergeAssumption DEF Actors
  <2>1. verdict' = mem[Loop].verdict
    <3>1. CASE Record(Loop) \/ RecordCrash(Loop)
      BY <3>1 DEF Record, RecordCrash
    <3>2. CASE Record(Op) \/ RecordCrash(Op)
      BY <1>3, <2>0, <3>2, MoveFrame DEF Record, RecordCrash, GotoAhead, Others
    <3>3. CASE ReviewCommit
      BY <1>3, <3>3 DEF ReviewCommit
    <3>4. ASSUME NEW a \in Actors, Restamp(a) \/ ReSync(a) PROVE FALSE
      <4>1. CASE a = Loop
        BY <1>3, <3>4, <4>1 DEF Restamp, ReSync
      <4>2. CASE a = Op
        BY <1>3, <2>0, <3>4, <4>2, MoveFrame DEF Restamp, ReSync, GotoAhead, End, Goto, Others
      <4>3. QED
        BY <4>1, <4>2 DEF Actors
    <3>5. QED
      BY <1>3, <3>1, <3>2, <3>3, <3>4, VerdictWriters, <2>0 DEF Actors
  <2>2. QED
    BY <1>3, <2>1 DEF Honest
<1>4. QED
  BY <1>1, <1>2, <1>3, Typing, PTL DEF Spec, AutomatedVerdictHonest

-----------------------------------------------------------------------------
(* What MergeRecord and ReconcileFinalize rely on. *)
MergedInv ==
    /\ StatusMergedIsTrue
    /\ \A a \in Actors : pc[a] = "mergerecord" => merged # 0
    /\ pc[Loop] = "reconcile" /\ mem[Loop].flag => merged # 0

(* A step that writes `merged` nowhere, or only once GitHub has merged, keeps MergedInv. *)
LEMMA MergedKept ==
    ASSUME MergedInv, NEW a \in Actors, Others(a), merged' = merged \/ merged' # 0,
           prStatus' = prStatus \/ prStatus' # "merged" \/ merged' # 0,
           issueStatus' = issueStatus \/ issueStatus' # "merged" \/ merged' # 0,
           pc'[a] = "mergerecord" => merged' # 0,
           pc'[a] = "reconcile" /\ mem'[a].flag => merged' # 0
    PROVE  MergedInv'
BY DEF MergedInv, StatusMergedIsTrue, Others, Actors

(* MergedInv is preserved by every step when merge_flags do not hold --auto. *)
LEMMA MergedStep == ASSUME ~ AutoFlag, TypeOK, MergedInv, [Next]_vars PROVE MergedInv'
<1> USE DEF Goto, End, GotoAhead, github, state
<1>0. Loop \in Actors /\ Op \in Actors /\ head # 0
  BY ReviewMergeAssumption DEF Actors, TypeOK, Heads
<1>1. CASE List \/ Scan \/ ReviewView \/ ReviewFetch \/ ReviewCheck \/ ReviewCommit \/ Reviewed
  BY <1>0, <1>1, MoveFrame, MergedKept
  DEF List, Scan, ReviewView, ReviewFetch, ReviewCheck, ReviewCommit, Reviewed
<1>2. CASE ReconcileFinalize \/ ReconcileRevoke \/ ReconcileNothing
  <2>1. Others(Loop) /\ pc'[Loop] = "idle" /\ merged' = merged
    BY <1>0, <1>2, MoveFrame DEF ReconcileFinalize, ReconcileRevoke, ReconcileNothing
  <2>2. (prStatus' = prStatus /\ issueStatus' = issueStatus) \/ merged # 0
    BY <1>2 DEF ReconcileFinalize, ReconcileRevoke, ReconcileNothing, MergedInv
  <2>3. QED
    BY <1>0, <2>1, <2>2, MergedKept
<1>3. CASE ReconcileRead
  <2>1. [Blank EXCEPT !.head = head, !.labelled = queued, !.flag = merged # 0].flag = (merged # 0)
    BY DEF Blank
  <2>2. Others(Loop) /\ pc'[Loop] = "reconcile" /\ (mem'[Loop].flag => merged # 0)
    BY <1>0, <1>3, <2>1, MoveFrame DEF ReconcileRead
  <2>3. QED
    BY <1>0, <1>3, <2>2, MergedKept DEF ReconcileRead
<1>4. ASSUME NEW a \in Actors, VerdictView(a) \/ Judge(a) \/ JudgeRefused(a) PROVE MergedInv'
  <2>1. CASE VerdictView(a)
    BY <2>1, MoveFrame, MergedKept DEF VerdictView
  <2>2. CASE Judge(a)
    BY <2>2, MoveFrame, MergedKept DEF Judge
  <2>3. CASE JudgeRefused(a)
    BY <2>3, MoveFrame, MergedKept DEF JudgeRefused
  <2>4. QED
    BY <1>4, <2>1, <2>2, <2>3
<1>5. ASSUME NEW a \in Actors, Record(a) \/ RecordCrash(a) PROVE MergedInv'
  <2>1. prStatus' = prStatus \/ prStatus' # "merged"
    BY <1>5 DEF Record, RecordCrash, StatusesOf
  <2>2. issueStatus' = issueStatus \/ issueStatus' # "merged"
    BY <1>5 DEF Record, RecordCrash, StatusesOf
  <2>3. Others(a) /\ pc'[a] = "idle" /\ merged' = merged
    BY <1>5, MoveFrame DEF Record, RecordCrash
  <2>4. QED
    BY <2>1, <2>2, <2>3, MergedKept
<1>6. CASE Ship
  BY <1>0, <1>6, MoveFrame, MergedKept DEF Ship
<1>7. ASSUME NEW a \in Actors, Skip(a) \/ View(a) \/ Read(a) \/ Carry(a) \/ ReReview(a)
      PROVE  MergedInv'
  BY <1>7, MoveFrame, MergedKept
  DEF Skip, View, Read, Carry, ReReview, MergedInv, StatusMergedIsTrue
<1>8. ASSUME NEW a \in Actors, Refetch(a) \/ Stamp(a) \/ NoSync(a) \/ Sync(a) \/ Verify(a)
      PROVE  MergedInv'
  BY <1>8, MoveFrame, MergedKept DEF Refetch, Stamp, NoSync, Sync, SyncHead, Verify
<1>9. ASSUME NEW a \in Actors, Restamp(a) \/ ReSync(a) PROVE MergedInv'
  <2>1. prStatus' = prStatus \/ prStatus' # "merged"
    BY <1>9 DEF Restamp, ReSync, Rebind, TypeOK, Verdicts, Decisions
  <2>2. Others(a) /\ pc'[a] \notin {"mergerecord", "reconcile"}
    BY <1>9, MoveFrame DEF Restamp, ReSync
  <2>3. merged' = merged /\ issueStatus' = issueStatus
    BY <1>9 DEF Restamp, ReSync
  <2>4. QED
    BY <2>1, <2>2, <2>3, MergedKept
<1>10. ASSUME NEW a \in Actors, Ready(a) \/ Rework(a) \/ MergeFails(a) PROVE MergedInv'
  BY <1>10, MoveFrame, MergedKept DEF Ready, Rework, MergeFails
<1>11. ASSUME NEW a \in Actors, Merge(a) \/ MergeRecord(a) PROVE MergedInv'
  BY <1>0, <1>11, MoveFrame, MergedKept DEF Merge, MergeRecord, MergedInv
<1>12. ASSUME NEW a \in Actors, HandOff(a) \/ HandOffFails(a) \/ Parked(a) PROVE MergedInv'
  BY <1>12, MoveFrame, MergedKept DEF HandOff, HandOffFails, Parked
<1>13. CASE World \/ UNCHANGED vars
  BY <1>0, <1>13
  DEF World, Push, QueueSyncs, SyncHead, GitHubMerges, QueueDrops, Escalate, vars,
      MergedInv, StatusMergedIsTrue
<1>14. QED
  BY <1>0, <1>1, <1>2, <1>3, <1>4, <1>5, <1>6, <1>7, <1>8, <1>9, <1>10, <1>11, <1>12, <1>13
  DEF Next, LoopStep, OpStep, ReviewStep, VerdictStep, MergeStep

(* Without --auto, state.json says merged only of what GitHub has merged. *)
THEOREM StatusMergedHolds == ASSUME ~ AutoFlag PROVE Spec => []StatusMergedIsTrue
<1>1. Init => MergedInv
  BY DEF Init, MergedInv, StatusMergedIsTrue, Actors
<1>2. TypeOK /\ MergedInv /\ [Next]_vars => MergedInv'
  BY MergedStep
<1>3. MergedInv => StatusMergedIsTrue
  BY DEF MergedInv
<1>4. QED
  BY <1>1, <1>2, <1>3, Typing, PTL DEF Spec

-----------------------------------------------------------------------------
(* Merged for good. *)

(* The places from which nobody writes another status over "merged": between
   passes and before the skip of merge_ready(), at a merge GitHub will refuse, at
   the record of one, and in reconcile.  From any other place of a review, a
   verdict or a merge pass a status may still be written. *)
Harmless == {"idle", "reviewed", "skip", "merge", "mergerecord", "reconcile"}
Settled == /\ merged # 0 /\ prStatus = "merged" /\ issueStatus = "merged"
           /\ \A a \in Actors : pc[a] \in Harmless

(* Once GitHub has merged, both statuses say so and no step of before the merge is
   still under way, nothing unsettles them: no verdict, review or ship-it begun
   from then on, no escalation and no reconcile (the skip of merge_ready, the
   refusal of record_review, the escalation lanes' and finalize's own checks). *)
MergedForGood == [][Settled => Settled']_vars

(* A step of a between harmless places that keeps the statuses keeps Settled. *)
LEMMA SettledKept ==
    ASSUME Settled, NEW a \in Actors, Others(a), pc'[a] \in Harmless,
           merged' = merged, prStatus' = "merged", issueStatus' = "merged"
    PROVE  Settled'
BY DEF Settled, Others

(* Settled is stable: most actions are not even enabled in it. *)
LEMMA SettledStep == ASSUME TypeOK, Settled, [Next]_vars PROVE Settled'
<1> USE DEF Goto, End, GotoAhead, github, state
<1>0. /\ Loop \in Actors /\ Op \in Actors /\ merged # 0
      /\ prStatus = "merged" /\ issueStatus = "merged"
      /\ \A a \in Actors : pc[a] \in Harmless
  BY DEF Settled, Actors
<1>1. CASE List \/ ReviewStep
  <2>1. CASE Reviewed
    BY <1>0, <2>1, MoveFrame, SettledKept DEF Reviewed, Harmless
  <2>2. CASE List \/ Scan \/ ReviewView \/ ReviewFetch \/ ReviewCheck \/ ReviewCommit
    BY <1>0, <2>2
    DEF List, Scan, ReviewView, ReviewFetch, ReviewCheck, ReviewCommit, Harmless
  <2>3. QED
    BY <1>1, <2>1, <2>2 DEF ReviewStep
<1>2. ASSUME NEW a \in Actors, VerdictView(a) \/ VerdictStep(a) PROVE Settled'
  BY <1>0, <1>2
  DEF VerdictView, VerdictStep, Judge, JudgeRefused, Record, RecordCrash, Harmless
<1>3. ASSUME NEW a \in Actors, MergeStep(a) PROVE Settled'
  <2>1. CASE Skip(a)
    BY <1>0, <2>1, MoveFrame, SettledKept DEF Skip, Harmless
  <2>2. CASE MergeFails(a) \/ MergeRecord(a)
    BY <1>0, <2>2, MoveFrame, SettledKept DEF MergeFails, MergeRecord, Harmless
  <2>3. CASE Merge(a)
    BY <1>0, <2>3 DEF Merge
  <2>4. ASSUME pc[a] \notin Harmless PROVE FALSE
    BY <1>0, <2>4
  <2>5. QED
    BY <1>3, <2>1, <2>2, <2>3, <2>4
    DEF MergeStep, View, Read, Carry, Restamp, Refetch, Stamp, ReReview, NoSync, Sync,
        Verify, ReSync, Ready, Rework, HandOff, HandOffFails, Parked, Harmless
<1>4. CASE Ship
  BY <1>0, <1>4, MoveFrame, SettledKept DEF Ship, Harmless
<1>5. CASE ReconcileRead \/ ReconcileFinalize \/ ReconcileRevoke \/ ReconcileNothing
  BY <1>0, <1>5, MoveFrame, SettledKept
  DEF ReconcileRead, ReconcileFinalize, ReconcileRevoke, ReconcileNothing, Harmless
<1>6. CASE World \/ UNCHANGED vars
  BY <1>0, <1>6
  DEF World, Push, QueueSyncs, SyncHead, GitHubMerges, QueueDrops, Escalate, vars, Settled
<1>7. QED
  BY <1>0, <1>1, <1>2, <1>3, <1>4, <1>5, <1>6 DEF Next, LoopStep, OpStep

(* The safety half of MergedSettles, with --auto or without, for every number of
   heads and commands: once state has settled on merged it stays there. *)
THEOREM MergedForGoodHolds == Spec => MergedForGood
<1>1. TypeOK /\ [Next]_vars => [Settled => Settled']_vars
  BY SettledStep
<1>2. QED
  BY <1>1, Typing, PTL DEF Spec, MergedForGood
==============================================================================
